------------------------------- MODULE MCAotFun -------------------------------
(* Instances of AotFun for TLC. *)
EXTENDS AotFun, TLC

CONSTANTS f1, f2, c1, c2, a, b

\* Function variables, Lua functions and values.
MCFun == {f1, f2}
MCCode == {c1, c2}
MCVal == {a, b}

\* Neither the variables nor the functions nor the values differ in AotFun.
Symmetric ==
  Permutations(MCFun) \cup Permutations(MCCode) \cup Permutations(MCVal)
=============================================================================
