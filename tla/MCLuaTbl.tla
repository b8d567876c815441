------------------------------ MODULE MCLuaTbl ------------------------------
(***************************************************************************)
(* Instances of LuaTbl for TLC.  There is one string key; the global of     *)
(* that name is missing, a number, or a table whose field of that name is   *)
(* missing or a number in turn.                                            *)
(***************************************************************************)
EXTENDS LuaTbl, TLC

CONSTANTS a, dot, num, g, r1, r2

\* The forms of a name: nested, empty between or before the dots, empty.
MCNames ==
  {<<a>>, <<a, dot, a>>, <<a, dot, dot, a>>, <<dot, a>>, <<>>}

\* Names for the runs with more state elsewhere.
FewNames == {<<a>>, <<a, dot, a>>, <<>>}

HeapWith(v, w) ==
  [[r \in Ref |-> EmptyTable] EXCEPT ![g][a] = v, ![r1][a] = w]

MCHeaps == {HeapWith(Nil, Nil), HeapWith(num, Nil),
            HeapWith(r1, Nil), HeapWith(r1, num)}

\* The global table with a missing field, for the run with two variables.
OneHeap == {HeapWith(r1, Nil)}

\* What a callback may be passed: nothing, a number, a table over a number.
MCArgs == {<<>>, <<num>>, <<num, r1>>}

\* The stack the host program starts with.
NoArgs == {<<>>}

\* A callback that is passed a table.
TblArg == {<<r1>>}

\* No variable differs from another.
Symmetric == Permutations(Tbl)
=============================================================================
