------------------------------ MODULE MCLuaState ------------------------------
(* Instances of LuaState for TLC. *)
EXTENDS LuaState

CONSTANTS v1, v2, v3

\* The VMs are only compared with each other.
MCVM == {v1, v2, v3}
=============================================================================
