------------------------------ MODULE MCLuaDump ------------------------------
(***************************************************************************)
(* Instances of LuaDump for TLC.  An int is at most 7 and a new buffer has  *)
(* two bytes: the scripts fit, make it grow to their need, double it, make  *)
(* the doubling overflow, and are longer than any int.                     *)
(***************************************************************************)
EXTENDS LuaDump

CONSTANTS x, y

MCScripts ==
  {<<x>>, <<y, x, y>>, <<x, y, y, x, x, y>>, <<y, x, y, x, y, x, y, y>>}
=============================================================================
