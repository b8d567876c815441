------------------------------- MODULE DumpStore -------------------------------
(***************************************************************************)
(* What flu_dump promises: a buffer holds nothing or one whole script, as   *)
(* it was dumped, until it is freed.                                       *)
(***************************************************************************)
CONSTANTS Cbuf, Scripts, None

VARIABLE held

Init == held = [c \in Cbuf |-> None]

Dump(c) ==
  /\ held[c] = None
  /\ \E s \in Scripts : held' = [held EXCEPT ![c] = s]

Discard(c) ==
  /\ held[c] # None
  /\ held' = [held EXCEPT ![c] = None]

Next == \E c \in Cbuf : Dump(c) \/ Discard(c)

Spec == Init /\ [][Next]_held
=============================================================================
