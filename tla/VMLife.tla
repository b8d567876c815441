-------------------------------- MODULE VMLife --------------------------------
(***************************************************************************)
(* What flook promises of a Lua VM, whatever luaState variables refer to   *)
(* it: it is created once, runs scripts, scripts within scripts, and is     *)
(* destroyed at most once, when none of them runs any more.                 *)
(***************************************************************************)
EXTENDS Naturals

CONSTANTS VM, Depth

VARIABLES
  life,     \* the life of every VM
  running   \* the nesting levels of the scripts each VM runs

vars == <<life, running>>

Init ==
  /\ life = [m \in VM |-> "none"]
  /\ running = [m \in VM |-> {}]

Create(m) ==
  /\ life[m] = "none"
  /\ life' = [life EXCEPT ![m] = "open"]
  /\ UNCHANGED running

Start(m, i) ==
  /\ life[m] = "open"
  /\ \A q \in VM : i \notin running[q]
  /\ running' = [running EXCEPT ![m] = @ \cup {i}]
  /\ UNCHANGED life

\* Scripts are nested: the innermost one ends first.
Finish(m, i) ==
  /\ i \in running[m]
  /\ \A q \in VM : \A j \in running[q] : j <= i
  /\ running' = [running EXCEPT ![m] = @ \ {i}]
  /\ UNCHANGED life

Destroy(m) ==
  /\ life[m] = "open"
  /\ running[m] = {}
  /\ life' = [life EXCEPT ![m] = "closed"]
  /\ UNCHANGED running

Next ==
  \E m \in VM : \/ Create(m) \/ Destroy(m)
                \/ \E i \in Depth : Start(m, i) \/ Finish(m, i)

Spec == Init /\ [][Next]_vars
=============================================================================
