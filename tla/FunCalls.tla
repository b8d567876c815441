------------------------------- MODULE FunCalls -------------------------------
(***************************************************************************)
(* What aot_fun promises: a function is opened, given its arguments one by  *)
(* one and called with them, again and again, until it is closed; functions *)
(* that are open at the same time do not meet.                             *)
(***************************************************************************)
EXTENDS Sequences

CONSTANTS Fun, Code, Item, None

VARIABLES
  opened,   \* the function each variable has opened
  args,     \* the arguments it was given since the last call
  called    \* the last call: a function and its arguments

vars == <<opened, args, called>>

Init ==
  /\ opened = [f \in Fun |-> None]
  /\ args = [f \in Fun |-> <<>>]
  /\ called = None

Open(f) ==
  /\ opened[f] = None
  /\ \E c \in Code : opened' = [opened EXCEPT ![f] = c]
  /\ UNCHANGED <<args, called>>

Put(f) ==
  /\ opened[f] # None
  /\ \E x \in Item : args' = [args EXCEPT ![f] = Append(@, x)]
  /\ UNCHANGED <<opened, called>>

Call(f) ==
  /\ opened[f] # None
  /\ called' = <<opened[f], args[f]>>
  /\ args' = [args EXCEPT ![f] = <<>>]
  /\ UNCHANGED opened

Close(f) ==
  /\ opened' = [opened EXCEPT ![f] = None]
  /\ args' = [args EXCEPT ![f] = <<>>]
  /\ UNCHANGED called

Next == \E f \in Fun : Open(f) \/ Put(f) \/ Call(f) \/ Close(f)

Spec == Init /\ [][Next]_vars
=============================================================================
