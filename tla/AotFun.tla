-------------------------------- MODULE AotFun --------------------------------
(***************************************************************************)
(* aot_fun_module.f90: Lua functions called from Fortran.  A handle is the   *)
(* stack position of the function; calls use up copies that are pushed above *)
(* it.  Where the arguments are on the stack is nowhere but in a count.      *)
(***************************************************************************)
EXTENDS Integers, Sequences

CONSTANTS
  Fun,         \* the aot_fun_type variables of the program
  Code,        \* Lua functions
  Val,         \* Lua values that are no functions
  Message,     \* the message of an error
  None,        \* no function, no value
  TopAfterCall,  \* whether the program puts, with aot_fun_put_top, the only
                 \* value above a function that was called
  MaxStack,    \* bound: slots of the stack in use
  MaxResults   \* bound: results asked of a call

Item == Code \cup Val \cup {Message}

ASSUME FunAssumption ==
  /\ Code \cap (Val \cup {Message}) = {}
  /\ None \notin Item
  /\ TopAfterCall \in BOOLEAN
  /\ MaxStack \in Nat /\ MaxResults \in Nat

VARIABLES
  stack,    \* the API stack
  fun,      \* the aot_fun_type variables
  called,   \* history: what was called last, and with which arguments
  fault     \* why the program cannot go on

vars == <<stack, fun, called, fault>>

\* fun%handle, fun%arg_count and fun%id.
Variable == [handle : Nat, arg_count : Nat \cup {-1}, id : Code \cup {None}]

Closed == [handle |-> 0, arg_count |-> 0, id |-> None]

TypeOK ==
  /\ stack \in Seq(Item)
  /\ fun \in [Fun -> Variable]
  /\ fault \in {"none", "stopped", "no function"}

Init ==
  /\ stack = <<>>
  /\ fun = [f \in Fun |-> Closed]
  /\ called = None
  /\ fault = "none"

----------------------------------------------------------------------------

Top == Len(stack)

IsOpen(f) == fun[f].handle > 0

\* The program works with the function that it has opened last.
OnTop(f) ==
  /\ IsOpen(f)
  /\ \A g \in Fun : fun[g].handle <= fun[f].handle

\* The slot above the function, its copy and the arguments.
Behind(f) == fun[f].handle + fun[f].arg_count + 2

\* Mutant of OpenTop: without the copy.
OpenNoCopy(f, x) ==
  /\ stack' = Append(stack, x)
  /\ fun' = [fun EXCEPT ![f] = [handle |-> IF x \in Code THEN Top + 1 ELSE 0,
                                arg_count |-> 0,
                                id |-> IF x \in Code THEN x ELSE None]]

\* aot_fun_top of the value x that was looked up.
OpenTop(f, x) ==
  IF x \in Code
  THEN /\ stack' = stack \o <<x, x>>
       /\ fun' = [fun EXCEPT ![f] = [handle |-> Top + 1, arg_count |-> 0,
                                     id |-> x]]
  ELSE /\ stack' = Append(stack, x)
       /\ fun' = [fun EXCEPT ![f] = Closed]

\* aot_fun_open: by key, position or reference.  The program looks for what may
\* be no function only while none is open: what it finds stays on the stack.
Open(f) ==
  /\ fault = "none" /\ ~IsOpen(f)
  /\ Top + 2 <= MaxStack
  /\ \E x \in Code \cup Val :
       /\ x \in Val => \A g \in Fun : ~IsOpen(g)
       /\ OpenTop(f, x)
  /\ UNCHANGED <<called, fault>>

\* Mutant of Reset: after a call, the stack is left as it is.
ResetCount(f) ==
  [stack |-> IF fun[f].arg_count = -1
             THEN Append(stack, stack[fun[f].handle])
             ELSE stack,
   count |-> IF fun[f].arg_count = -1 THEN 0 ELSE fun[f].arg_count]

\* The stack and the count with which the next argument is put.
Reset(f) ==
  IF fun[f].arg_count = -1
  THEN [stack |-> Append(SubSeq(stack, 1, fun[f].handle),
                         stack[fun[f].handle]),
        count |-> 0]
  ELSE [stack |-> stack, count |-> fun[f].arg_count]

\* aot_fun_put of a number or an array, which becomes a table.
Put(f) ==
  /\ fault = "none" /\ OnTop(f)
  /\ Len(Reset(f).stack) < MaxStack
  /\ \E v \in Val :
       stack' = Append(Reset(f).stack, v)
  /\ fun' = [fun EXCEPT ![f].arg_count = Reset(f).count + 1]
  /\ UNCHANGED <<called, fault>>

\* Mutant of CountTop: any top is an argument, the copy of the function as well.
CountAny(f, s) == fun[f].arg_count + 1

\* The count after aot_fun_put of the top of the stack s.  If the top is the only
\* value above a function that was called, flu_insert moves it to where it is and
\* pushes no copy of the function, but the copy is counted.  With any other top
\* the function stays called, and the top is no argument.
CountTop(f, s) ==
  LET again == fun[f].arg_count = -1 /\ Len(s) = fun[f].handle + 1
      count == IF again THEN 0 ELSE fun[f].arg_count
      curtop == IF again THEN Len(s) + 1 ELSE Len(s)
  IN  IF curtop - count = fun[f].handle + 2 THEN count + 1 ELSE count

\* aot_fun_put of the top of the stack: a value that the program has pushed for
\* it, or what the last call has left there.
PutTop(f) ==
  /\ fault = "none" /\ OnTop(f)
  /\ \E s \in {stack} \cup {Append(stack, v) : v \in Val} :
       /\ Len(s) <= MaxStack
       /\ fun[f].arg_count = -1 /\ Len(s) = fun[f].handle + 1 => TopAfterCall
       /\ stack' = s
       /\ fun' = [fun EXCEPT ![f].arg_count = CountTop(f, s)]
  /\ UNCHANGED <<called, fault>>

\* flu_pcall: replaces a function and its arguments by results or a message.
Pcall(nargs, results) ==
  LET func == Top - nargs
  IN  /\ called' = <<stack[func], SubSeq(stack, func + 1, Top)>>
      /\ stack' = SubSeq(stack, 1, func - 1) \o results

\* aot_fun_do, with or without an error code.
Do(f) ==
  /\ fault = "none" /\ OnTop(f)
  /\ fun[f].arg_count # -1
  /\ \E n \in 0 .. MaxResults, report \in BOOLEAN :
       \/ /\ stack[Top - fun[f].arg_count] \in Code
          /\ \E r \in [1 .. n -> Val] : Pcall(fun[f].arg_count, r)
          /\ fault' = "none"
       \/ /\ Pcall(fun[f].arg_count, <<Message>>)
          /\ fault' = IF report THEN "none" ELSE "stopped"
  /\ fun' = [fun EXCEPT ![f].arg_count = -1]

\* Called once more without arguments: flu_pcall with -1 arguments takes the
\* slot above the top for the function, whatever an earlier call has left in it.
\* What happens then is undefined; the model ends.
DoAgain(f) ==
  /\ fault = "none" /\ OnTop(f)
  /\ fun[f].arg_count = -1
  /\ fault' = "no function"
  /\ UNCHANGED <<stack, fun, called>>

\* The program takes a result, a message or what it found in place of a
\* function from the top (aot_top_get_val).
Take ==
  /\ fault = "none" /\ Top > 0
  /\ \A f \in Fun : OnTop(f) => Top >= Behind(f)
  /\ stack' = SubSeq(stack, 1, Top - 1)
  /\ UNCHANGED <<fun, called, fault>>

\* aot_fun_close.
Close(f) ==
  /\ fault = "none" /\ OnTop(f)
  /\ stack' = SubSeq(stack, 1, fun[f].handle - 1)
  /\ fun' = [fun EXCEPT ![f] = Closed]
  /\ UNCHANGED <<called, fault>>

\* The program is over.
Over == fault # "none" /\ UNCHANGED vars

Next ==
  \/ \E f \in Fun : Open(f) \/ Put(f) \/ PutTop(f) \/ Do(f) \/ DoAgain(f)
                    \/ Close(f)
  \/ Take
  \/ Over

Spec == Init /\ [][Next]_vars

----------------------------------------------------------------------------

\* The handle of an open function is the position of the function it was opened
\* as, however often it has been called.
HandleHolds ==
  \A f \in Fun : IsOpen(f) =>
    fun[f].handle <= Top /\ stack[fun[f].handle] = fun[f].id

\* Between calls, a copy of the function and as many arguments as are counted
\* lie above the handle, and nothing else: the top or another function that is
\* open comes next.
CallReady ==
  \A f \in Fun : IsOpen(f) /\ fun[f].arg_count # -1 =>
    /\ Behind(f) <= Top + 1
    /\ stack[fun[f].handle + 1] = fun[f].id
    /\ OnTop(f) => Top + 1 = Behind(f)
    /\ \A g \in Fun : fun[g].handle > fun[f].handle =>
         \E e \in Fun : fun[e].handle = Behind(f)

\* Functions that are open at the same time have no slots in common.
FunsApart ==
  \A f, g \in Fun : IsOpen(f) /\ IsOpen(g) /\ f # g =>
    \/ fun[f].handle >= Behind(g)
    \/ fun[g].handle >= Behind(f)

\* The invariant behind the calls.
FunInv == TypeOK /\ HandleHolds /\ CallReady /\ FunsApart

\* AotFun implements the calls of a function: the arguments are the slots
\* between the copy of the function and the top.
Calls == INSTANCE FunCalls WITH
  opened <- [f \in Fun |-> fun[f].id],
  args <- [f \in Fun |-> IF IsOpen(f) /\ fun[f].arg_count # -1
                         THEN SubSeq(stack, fun[f].handle + 2, Behind(f) - 1)
                         ELSE <<>>]

ImplementsCalls == Calls!Spec

\* The promise of aot_fun_do: it executes the given function.
ExecutesGiven ==
  /\ fault # "no function"
  /\ called # None => called[1] \in Code
=============================================================================
