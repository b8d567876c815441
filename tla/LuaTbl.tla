------------------------------- MODULE LuaTbl -------------------------------
(***************************************************************************)
(* The luaTbl type of flook.F90: table variables that walk through Lua      *)
(* tables by handles on the API stack of one call frame (the host           *)
(* program's, or that of one Fortran function called from Lua).             *)
(*                                                                         *)
(* A luaTbl variable is the handle tbl%h and the linked list tbl%p of the   *)
(* handles of its parents.  levels[t] is that list with tbl%h at the end;   *)
(* it is empty when tbl%h is LUA_TBL_UNDEFINED.                             *)
(*                                                                         *)
(* tbl_open_ and tbl_close_ call themselves once per level.  Every          *)
(* activation is a step here: call holds the arguments of the running call  *)
(* and pc the procedure it is in.  A new call starts only when pc is idle.  *)
(***************************************************************************)
EXTENDS LuaVM, FiniteSets

CONSTANTS
  Tbl,        \* the luaTbl variables of the frame
  Dot,        \* the separator in the names given to lua_open
  Names,      \* the names the program opens, as sequences of keys and dots
  InitHeaps,  \* the Lua tables there may be when the frame starts
  Args,       \* what Lua may pass to the frame, a set of stacks
  MaxDepth,   \* no call opens a table variable with so many levels
  MaxLvls,    \* the largest lvls the program asks to close
  MaxRuns,    \* how many scripts the program runs
  ScriptKeys  \* the fields the scripts assign to

ASSUME TblAssumption ==
  /\ IsFiniteSet(Tbl)
  /\ Dot \notin Key
  /\ Names \subseteq Seq(Name \cup {Dot})
  /\ \A nm \in Names : \A i \in 1 .. Len(nm) - 1 :
       nm[i] = Dot \/ nm[i + 1] = Dot
  /\ InitHeaps \subseteq Heap
  /\ Args \subseteq Seq(Ref \cup Scalar)
  /\ ScriptKeys \subseteq Key
  /\ MaxDepth \in Nat /\ MaxLvls \in Nat /\ MaxRuns \in Nat

VARIABLES
  stack,   \* the API stack of the frame
  heap,    \* the fields of every Lua table
  levels,  \* the handles of every table variable, outermost first
  pc,      \* where the running call is
  call,    \* the running call
  args,    \* how many arguments at the bottom of the stack are unclaimed
  runs     \* how many scripts have run

vars == <<stack, heap, levels, pc, call, args, runs>>

Calls == {"open", "close", "reopen", "vector", "matrix", "top"}
Modes == {"one", "count", "tree", "both"}
Phases == {"open", "close", "vector", "matrix"}
Faults == {"no parent", "closed table", "memory", "underflow"}

\* The arguments and local variables of a call of the API; depth is how many
\* levels were open when it started to open levels, height the stack then.
Call == [op : Calls, tb : Tbl, name : Seq(Name \cup {Dot}), mode : Modes,
         lvls : Int, write : BOOLEAN, row : Nat \ {0}, depth : Nat,
         height : Nat]

NoCall == [op |-> "none"]

TypeOK ==
  /\ stack \in Seq(Slot)
  /\ heap \in Heap
  /\ levels \in [Tbl -> Seq(Nat)]
  /\ pc \in {"idle"} \cup Phases \cup Faults
  /\ IF pc = "idle" THEN call = NoCall ELSE call \in Call
  /\ args \in Nat
  /\ runs \in 0 .. MaxRuns

Init ==
  /\ stack \in Args
  /\ heap \in InitHeaps
  /\ levels = [t \in Tbl |-> <<>>]
  /\ pc = "idle"
  /\ call = NoCall
  /\ args = Len(stack)
  /\ runs = 0

----------------------------------------------------------------------------
(* Table variables.                                                        *)

IsOpen(t) == levels[t] # <<>>

\* tbl%h of an open table variable.
Handle(t) == levels[t][Len(levels[t])]

\* The handles of u.
Handles(u) == {levels[u][i] : i \in DOMAIN levels[u]}

\* Closing the n innermost levels of t drops no handle of another variable.
OnTop(t, n) ==
  \A j \in DOMAIN levels[t] :
    (j > Len(levels[t]) - n /\ levels[t][j] > 0) =>
      \A u \in Tbl \ {t} : \A i \in DOMAIN levels[u] :
        levels[u][i] < levels[t][j]

----------------------------------------------------------------------------
(* Calls of the API.  The program closes table variables in an order that   *)
(* drops no other variable's handle (OnTop): a slot that two variables hold *)
(* stays.  It uses lua_table only for a variable it has closed: the "user   *)
(* shall assure it is closed" of state_tbl_.                                *)

Begin(t, op, phase, name, mode, lvls, write) ==
  /\ pc = "idle"
  /\ pc' = phase
  /\ call' = [op |-> op, tb |-> t, name |-> name, mode |-> mode,
              lvls |-> lvls, write |-> write, row |-> 1,
              depth |-> Len(levels[t]), height |-> Len(stack)]
  /\ UNCHANGED <<stack, heap, levels, args, runs>>

\* lua_open(tbl, name, lvls), and lua_table(lua, name) on a closed variable.
Open(t) ==
  /\ Len(levels[t]) < MaxDepth
  /\ \E nm \in Names : Begin(t, "open", "open", nm, "count", 0, FALSE)

\* lua_close(tbl), and with lvls, tree or both.
Close(t) ==
  \/ OnTop(t, 1) /\ Begin(t, "close", "close", <<>>, "one", 0, FALSE)
  \/ \E n \in 0 .. MaxLvls :
       /\ OnTop(t, n)
       /\ Begin(t, "close", "close", <<>>, "count", n, FALSE)
  \/ /\ OnTop(t, Len(levels[t]))
     /\ \/ Begin(t, "close", "close", <<>>, "tree", 0, FALSE)
        \/ \E n \in 0 .. MaxLvls :
             Begin(t, "close", "close", <<>>, "both", n, FALSE)

\* lua_close_open(tbl, name, lvls).
Reopen(t) ==
  /\ Len(levels[t]) < MaxDepth
  /\ \E nm \in Names :
       \/ /\ OnTop(t, 1)
          /\ Begin(t, "reopen", "close", nm, "one", 0, FALSE)
       \/ \E n \in 0 .. MaxLvls :
            /\ OnTop(t, n)
            /\ Begin(t, "reopen", "close", nm, "count", n, FALSE)

\* lua_set of an array.  The call without a name does what the call with an empty
\* name does.
SetArray(t) ==
  /\ Len(levels[t]) < MaxDepth
  /\ \E nm \in Names, op \in {"vector", "matrix"} :
       Begin(t, op, "open", nm, "count", 0, TRUE)

\* lua_get of an array.
GetArray(t) ==
  /\ Len(levels[t]) < MaxDepth
  /\ \E nm \in Names, op \in {"vector", "matrix"} :
       Begin(t, op, "open", nm, "count", 0, FALSE)

Array(t) == SetArray(t) \/ GetArray(t)

\* lua_set of one value by key.
SetField(t) ==
  /\ pc = "idle"
  /\ IsOpen(t)
  /\ \E k \in Name, v \in Scalar :
       heap' = Stored(stack, heap, Handle(t), [x \in {k} |-> v])
  /\ UNCHANGED <<stack, levels, pc, call, args, runs>>

\* lua_table(lua): the table on top of the stack, if it is one.  Nothing is
\* checked: the slot may be the innermost of another variable, and is shared
\* with it from then on.
TopTable(t) ==
  /\ pc = "idle"
  /\ ~IsOpen(t)
  /\ stack # <<>>
  /\ LET v    == stack[Len(stack)]
         rest == SubSeq(stack, 1, Len(stack) - 1)
     IN  /\ stack' = Pushed(rest, v)
         /\ levels' = [levels EXCEPT ![t] = <<HandleOf(rest, v)>>]
  /\ args' = IF args = Len(stack) THEN args - 1 ELSE args
  /\ UNCHANGED <<heap, pc, call, runs>>

\* ... on an empty stack: aot_table_top finds no table and pops what it takes
\* for a value, so the stack ends below the frame.
TopOfNothing(t) ==
  /\ ~IsOpen(t)
  /\ stack = <<>>
  /\ Begin(t, "top", "underflow", <<>>, "count", 0, FALSE)

\* lua_run of a script that assigns a value or a new table to at most one
\* field.  When it fails, its message stays on the stack.
Run ==
  /\ pc = "idle"
  /\ runs < MaxRuns
  /\ runs' = runs + 1
  /\ \/ heap' = heap
     \/ \E r \in Ref \ Fresh(stack, heap) : \E k \in ScriptKeys, v \in Value :
          heap' = [q \in Ref |->
                     IF q = r THEN [heap[q] EXCEPT ![k] = v]
                     ELSE IF q = v /\ v \in Fresh(stack, heap) THEN EmptyTable
                     ELSE heap[q]]
  /\ \/ stack' = stack
     \/ stack' = Append(stack, Message)
  /\ UNCHANGED <<levels, pc, call, args>>

----------------------------------------------------------------------------
(* The steps of a running call.                                            *)

Return == pc' = "idle" /\ call' = NoCall

Fault(why) ==
  /\ pc' = why
  /\ UNCHANGED <<stack, heap, levels, call, args, runs>>

\* What follows the first key of a name and its dot.
AfterDot(name) == [i \in 1 .. Len(name) - 2 |-> name[i + 2]]

\* Mutant: the level is not counted.
Uncounted(c) == [c EXCEPT !.name = AfterDot(@)]

\* One level was opened.
Counted(c) == [c EXCEPT !.name = AfterDot(@), !.lvls = @ + 1]

\* tbl_open_ returns at once for an empty name or a leading dot.
NameEnds == IF call.name = <<>> THEN TRUE ELSE call.name[1] = Dot

\* Mutant: a level without a table is forgotten with its parents.
DescendOrForget(t, h) ==
  levels' = [levels EXCEPT ![t] = IF h = 0 THEN <<>> ELSE Append(@, h)]

\* The levels of t after a level with handle h was opened.
Descend(t, h) == levels' = [levels EXCEPT ![t] = Append(@, h)]

\* tbl_open_ below an open table: the first key of the name is looked up in
\* the innermost table, and created there when it is missing.
OpenBelow ==
  /\ pc = "open" /\ ~NameEnds
  /\ IsOpen(call.tb)
  /\ \E o \in Resolve(stack, heap, Handle(call.tb), call.name[1]) :
       /\ stack' = o.stack
       /\ heap' = o.heap
       /\ Descend(call.tb, o.handle)
  /\ call' = Counted(call)
  /\ UNCHANGED <<pc, args, runs>>

\* tbl_open_ of a closed table: the first key is a global variable.
OpenGlobal ==
  /\ pc = "open" /\ ~NameEnds
  /\ ~IsOpen(call.tb)
  /\ heap[Globals][call.name[1]] # Nil
  /\ LET o == Found(stack, heap, heap[Globals][call.name[1]])
     IN  /\ stack' = o.stack
         /\ Descend(call.tb, o.handle)
  /\ call' = Counted(call)
  /\ UNCHANGED <<heap, pc, args, runs>>

\* ... which is missing: tbl_create_by_handle_key__ hands its absent parent
\* on to aot_table_set_top, where it is not optional.
OpenNoParent ==
  /\ pc = "open" /\ ~NameEnds
  /\ ~IsOpen(call.tb)
  /\ heap[Globals][call.name[1]] = Nil
  /\ Fault("no parent")

OpenDone ==
  /\ pc = "open" /\ NameEnds
  /\ IF call.op \in {"vector", "matrix"}
     THEN pc' = call.op /\ UNCHANGED call
     ELSE Return
  /\ UNCHANGED <<stack, heap, levels, args, runs>>

\* set_*_1d_ and get_*_1d_ at positions 1..Extent of the current table.
Vector ==
  /\ pc = "vector"
  /\ IF call.write /\ IsOpen(call.tb)
     THEN \E f \in [Pos -> Scalar] :
            heap' = Stored(stack, heap, Handle(call.tb), f)
     ELSE heap' = heap
  /\ call.write \/ IsOpen(call.tb)
  /\ pc' = "close"
  /\ UNCHANGED <<stack, levels, call, args, runs>>

\* Mutant: the loop index does not advance.
SameRow(c) == c

NextRow(c) == [c EXCEPT !.row = @ + 1]

\* One row of set_*_2d_ and get_*_2d_: the table at position row is opened,
\* or created, the row is written to it or read from it, it is closed.
MatrixRow ==
  /\ pc = "matrix" /\ call.row <= Extent
  /\ IsOpen(call.tb)
  /\ \E o \in Resolve(stack, heap, Handle(call.tb), call.row) :
       /\ IF call.write
          THEN \E f \in [Pos -> Scalar] :
                 heap' = Stored(o.stack, o.heap, o.handle, f)
          ELSE heap' = o.heap
       /\ stack' = Closed(o.stack, o.handle)
  /\ call' = NextRow(call)
  /\ UNCHANGED <<levels, pc, args, runs>>

MatrixDone ==
  /\ pc = "matrix" /\ call.row > Extent
  /\ pc' = "close"
  /\ UNCHANGED <<stack, heap, levels, call, args, runs>>

\* A closed table's handle is no stack position: reading through it, or
\* opening a row under it, is an error of the Lua API.
ClosedTable ==
  /\ \/ pc = "vector" /\ ~call.write
     \/ pc = "matrix" /\ call.row <= Extent
  /\ ~IsOpen(call.tb)
  /\ Fault("closed table")

\* tbl_close_ returns at once on a closed table and when lvls is used up.
CloseEnds ==
  \/ ~IsOpen(call.tb)
  \/ call.mode \in {"count", "both"} /\ call.lvls <= 0

\* What follows when tbl_close_ has returned.
AfterClose ==
  IF call.op = "reopen"
  THEN /\ pc' = "open"
       /\ call' = [call EXCEPT !.depth = Len(levels'[call.tb])]
  ELSE Return

\* lvls counts down; the recursive call for tree is made without lvls.
Discounted(c) ==
  [c EXCEPT !.lvls = IF c.mode = "tree" THEN @ ELSE @ - 1,
            !.mode = IF @ = "both" THEN "tree" ELSE @]

\* One activation of tbl_close_.
CloseLevel ==
  /\ pc = "close" /\ ~CloseEnds
  /\ stack' = Closed(stack, Handle(call.tb))
  /\ levels' = [levels EXCEPT ![call.tb] = SubSeq(@, 1, Len(@) - 1)]
  /\ IF call.mode = "one" THEN AfterClose
     ELSE pc' = pc /\ call' = Discounted(call)
  /\ UNCHANGED <<heap, args, runs>>

CloseDone ==
  /\ pc = "close" /\ CloseEnds
  /\ UNCHANGED <<stack, heap, levels, args, runs>>
  /\ AfterClose

\* lua_createtable cannot get memory, and no protected call is active.
OutOfMemory ==
  /\ \/ pc = "open" /\ ~NameEnds
     \/ pc = "matrix" /\ call.row <= Extent
  /\ IsOpen(call.tb)
  /\ Resolve(stack, heap, Handle(call.tb),
             IF pc = "open" THEN call.name[1] ELSE call.row) = {}
  /\ Fault("memory")

Step ==
  \/ OpenBelow \/ OpenGlobal \/ OpenNoParent \/ OpenDone
  \/ Vector \/ MatrixRow \/ MatrixDone \/ ClosedTable
  \/ CloseLevel \/ CloseDone \/ OutOfMemory

\* The program does not survive a fault.
Stopped == pc \in Faults /\ UNCHANGED vars

Next ==
  \/ \E t \in Tbl : \/ Open(t) \/ Close(t) \/ Reopen(t) \/ Array(t)
                    \/ SetField(t) \/ TopTable(t) \/ TopOfNothing(t)
  \/ Run
  \/ Step
  \/ Stopped

Spec == Init /\ [][Next]_vars

\* A call runs to its end in the thread that made it.
FairSpec == Spec /\ WF_vars(Step)

----------------------------------------------------------------------------
(* What the handles have to satisfy for the calls to be right.             *)

\* Every handle of every level, also of the levels below the current one,
\* is the position of a table on the stack (aot_table_top), and none is a
\* position of the frame's arguments that Lua still owns.
HandlesValid ==
  \A t \in Tbl : \A i \in DOMAIN levels[t] :
    levels[t][i] > 0 => /\ levels[t][i] \in args + 1 .. Len(stack)
                        /\ stack[levels[t][i]] \in Ref

\* The parents in the linked list tbl%p lie under tbl%h on the stack, so
\* closing a level (aot_table_close drops all that is above it) keeps them;
\* and below a level that found no table there is no table.
HandlesNested ==
  \A t \in Tbl : \A i, j \in DOMAIN levels[t] :
    i < j => \/ levels[t][j] = 0
             \/ 0 < levels[t][i] /\ levels[t][i] < levels[t][j]

\* No slot is lost: what is on the stack is an argument, the message of a
\* failed script, or a table that a close of its variable will drop.  So no
\* sequence of open, close, set and get calls makes the stack grow.
SlotsOwned ==
  \A n \in args + 1 .. Len(stack) :
    stack[n] = Message \/ \E t \in Tbl : n \in Handles(t)

\* No slot has two owners.
HandlesDisjoint ==
  \A t, u \in Tbl : t # u => Handles(t) \cap Handles(u) \subseteq {0}

\* The open levels that have a table, of all variables.
TableLevels ==
  UNION {{<<t, i>> : i \in {j \in DOMAIN levels[t] : levels[t][j] > 0}}
           : t \in Tbl}

\* The messages of failed scripts above the arguments.
MessageSlots == {n \in args + 1 .. Len(stack) : stack[n] = Message}

\* What the stack costs: a slot for each argument, one for each open level with
\* a table unless lua_table(lua) made two levels share it, and at most one for
\* each script that has run.  Nothing calls lua_checkstack, so this is what
\* must not exceed the slots Lua guarantees.
StackAccounted ==
  LET sum == args + Cardinality(TableLevels) + Cardinality(MessageSlots)
  IN  /\ IF HandlesDisjoint THEN Len(stack) = sum ELSE Len(stack) < sum
      /\ Cardinality(MessageSlots) <= runs

\* tbl_open_ counts in lvls the levels it opens, whatever the name is and
\* whether the levels are tables: the lua_close(tbl,lvls) of the array calls,
\* or of the program, gets back to where the lua_open started.  So does
\* lua_close_open, if its close has used up lvls and left a level open.
LevelsCounted ==
  (\/ call.op \in {"open", "vector", "matrix"}
   \/ /\ pc = "open" /\ call.op = "reopen"
      /\ call.mode = "count" /\ call.depth > 0) =>
    Len(levels[call.tb]) = call.depth + call.lvls

\* The table in which level j of t was looked up.
Above(t, j) == IF j = 1 THEN Globals ELSE stack[levels[t][j - 1]]

\* As long as a call runs, each table it has opened is a field of the table in
\* which it was looked up, also when it had to be created: what lua_set then
\* writes can be found under the name again.
OpenedLinked ==
  pc # "idle" =>
    \A j \in DOMAIN levels[call.tb] :
      (j > call.depth /\ levels[call.tb][j] > 0) =>
        \E k \in Name :
          heap[Above(call.tb, j)][k] = stack[levels[call.tb][j]]

\* A call that starts to open from an open table never reaches the two
\* faults of closed ones, however its name is formed and whatever the
\* fields hold that it names.
OpenTableIsSafe ==
  pc \in {"no parent", "closed table"} => call.depth = 0

\* How many levels the running call is going to close.
ToClose ==
  IF call.mode = "one" THEN 1
  ELSE IF call.mode = "count" THEN call.lvls
  ELSE Len(levels[call.tb])

IsArrayCall == pc # "idle" /\ call.op \in {"vector", "matrix"}

\* An array call closes as many levels as lvls says, and only an array call
\* gets to its array.
ArrayCallOK ==
  /\ IsArrayCall => call.mode = "count"
  /\ pc \in {"vector", "matrix"} => IsArrayCall

\* No call closes a level that lies under another variable's: neither one
\* that was asked to, nor an array call that opened its levels itself.
ClosesOnTop ==
  (IsArrayCall \/ pc = "close") => OnTop(call.tb, ToClose)

\* The invariant that the handle properties rest on: a step keeps each of
\* them only together with the others.
HandleInv ==
  /\ TypeOK
  /\ args <= Len(stack)
  /\ HandlesValid
  /\ HandlesNested
  /\ SlotsOwned
  /\ ArrayCallOK
  /\ ClosesOnTop

\* What an array call has added since it began: the innermost lvls levels,
\* and in the slots above height their handles and nothing else.
ArrayFrame ==
  IsArrayCall =>
    /\ call.lvls \in Nat
    /\ Len(levels[call.tb]) = call.depth + call.lvls
    /\ call.height <= Len(stack)
    /\ \A j \in DOMAIN levels[call.tb] :
         j > call.depth => (levels[call.tb][j] = 0
                            \/ levels[call.tb][j] > call.height)
    /\ \A n \in call.height + 1 .. Len(stack) :
         \E j \in DOMAIN levels[call.tb] :
           j > call.depth /\ levels[call.tb][j] = n

CallRestores ==
  (call.op \in {"vector", "matrix"} /\ pc' = "idle") =>
    /\ Len(levels'[call.tb]) = call.depth
    /\ Len(stack') = call.height

\* lua_set and lua_get of an array under a name leave the table variable at
\* the level, and the stack at the height, that they found.
ArrayCallRestores == [][CallRestores]_vars

ArrayCallKept ==
  IsArrayCall =>
    /\ \A n \in 1 .. call.height :
         n <= Len(stack') /\ stack'[n] = stack[n]
    /\ \A u \in Tbl : \A i \in DOMAIN levels[u] :
         (u # call.tb \/ i <= call.depth) =>
           i \in DOMAIN levels'[u] /\ levels'[u][i] = levels[u][i]

\* In between they touch nothing that was there before: no slot of the stack,
\* arguments and messages included, and no level.
ArrayCallKeeps == [][ArrayCallKept]_vars

HandlesKept ==
  \A t \in Tbl : \A i \in DOMAIN levels[t] \cap DOMAIN levels'[t] :
    /\ levels'[t][i] = levels[t][i]
    /\ levels[t][i] > 0 => /\ levels[t][i] <= Len(stack')
                           /\ stack'[levels[t][i]] = stack[levels[t][i]]

\* A level that stays open keeps its handle, and the handle its table: no
\* call on another variable, script or deeper level moves it.
HandlesStable == [][HandlesKept]_vars

OpensApart ==
  pc # "idle" =>
    \A t, u \in Tbl :
      t # u => (Handles(t) \cap Handles(u))'
                 \subseteq (Handles(t) \cap Handles(u)) \cup {0}

\* Opening never gives a variable a slot that another one holds, also when both
\* descend into the same table, and no close, array call or row does: closing
\* a level that was opened drops no level of another variable.  Only
\* lua_table(lua), which checks nothing, lets two variables share a slot.
OpensStayApart == [][OpensApart]_vars

\* lua_get of an array may create the tables it looks in, but changes no
\* field that has a value.
ReadsPreserve ==
  [][(call.op \in {"vector", "matrix"} /\ ~call.write) =>
       \A r \in Ref \ Fresh(stack, heap), k \in Key :
         heap[r][k] # Nil => heap'[r][k] = heap[r][k]]_vars

\* At most how many steps the running call has left: keys of the name to open,
\* rows to go through, levels to close.  An array call closes what it opens.
StepsLeft ==
  LET opens  == Len(call.name) + 1
      rows   == IF call.row > Extent THEN 1 ELSE Extent + 2 - call.row
      closes == Len(levels[call.tb]) + 1
  IN  IF pc = "open"
      THEN IF IsArrayCall THEN 2 * opens + Extent + 1 + closes ELSE opens
      ELSE IF pc \in {"vector", "matrix"} THEN rows + closes
      ELSE IF pc = "close"
      THEN IF call.op = "reopen" THEN closes + opens ELSE closes
      ELSE 0

StepsFall == pc \in Phases => StepsLeft' \in 0 .. StepsLeft - 1

\* Every step brings the running call closer to its end: the recursion of
\* tbl_open_ and tbl_close_ and the loop over the rows end, whatever the name
\* is, whatever the count and whatever the tables hold.
CallsEnd == [][StepsFall]_vars

\* Every call returns, or stops the program.
CallsReturn == pc # "idle" ~> (pc = "idle" \/ pc \in Faults)

\* The promise of flook's documentation of lua_table: the table of a name
\* that does not exist yet is created.
OpenCreatesGlobal == pc # "no parent"

\* The promise of its documentation of lua_close_open: on return lvls is the
\* number of levels that the call opened, however many it was asked to close.
ReopenCountsOpened ==
  [][(call.op = "reopen" /\ call.mode = "count" /\ pc' = "idle") =>
       call.lvls = Len(levels[call.tb]) - call.depth]_vars

----------------------------------------------------------------------------
(* LuaTbl implements the cursors of TblCursor: a level is the table in the  *)
(* slot of its handle.                                                     *)

Path(t) ==
  [i \in DOMAIN levels[t] |->
     IF levels[t][i] > 0 THEN stack[levels[t][i]] ELSE Nil]

Cursor == INSTANCE TblCursor WITH path <- [t \in Tbl |-> Path(t)]

\* The shared stack implements independent cursors.
ImplementsCursor == Cursor!Spec
=============================================================================
