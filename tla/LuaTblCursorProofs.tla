-------------------------- MODULE LuaTblCursorProofs --------------------------
(***************************************************************************)
(* Proof that the table variables of one shared stack implement the         *)
(* independent cursors of TblCursor.                                        *)
(***************************************************************************)
EXTENDS LuaTblCallProofs

----------------------------------------------------------------------------
(* What TblCursor sees: the tables in the slots of the handles.            *)

Paths == [t \in Tbl |-> Path(t)]

\* The table in which the next level of t is looked up.
Current(t) == IF Paths[t] = <<>> THEN Globals ELSE Paths[t][Len(Paths[t])]

\* A step that appends to one path what a field holds is an entry.
LEMMA EnterMaps ==
  ASSUME NEW t \in Tbl, NEW k \in Key, NEW v,
         IF Current(t) = Nil THEN v = Nil
         ELSE v # Nil /\ v = heap[Current(t)][k],
         Paths' = [Paths EXCEPT ![t] = Append(@, IF v \in Ref THEN v ELSE Nil)],
         heap' = heap, runs' = runs
  PROVE  Cursor!Next
<1>1. Cursor!Enter(t, k)
  BY DEF Cursor!Enter, Cursor!Here, Cursor!NoTable, Paths, Current
<1> QED
  BY <1>1 DEF Cursor!Next

\* A table that is in no field and no path is unused.
LEMMA UnusedMaps ==
  ASSUME NEW r \in Ref, r # Globals,
         \A q \in Ref, k \in Key : heap[q][k] # r,
         \A t \in Tbl : \A i \in DOMAIN Paths[t] : Paths[t][i] # r
  PROVE  Cursor!Unused(r)
BY DEF Cursor!Unused, Paths

\* A step that appends a new table to one path is an entry into it.
LEMMA EnterNewMaps ==
  ASSUME NEW t \in Tbl, NEW k \in Key, NEW r \in Ref, Cursor!Unused(r),
         Current(t) # Nil, heap[Current(t)][k] = Nil,
         heap' = Cursor!NewTable(Current(t), k, r, <<>>),
         Paths' = [Paths EXCEPT ![t] = Append(@, r)], runs' = runs
  PROVE  Cursor!Next
<1>1. Cursor!EnterNew(t, k, r)
  BY DEF Cursor!EnterNew, Cursor!Here, Cursor!NoTable, Paths, Current
<1> QED
  BY <1>1 DEF Cursor!Next

\* A step that drops the last table of one path leaves it.
LEMMA LeaveMaps ==
  ASSUME NEW t \in Tbl, Paths[t] # <<>>,
         Paths' = [Paths EXCEPT ![t] = SubSeq(@, 1, Len(@) - 1)],
         heap' = heap, runs' = runs
  PROVE  Cursor!Next
<1>1. Cursor!Leave(t)
  BY DEF Cursor!Leave, Paths
<1> QED
  BY <1>1 DEF Cursor!Next

\* A step that starts a path receives its table.
LEMMA ReceiveMaps ==
  ASSUME NEW t \in Tbl, NEW r \in Ref \cup {Nil}, Paths[t] = <<>>,
         Paths' = [Paths EXCEPT ![t] = <<r>>], heap' = heap, runs' = runs
  PROVE  Cursor!Next
<1>1. Cursor!Receive(t, r)
  BY DEF Cursor!Receive, Paths
<1> QED
  BY <1>1 DEF Cursor!Next, Cursor!NoTable

\* A step that writes fields of the last table of a path stores them.
LEMMA StoreMaps ==
  ASSUME NEW t \in Tbl, NEW f \in Cursor!Fields, Paths[t] # <<>>,
         Current(t) # Nil, Cursor!Write(Current(t), f),
         Paths' = Paths, runs' = runs
  PROVE  Cursor!Next
<1>1. Cursor!Store(t, f)
  BY DEF Cursor!Store, Cursor!Here, Cursor!NoTable, Paths, Current
<1> QED
  BY <1>1 DEF Cursor!Next

\* A step that writes fields of a row of that table stores a row.
LEMMA StoreRowMaps ==
  ASSUME NEW t \in Tbl, NEW j \in Pos, NEW f \in Cursor!Fields,
         Paths[t] # <<>>, Current(t) # Nil, heap[Current(t)][j] \in Ref,
         Cursor!Write(heap[Current(t)][j], f),
         Paths' = Paths, runs' = runs
  PROVE  Cursor!Next
<1>1. Cursor!StoreRow(t, j, f)
  BY DEF Cursor!StoreRow, Cursor!Here, Cursor!NoTable, Paths, Current
<1> QED
  BY <1>1 DEF Cursor!Next

\* A step that makes a row of that table stores a new row.
LEMMA StoreNewRowMaps ==
  ASSUME NEW t \in Tbl, NEW j \in Pos, NEW r \in Ref,
         NEW f \in Cursor!Fields \cup {<<>>}, Cursor!Unused(r),
         Paths[t] # <<>>, Current(t) # Nil, heap[Current(t)][j] = Nil,
         heap' = Cursor!NewTable(Current(t), j, r, f),
         Paths' = Paths, runs' = runs
  PROVE  Cursor!Next
<1>1. Cursor!StoreNewRow(t, j, r, f)
  BY DEF Cursor!StoreNewRow, Cursor!Here, Cursor!NoTable, Paths, Current
<1> QED
  BY <1>1 DEF Cursor!Next

\* A script.
LEMMA ScriptMaps ==
  ASSUME runs < MaxRuns, runs' = runs + 1, heap' \in Heap, Paths' = Paths
  PROVE  Cursor!Next
<1>1. Cursor!Script
  BY DEF Cursor!Script, Paths, Heap, Table, Value
<1> QED
  BY <1>1 DEF Cursor!Next

\* Whatever keeps the tables, the paths and the runs is no step of TblCursor.
LEMMA StutterMaps ==
  ASSUME heap' = heap, Paths' = Paths, runs' = runs
  PROVE  UNCHANGED Cursor!vars
BY DEF Cursor!vars, Paths

----------------------------------------------------------------------------
(* The path of a table variable.                                           *)

\* A path has a table, or none, for every level.
LEMMA PathFacts ==
  ASSUME HandleInv, NEW t \in Tbl
  PROVE  /\ Paths[t] = Path(t)
         /\ levels[t] \in Seq(Nat) /\ Len(levels[t]) \in Nat
         /\ DOMAIN levels[t] = 1 .. Len(levels[t])
         /\ Path(t) \in Seq(Ref \cup {Nil})
         /\ Len(Path(t)) = Len(levels[t])
         /\ DOMAIN Path(t) = DOMAIN levels[t]
         /\ \A i \in DOMAIN levels[t] :
              Path(t)[i] = IF levels[t][i] > 0 THEN stack[levels[t][i]] ELSE Nil
         /\ Path(t) = <<>> <=> ~IsOpen(t)
<1>1. /\ levels[t] \in Seq(Nat) /\ Len(levels[t]) \in Nat
      /\ DOMAIN levels[t] = 1 .. Len(levels[t])
  BY SeqDomain DEF HandleInv, TypeOK
<1>2. /\ DOMAIN Path(t) = DOMAIN levels[t]
      /\ \A i \in DOMAIN levels[t] :
           Path(t)[i] = IF levels[t][i] > 0 THEN stack[levels[t][i]] ELSE Nil
  BY DEF Path
<1>3. \A i \in DOMAIN levels[t] : Path(t)[i] \in Ref \cup {Nil}
  BY <1>2 DEF HandleInv, HandlesValid
<1>4. Path(t) \in [1 .. Len(levels[t]) -> Ref \cup {Nil}]
  BY <1>1, <1>2, <1>3 DEF Path
<1>5. Path(t) \in Seq(Ref \cup {Nil}) /\ Len(Path(t)) = Len(levels[t])
  BY <1>1, <1>4
<1>6. Path(t) = <<>> <=> ~IsOpen(t)
  BY <1>1, <1>5 DEF IsOpen
<1> QED
  BY <1>1, <1>2, <1>5, <1>6 DEF Paths

\* The table of the current level is the one in the slot of tbl%h.
LEMMA CurrentFacts ==
  ASSUME HandleInv, NEW t \in Tbl
  PROVE  /\ ~IsOpen(t) => Current(t) = Globals
         /\ IsOpen(t) => Handle(t) \in Nat
         /\ IsOpen(t) /\ Handle(t) > 0 =>
              /\ Current(t) = stack[Handle(t)]
              /\ Handle(t) <= Len(stack) /\ stack[Handle(t)] \in Ref
         /\ IsOpen(t) /\ Handle(t) = 0 => Current(t) = Nil
<1>1. CASE ~IsOpen(t)
  BY <1>1, PathFacts DEF Current
<1>2. CASE IsOpen(t)
  <2>1. /\ Handle(t) \in Nat
        /\ Handle(t) > 0 => Handle(t) <= Len(stack) /\ stack[Handle(t)] \in Ref
        /\ Len(levels[t]) \in DOMAIN levels[t]
        /\ Handle(t) = levels[t][Len(levels[t])]
    BY <1>2, CurrentHandle DEF HandleInv, HandlesOK, TypeOK
  <2>2. Current(t) = Path(t)[Len(levels[t])]
    BY <1>2, PathFacts DEF Current
  <2>3. Current(t) = IF Handle(t) > 0 THEN stack[Handle(t)] ELSE Nil
    BY <2>1, <2>2, PathFacts
  <2> QED
    BY <1>2, <2>1, <2>3
<1> QED
  BY <1>1, <1>2

\* A variable that keeps its levels keeps its path.
LEMMA PathKept ==
  ASSUME HandleInv, [Next]_vars, NEW t \in Tbl, levels'[t] = levels[t]
  PROVE  Path(t)' = Path(t)
<1>1. \A i \in DOMAIN levels[t] :
        levels[t][i] > 0 => stack'[levels[t][i]] = stack[levels[t][i]]
  BY NextKeepsHandles DEF HandlesKept
<1> QED
  BY <1>1 DEF Path

\* When the levels of one variable change, only its path does.
LEMMA OnePath ==
  ASSUME HandleInv, [Next]_vars, NEW t \in Tbl,
         \A u \in Tbl \ {t} : levels'[u] = levels[u]
  PROVE  Paths' = [Paths EXCEPT ![t] = Path(t)']
<1>1. \A u \in Tbl \ {t} : Path(u)' = Path(u)
  BY PathKept
<1> QED
  BY <1>1 DEF Paths

\* When no levels change, no path does.
LEMMA NoPath ==
  ASSUME HandleInv, [Next]_vars, levels' = levels
  PROVE  Paths' = Paths
<1>1. \A u \in Tbl : Path(u)' = Path(u)
  BY PathKept
<1> QED
  BY <1>1 DEF Paths

\* A level that is opened adds its table to the path.
LEMMA PathGrows ==
  ASSUME HandleInv, [Next]_vars, NEW t \in Tbl, NEW h \in Nat, Descend(t, h)
  PROVE  Paths' = [Paths EXCEPT ![t] =
                     Append(@, IF h > 0 THEN stack'[h] ELSE Nil)]
<1> DEFINE n == Len(levels[t])
           x == IF h > 0 THEN stack'[h] ELSE Nil
<1>1. /\ n \in Nat /\ DOMAIN levels[t] = 1 .. n
      /\ Path(t) \in Seq(Ref \cup {Nil}) /\ Len(Path(t)) = n
      /\ DOMAIN Path(t) = 1 .. n
      /\ \A i \in 1 .. n :
           Path(t)[i] = IF levels[t][i] > 0 THEN stack[levels[t][i]] ELSE Nil
  BY PathFacts
<1>2. /\ \A u \in Tbl \ {t} : levels'[u] = levels[u]
      /\ levels'[t] = Append(levels[t], h)
  BY DEF HandleInv, TypeOK, Descend
<1>3. /\ DOMAIN levels'[t] = 1 .. n + 1
      /\ \A i \in 1 .. n : levels'[t][i] = levels[t][i]
      /\ levels'[t][n + 1] = h
  BY <1>1, <1>2 DEF HandleInv, TypeOK
<1>4. \A i \in 1 .. n :
        levels[t][i] > 0 => stack'[levels[t][i]] = stack[levels[t][i]]
  <2>1. \A i \in 1 .. n : i \in DOMAIN levels[t] \cap DOMAIN levels'[t]
    BY <1>1, <1>3
  <2> QED
    BY <2>1, NextKeepsHandles DEF HandlesKept
<1>5. Path(t)' = [i \in 1 .. n + 1 |-> IF i <= n THEN Path(t)[i] ELSE x]
  <2>1. Path(t)' = [i \in DOMAIN levels'[t] |->
                      IF levels'[t][i] > 0 THEN stack'[levels'[t][i]] ELSE Nil]
    BY DEF Path
  <2>2. \A i \in 1 .. n + 1 :
          (IF levels'[t][i] > 0 THEN stack'[levels'[t][i]] ELSE Nil)
            = IF i <= n THEN Path(t)[i] ELSE x
    <3> SUFFICES ASSUME NEW i \in 1 .. n + 1
                 PROVE  (IF levels'[t][i] > 0 THEN stack'[levels'[t][i]] ELSE Nil)
                          = IF i <= n THEN Path(t)[i] ELSE x
      OBVIOUS
    <3>1. CASE i <= n
      <4>1. i \in 1 .. n
        BY <1>1, <3>1
      <4> QED
        BY <1>1, <1>3, <1>4, <3>1, <4>1
    <3>2. CASE i = n + 1
      BY <1>1, <1>3, <3>2
    <3> QED
      BY <1>1, <3>1, <3>2
  <2> QED
    BY <1>3, <2>1, <2>2
<1>6. Append(Path(t), x) = [i \in 1 .. n + 1 |-> IF i <= n THEN Path(t)[i] ELSE x]
  BY <1>1
<1>7. Paths' = [Paths EXCEPT ![t] = Path(t)']
  BY <1>2, OnePath
<1> QED
  BY <1>5, <1>6, <1>7, PathFacts

\* A level that is closed takes the last table of the path with it.
LEMMA PathShrinks ==
  ASSUME HandleInv, [Next]_vars, NEW t \in Tbl, IsOpen(t),
         levels' = [levels EXCEPT ![t] = SubSeq(@, 1, Len(@) - 1)]
  PROVE  Paths' = [Paths EXCEPT ![t] = SubSeq(@, 1, Len(@) - 1)]
<1> DEFINE n == Len(levels[t])
<1>1. /\ n \in Nat /\ n > 0 /\ DOMAIN levels[t] = 1 .. n
      /\ levels[t] \in Seq(Nat) /\ levels[t] # <<>>
      /\ Path(t) \in Seq(Ref \cup {Nil}) /\ Len(Path(t)) = n
      /\ Path(t) # <<>>
      /\ \A i \in 1 .. n :
           Path(t)[i] = IF levels[t][i] > 0 THEN stack[levels[t][i]] ELSE Nil
  BY PathFacts, LastFacts DEF IsOpen
<1>2. /\ \A u \in Tbl \ {t} : levels'[u] = levels[u]
      /\ levels'[t] = SubSeq(levels[t], 1, n - 1)
  BY DEF HandleInv, TypeOK
<1>3. /\ DOMAIN levels'[t] = 1 .. n - 1
      /\ \A i \in 1 .. n - 1 : levels'[t][i] = levels[t][i]
  BY <1>1, <1>2, FrontFacts
<1>4. \A i \in 1 .. n - 1 :
        levels[t][i] > 0 => stack'[levels[t][i]] = stack[levels[t][i]]
  <2>1. \A i \in 1 .. n - 1 : i \in DOMAIN levels[t] \cap DOMAIN levels'[t]
    BY <1>1, <1>3
  <2> QED
    BY <2>1, NextKeepsHandles DEF HandlesKept
<1>5. Path(t)' = [i \in 1 .. n - 1 |-> Path(t)[i]]
  <2>1. Path(t)' = [i \in DOMAIN levels'[t] |->
                      IF levels'[t][i] > 0 THEN stack'[levels'[t][i]] ELSE Nil]
    BY DEF Path
  <2>2. \A i \in 1 .. n - 1 :
          (IF levels'[t][i] > 0 THEN stack'[levels'[t][i]] ELSE Nil) = Path(t)[i]
    <3>1. \A i \in 1 .. n - 1 : i \in 1 .. n
      BY <1>1
    <3> QED
      BY <1>1, <1>3, <1>4, <3>1
  <2> QED
    BY <1>3, <2>1, <2>2
<1>6. SubSeq(Path(t), 1, n - 1) = [i \in 1 .. n - 1 |-> Path(t)[i]]
  BY <1>1, FrontFacts
<1>7. Paths' = [Paths EXCEPT ![t] = Path(t)']
  BY <1>2, OnePath
<1> QED
  BY <1>1, <1>5, <1>6, <1>7, PathFacts

\* A table that nothing refers to is in no path.
LEMMA FreshIsUnused ==
  ASSUME HandleInv, NEW r \in Fresh(stack, heap)
  PROVE  r \in Ref /\ Cursor!Unused(r)
<1>1. /\ r \in Ref /\ r # Globals /\ \A i \in DOMAIN stack : stack[i] # r
      /\ \A q \in Ref, k \in Key : heap[q][k] # r
  BY DEF Fresh
<1>2. ASSUME NEW t \in Tbl, NEW i \in DOMAIN Paths[t]
      PROVE  Paths[t][i] # r
  <2>1. /\ i \in DOMAIN levels[t]
        /\ Paths[t][i] = IF levels[t][i] > 0 THEN stack[levels[t][i]] ELSE Nil
    BY <1>2, PathFacts
  <2>2. CASE levels[t][i] > 0
    <3>1. levels[t][i] \in DOMAIN stack
      BY <2>1, <2>2, HandleOnStack DEF HandleInv, TypeOK
    <3> QED
      BY <1>1, <2>1, <2>2, <3>1
  <2>3. CASE ~(levels[t][i] > 0)
    BY <1>1, <2>1, <2>3, VMAssumption
  <2> QED
    BY <2>2, <2>3
<1> QED
  BY <1>1, <1>2, UnusedMaps

----------------------------------------------------------------------------
(* The steps that open and close levels.                                   *)

\* The new table of an open is empty.
LEMMA AttachedIsNew ==
  ASSUME NEW th, NEW k \in Key, NEW r \in Ref
  PROVE  Attached(stack, heap, th, k, r)
           = Cursor!NewTable(stack[th], k, r, <<>>)
<1>1. [y \in Key |-> IF y \in DOMAIN <<>> THEN <<>>[y] ELSE Nil] = EmptyTable
  BY DEF EmptyTable
<1> QED
  BY <1>1 DEF Attached, Cursor!NewTable

\* The slot that aot_table_top leaves for a value.
LEMMA FoundSlot ==
  ASSUME NEW s \in Seq(Slot), NEW v \in Value
  PROVE  /\ HandleOf(s, v) \in Nat
         /\ (IF HandleOf(s, v) > 0 THEN Pushed(s, v)[HandleOf(s, v)] ELSE Nil)
              = IF v \in Ref THEN v ELSE Nil
<1>1. CASE v \in Ref
  <2>1. /\ HandleOf(s, v) = Len(s) + 1 /\ Pushed(s, v) = Append(s, v)
        /\ v \in Slot /\ Len(s) \in Nat
    BY <1>1 DEF HandleOf, Pushed, Slot
  <2>2. Append(s, v)[Len(s) + 1] = v
    BY <2>1, AppendFacts
  <2> QED
    BY <1>1, <2>1, <2>2
<1>2. CASE v \notin Ref
  BY <1>2 DEF HandleOf
<1> QED
  BY <1>1, <1>2

\* Opening a field descends into its table, into a new one if there is none.
LEMMA OpenBelowMaps ==
  ASSUME HandleInv, OpenBelow
  PROVE  Cursor!Next
<1> DEFINE t == call.tb
           k == call.name[1]
           h == Handle(t)
<1>1. /\ pc = "open" /\ ~NameEnds /\ IsOpen(t) /\ runs' = runs
      /\ t \in Tbl /\ k \in Key
  BY CallFacts DEF HandleInv, OpenBelow, Phases
<1>2. /\ stack \in Seq(Slot) /\ heap \in Heap /\ Len(stack) \in Nat
      /\ [Next]_vars
  BY DEF HandleInv, TypeOK, Next, Step
<1>3. PICK o \in Resolve(stack, heap, h, k) :
        stack' = o.stack /\ heap' = o.heap /\ Descend(t, o.handle)
  BY DEF OpenBelow
<1>4. /\ h \in Nat
      /\ h > 0 => /\ Current(t) = stack[h] /\ Current(t) \in Ref
                  /\ Current(t) # Nil
      /\ h = 0 => Current(t) = Nil
  BY <1>1, CurrentFacts, VMAssumption
<1>5. CASE Field(stack, heap, h, k) = Nil /\ h > 0
  <2>1. PICK r \in Fresh(stack, heap) :
          o = [stack  |-> Append(stack, r),
               heap   |-> Attached(stack, heap, h, k, r),
               handle |-> Len(stack) + 1]
    BY <1>5 DEF Resolve
  <2>2. r \in Ref /\ Cursor!Unused(r) /\ r \in Slot
    BY FreshIsUnused DEF Slot
  <2>3. /\ stack' = Append(stack, r)
        /\ heap' = Attached(stack, heap, h, k, r)
        /\ Descend(t, Len(stack) + 1)
    BY <1>3, <2>1
  <2>4. stack'[Len(stack) + 1] = r /\ Len(stack) + 1 \in Nat
        /\ Len(stack) + 1 > 0
    BY <1>2, <2>2, <2>3, AppendFacts
  <2>5. Paths' = [Paths EXCEPT ![t] = Append(@, r)]
    BY <1>1, <1>2, <2>3, <2>4, PathGrows
  <2>6. heap' = Cursor!NewTable(Current(t), k, r, <<>>)
    BY <1>1, <1>4, <1>5, <2>2, <2>3, AttachedIsNew
  <2>7. Current(t) # Nil /\ heap[Current(t)][k] = Nil
    BY <1>4, <1>5 DEF Field
  <2> QED
    BY <1>1, <2>2, <2>5, <2>6, <2>7, EnterNewMaps
<1>6. CASE ~(Field(stack, heap, h, k) = Nil /\ h > 0)
  <2> DEFINE v == Field(stack, heap, h, k)
  <2>1. o = Found(stack, heap, v)
    BY <1>6 DEF Resolve
  <2>2. /\ stack' = Pushed(stack, v) /\ heap' = heap
        /\ Descend(t, HandleOf(stack, v))
    BY <1>3, <2>1 DEF Found
  <2>3. v \in Value
    BY <1>1, <1>2, <1>4 DEF Field, Heap, Table, Value
  <2>4. IF Current(t) = Nil THEN v = Nil
        ELSE v # Nil /\ v = heap[Current(t)][k]
    <3>1. CASE h = 0
      BY <1>4, <3>1 DEF Field
    <3>2. CASE h > 0
      BY <1>4, <1>6, <3>2 DEF Field
    <3> QED
      BY <1>4, <3>1, <3>2
  <2>5. /\ HandleOf(stack, v) \in Nat
        /\ (IF HandleOf(stack, v) > 0 THEN stack'[HandleOf(stack, v)] ELSE Nil)
             = IF v \in Ref THEN v ELSE Nil
    BY <1>2, <2>2, <2>3, FoundSlot
  <2> HIDE DEF v
  <2>6. Paths' = [Paths EXCEPT ![t] = Append(@, IF v \in Ref THEN v ELSE Nil)]
    BY <1>1, <1>2, <2>2, <2>5, PathGrows
  <2> QED
    BY <1>1, <2>2, <2>4, <2>6, EnterMaps
<1> QED
  BY <1>5, <1>6

\* Opening a global variable starts a path with its table.
LEMMA OpenGlobalMaps ==
  ASSUME HandleInv, OpenGlobal
  PROVE  Cursor!Next
<1> DEFINE t == call.tb
           k == call.name[1]
           v == heap[Globals][k]
<1>1. /\ pc = "open" /\ ~NameEnds /\ ~IsOpen(t) /\ runs' = runs
      /\ t \in Tbl /\ k \in Key
  BY CallFacts DEF HandleInv, OpenGlobal, Phases
<1>2. stack \in Seq(Slot) /\ heap \in Heap /\ [Next]_vars
  BY DEF HandleInv, TypeOK, Next, Step
<1>3. /\ v # Nil /\ stack' = Pushed(stack, v) /\ heap' = heap
      /\ Descend(t, HandleOf(stack, v))
  BY DEF OpenGlobal, Found
<1>4. v \in Value /\ Current(t) = Globals /\ Globals # Nil
  BY <1>1, <1>2, CurrentFacts, VMAssumption DEF Heap, Table
<1>5. /\ HandleOf(stack, v) \in Nat
      /\ (IF HandleOf(stack, v) > 0 THEN stack'[HandleOf(stack, v)] ELSE Nil)
           = IF v \in Ref THEN v ELSE Nil
  BY <1>2, <1>3, <1>4, FoundSlot
<1>6. v = heap[Current(t)][k]
  BY <1>4
<1> HIDE DEF v
<1>7. Paths' = [Paths EXCEPT ![t] = Append(@, IF v \in Ref THEN v ELSE Nil)]
  BY <1>1, <1>2, <1>3, <1>5, PathGrows
<1> QED
  BY <1>1, <1>3, <1>4, <1>6, <1>7, EnterMaps

\* Closing a level leaves it.
LEMMA CloseLevelMaps ==
  ASSUME HandleInv, CloseLevel
  PROVE  Cursor!Next
<1> DEFINE t == call.tb
<1>1. /\ t \in Tbl /\ IsOpen(t) /\ heap' = heap /\ runs' = runs
      /\ levels' = [levels EXCEPT ![t] = SubSeq(@, 1, Len(@) - 1)]
  BY CallFacts DEF HandleInv, CloseLevel, CloseEnds, Phases
<1>2. [Next]_vars
  BY DEF Next, Step
<1>3. Paths' = [Paths EXCEPT ![t] = SubSeq(@, 1, Len(@) - 1)]
  BY <1>1, <1>2, PathShrinks
<1>4. Paths[t] # <<>>
  BY <1>1, PathFacts
<1> QED
  BY <1>1, <1>3, <1>4, LeaveMaps

\* Taking the table on top of the stack starts a path with it.
LEMMA TopTableMaps ==
  ASSUME HandleInv, NEW t \in Tbl, TopTable(t)
  PROVE  Cursor!Next
<1> DEFINE n    == Len(stack)
           v    == stack[n]
           rest == SubSeq(stack, 1, n - 1)
<1>1. /\ ~IsOpen(t) /\ stack # <<>> /\ heap' = heap /\ runs' = runs
      /\ stack' = Pushed(rest, v)
      /\ levels' = [levels EXCEPT ![t] = <<HandleOf(rest, v)>>]
      /\ stack \in Seq(Slot) /\ n \in Nat /\ n > 0
      /\ levels \in [Tbl -> Seq(Nat)]
  BY LastFacts DEF TopTable, HandleInv, TypeOK
<1>2. [Next]_vars
  BY DEF Next
<1>3. rest \in Seq(Slot) /\ Len(rest) = n - 1 /\ Len(rest) \in Nat
  BY <1>1, FrontFacts
<1> DEFINE r == IF v \in Ref THEN v ELSE Nil
           h == HandleOf(rest, v)
<1>4. /\ h \in Nat
      /\ (IF h > 0 THEN stack'[h] ELSE Nil) = r
  <2>1. CASE v \in Ref
    <3>1. v \in Slot /\ h = Len(rest) + 1 /\ stack' = Append(rest, v)
      BY <1>1, <2>1 DEF Slot, HandleOf, Pushed
    <3>2. stack'[Len(rest) + 1] = v /\ Len(rest) + 1 \in Nat
          /\ Len(rest) + 1 > 0
      BY <1>3, <3>1, AppendFacts
    <3> QED
      BY <2>1, <3>1, <3>2
  <2>2. CASE v \notin Ref
    BY <2>2 DEF HandleOf
  <2> QED
    BY <2>1, <2>2
<1>5. /\ levels[t] = <<>> /\ Paths[t] = <<>>
      /\ \A u \in Tbl \ {t} : levels'[u] = levels[u]
      /\ levels'[t] = <<h>>
  BY <1>1, PathFacts DEF IsOpen
<1>6. r \in Ref \cup {Nil}
  OBVIOUS
<1> HIDE DEF h, r
<1>7. Path(t)' = <<r>>
  <2>1. Path(t)' = [i \in DOMAIN levels'[t] |->
                      IF levels'[t][i] > 0 THEN stack'[levels'[t][i]] ELSE Nil]
    BY DEF Path
  <2>2. DOMAIN levels'[t] = {1} /\ levels'[t][1] = h
    BY <1>5
  <2>3. Path(t)' = [i \in {1} |-> r]
    BY <1>4, <2>1, <2>2
  <2>4. <<r>> = [i \in {1} |-> r]
    OBVIOUS
  <2> QED
    BY <2>3, <2>4
<1>8. Paths' = [Paths EXCEPT ![t] = <<r>>]
  BY <1>2, <1>5, <1>7, OnePath
<1> QED
  BY <1>1, <1>5, <1>6, <1>8, ReceiveMaps

----------------------------------------------------------------------------
(* The steps that write.                                                   *)

\* A store through a handle writes the table in its slot.
LEMMA StoredIsWritten ==
  ASSUME NEW s \in Seq(Slot), NEW th \in Nat, th > 0, NEW q, q = s[th], NEW f,
         heap' = Stored(s, heap, th, f)
  PROVE  Cursor!Write(q, f)
BY DEF Stored, Cursor!Write

\* A store through an open variable writes its current table, if it has one.
LEMMA StoredMaps ==
  ASSUME HandleInv, [Next]_vars, NEW t \in Tbl, IsOpen(t),
         NEW f \in Cursor!Fields, heap' = Stored(stack, heap, Handle(t), f),
         levels' = levels, runs' = runs
  PROVE  Cursor!Next \/ UNCHANGED Cursor!vars
<1>1. /\ Handle(t) \in Nat /\ Paths' = Paths /\ stack \in Seq(Slot)
      /\ Paths[t] # <<>>
  BY CurrentFacts, NoPath, PathFacts DEF HandleInv, TypeOK
<1>2. CASE Handle(t) > 0
  <2>1. Current(t) = stack[Handle(t)] /\ Current(t) # Nil
    BY <1>2, CurrentFacts, VMAssumption
  <2>2. Cursor!Write(Current(t), f)
    BY <1>1, <1>2, <2>1, StoredIsWritten
  <2> QED
    BY <1>1, <2>1, <2>2, StoreMaps
<1>3. CASE ~(Handle(t) > 0)
  <2>1. heap' = heap
    BY <1>3 DEF Stored
  <2> QED
    BY <1>1, <2>1, StutterMaps
<1> QED
  BY <1>2, <1>3

\* Setting one value writes one field.
LEMMA SetFieldMaps ==
  ASSUME HandleInv, NEW t \in Tbl, SetField(t)
  PROVE  Cursor!Next \/ UNCHANGED Cursor!vars
<1>1. PICK k \in Name, v \in Scalar :
        heap' = Stored(stack, heap, Handle(t), [x \in {k} |-> v])
  BY DEF SetField
<1>2. IsOpen(t) /\ levels' = levels /\ runs' = runs /\ [Next]_vars
  BY DEF SetField, Next
<1>3. [x \in {k} |-> v] \in Cursor!Fields
  BY DEF Cursor!Fields, Key
<1> QED
  BY <1>1, <1>2, <1>3, StoredMaps

\* Setting a vector writes all of its positions.
LEMMA VectorMaps ==
  ASSUME HandleInv, Vector
  PROVE  Cursor!Next \/ UNCHANGED Cursor!vars
<1>1. levels' = levels /\ runs' = runs /\ [Next]_vars /\ call.tb \in Tbl
  BY CallFacts DEF HandleInv, Vector, Next, Step, Phases
<1>2. CASE call.write /\ IsOpen(call.tb)
  <2>1. PICK f \in [Pos -> Scalar] :
          heap' = Stored(stack, heap, Handle(call.tb), f)
    BY <1>2 DEF Vector
  <2>2. f \in Cursor!Fields
    BY DEF Cursor!Fields
  <2> QED
    BY <1>1, <1>2, <2>1, <2>2, StoredMaps
<1>3. CASE ~(call.write /\ IsOpen(call.tb))
  <2>1. heap' = heap /\ Paths' = Paths
    BY <1>1, <1>3, NoPath DEF Vector
  <2> QED
    BY <1>1, <2>1, StutterMaps
<1> QED
  BY <1>2, <1>3

\* A row written to the table made for it is a new table with the row.
LEMMA StoredRowIsNew ==
  ASSUME heap \in Heap, NEW s \in Seq(Slot), NEW th, NEW j \in Key,
         NEW r \in Ref, NEW f
  PROVE  Stored(Append(s, r), Attached(s, heap, th, j, r), Len(s) + 1, f)
           = Cursor!NewTable(s[th], j, r, f)
<1> DEFINE q == s[th]
           a == Attached(s, heap, th, j, r)
           row == [k \in Key |-> IF k \in DOMAIN f THEN f[k] ELSE Nil]
<1>1. r \in Slot /\ Len(s) \in Nat
  BY DEF Slot
<1>2. Append(s, r)[Len(s) + 1] = r /\ Len(s) + 1 > 0
  BY <1>1, AppendFacts
<1>3. a = [x \in Ref |-> IF x = r THEN EmptyTable
                         ELSE IF x = q THEN [heap[x] EXCEPT ![j] = r]
                         ELSE heap[x]]
  BY DEF Attached
<1>4. [k \in Key |-> IF k \in DOMAIN f THEN f[k] ELSE a[r][k]] = row
  <2>1. \A k \in Key : a[r][k] = Nil
    BY <1>3 DEF EmptyTable
  <2> QED
    BY <2>1
<1>5. Stored(Append(s, r), a, Len(s) + 1, f) = [a EXCEPT ![r] = row]
  <2>1. Stored(Append(s, r), a, Len(s) + 1, f)
          = [a EXCEPT ![r] =
               [k \in Key |-> IF k \in DOMAIN f THEN f[k] ELSE @[k]]]
    BY <1>2 DEF Stored
  <2>2. r \in DOMAIN a
    BY <1>3
  <2> HIDE DEF a, row
  <2> QED
    BY <1>4, <2>1, <2>2
<1>6. Cursor!NewTable(q, j, r, f)
        = [x \in Ref |-> IF x = r THEN row
                         ELSE IF x = q THEN [heap[x] EXCEPT ![j] = r]
                         ELSE heap[x]]
  BY DEF Cursor!NewTable
<1> HIDE DEF row
<1>7. [a EXCEPT ![r] = row]
        = [x \in Ref |-> IF x = r THEN row
                         ELSE IF x = q THEN [heap[x] EXCEPT ![j] = r]
                         ELSE heap[x]]
  BY <1>3
<1> QED
  BY <1>5, <1>6, <1>7

\* One column of a matrix writes a row, makes one, or changes nothing.
LEMMA MatrixRowMaps ==
  ASSUME HandleInv, MatrixRow
  PROVE  Cursor!Next \/ UNCHANGED Cursor!vars
<1> DEFINE t == call.tb
           j == call.row
           h == Handle(t)
<1>1. /\ t \in Tbl /\ IsOpen(t) /\ j \in Pos /\ j \in Key
      /\ levels' = levels /\ runs' = runs /\ [Next]_vars
  <2>1. /\ call.tb \in Tbl /\ call.row \in Nat \ {0} /\ call.row <= Extent
        /\ IsOpen(call.tb)
    BY CallFacts DEF HandleInv, MatrixRow, Phases
  <2>2. call.row \in Pos /\ call.row \in Key
    BY <2>1, VMAssumption DEF Key, Pos
  <2> QED
    BY <2>1, <2>2 DEF MatrixRow, Next, Step
<1>2. PICK o \in Resolve(stack, heap, h, j) :
        IF call.write
        THEN \E f \in [Pos -> Scalar] :
               heap' = Stored(o.stack, o.heap, o.handle, f)
        ELSE heap' = o.heap
  BY DEF MatrixRow
<1>3. /\ h \in Nat /\ Paths' = Paths /\ Paths[t] # <<>>
      /\ stack \in Seq(Slot) /\ heap \in Heap /\ Len(stack) \in Nat
      /\ h > 0 => /\ Current(t) = stack[h] /\ Current(t) \in Ref
                  /\ Current(t) # Nil
  BY <1>1, CurrentFacts, NoPath, PathFacts, VMAssumption DEF HandleInv, TypeOK
<1>4. CASE Field(stack, heap, h, j) = Nil /\ h > 0
  <2>1. PICK r \in Fresh(stack, heap) :
          o = [stack  |-> Append(stack, r),
               heap   |-> Attached(stack, heap, h, j, r),
               handle |-> Len(stack) + 1]
    BY <1>4 DEF Resolve
  <2>2. r \in Ref /\ Cursor!Unused(r)
    BY FreshIsUnused
  <2>3. heap[Current(t)][j] = Nil
    BY <1>3, <1>4 DEF Field
  <2>4. \E f \in Cursor!Fields \cup {<<>>} :
          heap' = Cursor!NewTable(Current(t), j, r, f)
    <3>1. CASE call.write
      <4>1. PICK f \in [Pos -> Scalar] :
              heap' = Stored(o.stack, o.heap, o.handle, f)
        BY <1>2, <3>1
      <4>2. heap' = Cursor!NewTable(stack[h], j, r, f)
        BY ZenonT(30), <1>1, <1>3, <2>1, <2>2, <4>1, StoredRowIsNew
      <4>3. f \in Cursor!Fields
        BY DEF Cursor!Fields
      <4> QED
        BY <1>3, <1>4, <4>2, <4>3
    <3>2. CASE ~call.write
      <4>1. heap' = Attached(stack, heap, h, j, r)
        BY <1>2, <2>1, <3>2
      <4>2. heap' = Cursor!NewTable(stack[h], j, r, <<>>)
        BY <1>1, <2>2, <4>1, AttachedIsNew
      <4> QED
        BY <1>3, <1>4, <4>2
    <3> QED
      BY <3>1, <3>2
  <2> QED
    BY <1>1, <1>3, <1>4, <2>2, <2>3, <2>4, StoreNewRowMaps
<1>5. CASE ~(Field(stack, heap, h, j) = Nil /\ h > 0)
  <2> DEFINE v == Field(stack, heap, h, j)
  <2>1. o = Found(stack, heap, v)
    BY <1>5 DEF Resolve
  <2>2. o.stack = Pushed(stack, v) /\ o.heap = heap
        /\ o.handle = HandleOf(stack, v)
    BY <2>1 DEF Found
  <2>3. CASE call.write /\ v \in Ref
    <3>1. h > 0 /\ v = heap[Current(t)][j]
      BY <1>3, <2>3, VMAssumption DEF Field
    <3> HIDE DEF v
    <3>2. PICK f \in [Pos -> Scalar] :
            heap' = Stored(o.stack, o.heap, o.handle, f)
      BY <1>2, <2>3
    <3>3. f \in Cursor!Fields
      BY DEF Cursor!Fields
    <3>4. /\ o.stack = Append(stack, v) /\ o.handle = Len(stack) + 1
          /\ v \in Slot
      BY <2>2, <2>3 DEF Pushed, HandleOf, Slot
    <3>5. /\ o.stack \in Seq(Slot) /\ o.handle \in Nat /\ o.handle > 0
          /\ o.stack[o.handle] = v
      BY <1>3, <3>4, AppendFacts
    <3>6. Cursor!Write(v, f)
      BY <2>2, <3>2, <3>5, StoredIsWritten
    <3>7. heap[Current(t)][j] \in Ref /\ Cursor!Write(heap[Current(t)][j], f)
      BY <2>3, <3>1, <3>6
    <3> QED
      BY <1>1, <1>3, <3>1, <3>3, <3>7, StoreRowMaps
  <2>4. CASE ~(call.write /\ v \in Ref)
    <3>1. heap' = heap
      <4>1. CASE ~call.write
        BY <1>2, <2>2, <4>1
      <4>2. CASE v \notin Ref
        BY <1>2, <2>2, <4>2 DEF Stored, HandleOf
      <4> QED
        BY <2>4, <4>1, <4>2
    <3> QED
      BY <1>1, <1>3, <3>1, StutterMaps
  <2> QED
    BY <2>3, <2>4
<1> QED
  BY <1>4, <1>5

----------------------------------------------------------------------------
(* The refinement.                                                         *)

\* Every step is one of a cursor, a script, or none.
LEMMA NextMaps ==
  HandleInv /\ [Next]_vars => [Cursor!Next]_(Cursor!vars)
<1> SUFFICES ASSUME HandleInv, [Next]_vars
             PROVE  Cursor!Next \/ UNCHANGED Cursor!vars
  OBVIOUS
<1>1. ASSUME NEW t \in Tbl,
             Open(t) \/ Close(t) \/ Reopen(t) \/ Array(t) \/ TopOfNothing(t)
      PROVE  UNCHANGED Cursor!vars
  <2>1. heap' = heap /\ levels' = levels /\ runs' = runs
    BY <1>1 DEF Open, Close, Reopen, Array, SetArray, GetArray, TopOfNothing,
                Begin
  <2> QED
    BY <2>1, NoPath, StutterMaps
<1>2. CASE \/ OpenDone \/ MatrixDone \/ CloseDone
           \/ OpenNoParent \/ ClosedTable \/ OutOfMemory \/ UNCHANGED vars
  <2>1. heap' = heap /\ levels' = levels /\ runs' = runs
    BY <1>2 DEF OpenDone, MatrixDone, CloseDone, OpenNoParent, ClosedTable,
                OutOfMemory, Fault, vars
  <2> QED
    BY <2>1, NoPath, StutterMaps
<1>3. CASE Run
  <2>1. runs < MaxRuns /\ runs' = runs + 1 /\ levels' = levels
    BY <1>3 DEF Run
  <2>2. heap' \in Heap
    BY NextHandles DEF HandleInv, TypeOK
  <2> QED
    BY <2>1, <2>2, NoPath, ScriptMaps
<1>4. ASSUME NEW t \in Tbl, SetField(t) \/ TopTable(t)
      PROVE  Cursor!Next \/ UNCHANGED Cursor!vars
  BY <1>4, SetFieldMaps, TopTableMaps
<1>5. CASE OpenBelow \/ OpenGlobal \/ Vector \/ MatrixRow \/ CloseLevel
  BY <1>5, OpenBelowMaps, OpenGlobalMaps, VectorMaps, MatrixRowMaps,
     CloseLevelMaps
<1> QED
  BY <1>1, <1>2, <1>3, <1>4, <1>5 DEF Next, Step, Stopped

\* However the calls on several table variables are interleaved, with each
\* other and with scripts, every variable walks through the Lua tables as if
\* it had a stack of its own: no call moves another variable's cursor, writes
\* another table than its own, or reuses a table that some cursor is in.
THEOREM CursorsAreImplemented == Spec => ImplementsCursor
<1>1. Init => Cursor!Init
  <2> SUFFICES ASSUME Init PROVE Cursor!Init
    OBVIOUS
  <2>1. heap \in InitHeaps /\ runs = 0 /\ \A t \in Tbl : levels[t] = <<>>
    BY DEF Init
  <2>2. \A t \in Tbl : Path(t) = <<>>
    BY <2>1, InitHandles, PathFacts DEF IsOpen
  <2>3. Paths \in [Tbl -> {<<>>}]
    BY <2>2 DEF Paths
  <2> QED
    BY <2>1, <2>3 DEF Cursor!Init, Paths
<1>2. HandleInv /\ [Next]_vars => [Cursor!Next]_(Cursor!vars)
  BY NextMaps
<1> QED
  BY <1>1, <1>2, HandlesAreSafe, PTL DEF Spec, Cursor!Spec, ImplementsCursor
=============================================================================
