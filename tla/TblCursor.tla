------------------------------ MODULE TblCursor ------------------------------
(***************************************************************************)
(* What flook promises of its luaTbl type, with no stack and no handles:    *)
(* every table variable t is a cursor path[t], the tables it has descended  *)
(* through from a global, innermost last.  A level that named something     *)
(* which is not a table is NoTable.  The cursors share the Lua tables and   *)
(* nothing else: what is done through one never moves another.              *)
(***************************************************************************)
EXTENDS Integers, Sequences

CONSTANTS Ref, Globals, Key, Pos, Scalar, Nil, Tbl, InitHeaps, MaxRuns

NoTable == Nil

VARIABLES
  heap,   \* the fields of every Lua table
  path,   \* the cursor of every table variable
  runs    \* how many scripts have run

vars == <<heap, path, runs>>

\* The table in which the next level of t is looked up.
Here(t) == IF path[t] = <<>> THEN Globals ELSE path[t][Len(path[t])]

Init ==
  /\ heap \in InitHeaps
  /\ path \in [Tbl -> {<<>>}]
  /\ runs = 0

----------------------------------------------------------------------------

\* Descend into k: a field that is no table gives a level without table.
Enter(t, k) ==
  /\ LET v == IF Here(t) = NoTable THEN Nil ELSE heap[Here(t)][k]
     IN  /\ Here(t) = NoTable \/ v # Nil
         /\ path' = [path EXCEPT ![t] =
                       Append(@, IF v \in Ref THEN v ELSE NoTable)]
  /\ UNCHANGED <<heap, runs>>

\* A table that no table and no cursor refers to.
Unused(r) ==
  /\ r # Globals
  /\ \A q \in Ref, k \in Key : heap[q][k] # r
  /\ \A t \in Tbl : \A i \in DOMAIN path[t] : path[t][i] # r

\* The heap after the new table r, with the fields f, became field k of q.
NewTable(q, k, r, f) ==
  [x \in Ref |-> IF x = r
                 THEN [y \in Key |-> IF y \in DOMAIN f THEN f[y] ELSE Nil]
                 ELSE IF x = q THEN [heap[x] EXCEPT ![k] = r]
                 ELSE heap[x]]

\* Descend into a missing field, which becomes an empty table.
EnterNew(t, k, r) ==
  /\ Here(t) # NoTable
  /\ heap[Here(t)][k] = Nil
  /\ Unused(r)
  /\ heap' = NewTable(Here(t), k, r, <<>>)
  /\ path' = [path EXCEPT ![t] = Append(@, r)]
  /\ UNCHANGED runs

\* Go back to the table one level up.
Leave(t) ==
  /\ path[t] # <<>>
  /\ path' = [path EXCEPT ![t] = SubSeq(@, 1, Len(@) - 1)]
  /\ UNCHANGED <<heap, runs>>

\* Start from a table that a script passed as an argument.
Receive(t, r) ==
  /\ path[t] = <<>>
  /\ path' = [path EXCEPT ![t] = <<r>>]
  /\ UNCHANGED <<heap, runs>>

\* Overwrite the fields of q that f gives.
Write(q, f) ==
  heap' = [heap EXCEPT ![q] =
             [k \in Key |-> IF k \in DOMAIN f THEN f[k] ELSE @[k]]]

\* Write fields of the current table.
Store(t, f) ==
  /\ path[t] # <<>>
  /\ Here(t) # NoTable
  /\ Write(Here(t), f)
  /\ UNCHANGED <<path, runs>>

\* Write fields of the table at position j of the current table.
StoreRow(t, j, f) ==
  /\ path[t] # <<>>
  /\ Here(t) # NoTable
  /\ heap[Here(t)][j] \in Ref
  /\ Write(heap[Here(t)][j], f)
  /\ UNCHANGED <<path, runs>>

\* The same when there is nothing at j: the row is created.
StoreNewRow(t, j, r, f) ==
  /\ path[t] # <<>>
  /\ Here(t) # NoTable
  /\ heap[Here(t)][j] = Nil
  /\ Unused(r)
  /\ heap' = NewTable(Here(t), j, r, f)
  /\ UNCHANGED <<path, runs>>

\* A script may change any table.
Script ==
  /\ runs < MaxRuns
  /\ runs' = runs + 1
  /\ heap' \in [Ref -> [Key -> Ref \cup Scalar \cup {Nil}]]
  /\ UNCHANGED path

\* The values a store writes: one field, or a whole vector of scalars.
Fields == [Pos -> Scalar] \cup UNION {[{k} -> Scalar] : k \in Key}

Next ==
  \/ Script
  \/ \E t \in Tbl :
       \/ Leave(t)
       \/ \E r \in Ref \cup {NoTable} : Receive(t, r)
       \/ \E k \in Key : Enter(t, k) \/ \E r \in Ref : EnterNew(t, k, r)
       \/ \E f \in Fields : Store(t, f)
       \/ \E j \in Pos, f \in Fields \cup {<<>>} :
            StoreRow(t, j, f) \/ \E r \in Ref : StoreNewRow(t, j, r, f)

Spec == Init /\ [][Next]_vars
=============================================================================
