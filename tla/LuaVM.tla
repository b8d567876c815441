-------------------------------- MODULE LuaVM --------------------------------
(***************************************************************************)
(* The part of the Lua virtual machine, and of the aotus layer over it,     *)
(* that flook's table handles rest on: the table heap, the API stack of one *)
(* call frame, and the aot_table_* helpers that turn a stack position into  *)
(* a "handle".  Every operator here is a function of the stack s and the    *)
(* heap hp, so that the modules with state compose them into actions.       *)
(*                                                                          *)
(* A handle is a position on the stack that holds a table, or 0 when the    *)
(* lookup did not find a table.                                             *)
(***************************************************************************)
EXTENDS Integers, Sequences

CONSTANTS
  Ref,       \* the tables the VM has memory for
  Globals,   \* the table of the global variables, always there
  Name,      \* the string keys scripts and programs use
  Extent,    \* arrays are indexed 1..Extent in each dimension
  Scalar,    \* numbers, strings, logicals, functions, light userdata
  Nil,       \* the Lua nil, and the value of an absent field
  Message    \* the error message a failed script leaves on the stack

Pos   == 1 .. Extent
Key   == Name \cup Pos
Value == Ref \cup Scalar \cup {Nil}

ASSUME VMAssumption ==
  /\ Globals \in Ref
  /\ Extent \in Nat \ {0}
  /\ Name \cap Pos = {}
  /\ Nil \notin Ref \cup Scalar
  /\ Message \notin Ref \cup Scalar \cup {Nil}

Table      == [Key -> Value]
EmptyTable == [k \in Key |-> Nil]
Heap       == [Ref -> Table]

\* What may stay on the stack between two calls of the API.
Slot == Ref \cup Scalar \cup {Message}

----------------------------------------------------------------------------
(* The stack.                                                              *)

\* lua_settop(L, n): drop what is above n, or fill up to n with nil.
SetTop(s, n) ==
  [i \in 1 .. n |-> IF i <= Len(s) THEN s[i] ELSE Nil]

\* A table nothing refers to: createtable may return it (again).
Fresh(s, hp) ==
  {r \in Ref \ {Globals} : /\ \A i \in DOMAIN s : s[i] # r
                           /\ \A q \in Ref, k \in Key : hp[q][k] # r}

----------------------------------------------------------------------------
(* The handle helpers of aotus.                                            *)

\* Mutant: under handle 0 the globals are looked up.
FieldOrGlobal(s, hp, th, k) == IF th = 0 THEN hp[Globals][k] ELSE hp[s[th]][k]

\* aot_table_push with a handle: the value of field k, nil under handle 0.
Field(s, hp, th, k) == IF th = 0 THEN Nil ELSE hp[s[th]][k]

\* Mutant: the caller's value is kept although it is not a table.
KeepValue(s, v) == Append(s, v)

\* aot_table_top after v was pushed on s: a value that is no table is popped.
Pushed(s, v) == IF v \in Ref THEN Append(s, v) ELSE s

\* Mutant: a table that is on the stack already keeps the handle it has there.
HandleReused(s, v) ==
  IF \E i \in DOMAIN s : s[i] = v THEN CHOOSE i \in DOMAIN s : s[i] = v
  ELSE IF v \in Ref THEN Len(s) + 1 ELSE 0

\* ... and the handle aot_table_top returns for it.
HandleOf(s, v) == IF v \in Ref THEN Len(s) + 1 ELSE 0

\* Mutant: the slots above the table are dropped, the table stays.
CloseAbove(s, th) == IF th > 0 THEN SetTop(s, th) ELSE s

\* Mutant: the slot under the table is dropped too.
CloseBelow(s, th) == IF th > 1 THEN SetTop(s, th - 2) ELSE s

\* aot_table_close: drop the table and all that is above it.
Closed(s, th) == IF th > 0 THEN SetTop(s, th - 1) ELSE s

\* aot_table_set_val for each field of f, by key or by position.
Stored(s, hp, th, f) ==
  IF th > 0
  THEN [hp EXCEPT ![s[th]] =
         [k \in Key |-> IF k \in DOMAIN f THEN f[k] ELSE @[k]]]
  ELSE hp

\* Mutant: the new table is not stored in the table at th.
Unattached(s, hp, th, k, r) == [hp EXCEPT ![r] = EmptyTable]

\* The new table r becomes field k of the table at th.
Attached(s, hp, th, k, r) ==
  [q \in Ref |-> IF q = r THEN EmptyTable
                 ELSE IF q = s[th] THEN [hp[q] EXCEPT ![k] = r]
                 ELSE hp[q]]

\* A table opened from the value v that the field has already.
Found(s, hp, v) ==
  [stack |-> Pushed(s, v), heap |-> hp, handle |-> HandleOf(s, v)]

\* Mutant: the field is replaced by a new table whatever it holds.
Replace(s, hp, th, k) ==
  IF th > 0
  THEN {[stack  |-> Append(s, r), heap |-> Attached(s, hp, th, k, r),
         handle |-> Len(s) + 1] : r \in Fresh(s, hp)}
  ELSE {Found(s, hp, Nil)}

\* tbl_create__ with a parent: what opening field k of the table at handle
\* th can lead to.  A missing field gets a new table; under handle 0 the
\* temporary table is dropped again and the lookup yields no table.
Resolve(s, hp, th, k) ==
  IF Field(s, hp, th, k) = Nil /\ th > 0
  THEN {[stack  |-> Append(s, r), heap |-> Attached(s, hp, th, k, r),
         handle |-> Len(s) + 1] : r \in Fresh(s, hp)}
  ELSE {Found(s, hp, Field(s, hp, th, k))}
=============================================================================
