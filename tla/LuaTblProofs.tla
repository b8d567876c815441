---------------------------- MODULE LuaTblProofs ----------------------------
(***************************************************************************)
(* Proofs about LuaTbl, for every number of table variables, keys, levels   *)
(* and tables: the handles stay valid and nested, no stack slot is lost, and *)
(* what is opened gets a slot that no other variable holds.                 *)
(***************************************************************************)
EXTENDS LuaTbl, SeqLemmas

----------------------------------------------------------------------------
(* The operators of LuaVM.                                                 *)

\* lua_settop to a height the stack has keeps the slots up to there.
LEMMA SetTopKeeps ==
  ASSUME NEW s \in Seq(Slot), NEW n \in 0 .. Len(s)
  PROVE  /\ SetTop(s, n) \in Seq(Slot)
         /\ Len(SetTop(s, n)) = n
         /\ \A i \in 1 .. n : SetTop(s, n)[i] = s[i]
  BY DEF SetTop

\* A store changes fields to values.
LEMMA StoredIsHeap ==
  ASSUME NEW s \in Seq(Slot), NEW hp \in Heap, NEW th \in Nat,
         th > 0 => th <= Len(s) /\ s[th] \in Ref,
         NEW f, \A k \in DOMAIN f : f[k] \in Scalar
  PROVE  Stored(s, hp, th, f) \in Heap
  BY DEF Stored, Heap, Table, Value

\* The new table is empty, and one field of the other changes.
LEMMA AttachedIsHeap ==
  ASSUME NEW s, NEW hp \in Heap, NEW th, NEW k \in Key, NEW r \in Ref
  PROVE  Attached(s, hp, th, k, r) \in Heap
  BY DEF Attached, Heap, Table, Value, EmptyTable

\* Opening a value pushes it when it is a table, and else gives handle 0.
LEMMA FoundOutcome ==
  ASSUME NEW s \in Seq(Slot), NEW hp \in Heap, NEW v \in Value
  PROVE  LET o == Found(s, hp, v)
         IN  /\ o.heap = hp
             /\ \/ /\ o.handle = Len(s) + 1
                   /\ \E x \in Ref : o.stack = Append(s, x)
                \/ o.handle = 0 /\ o.stack = s
  BY DEF Found, Pushed, HandleOf

\* So does opening a field, and under handle 0 there is no table.
LEMMA ResolveOutcome ==
  ASSUME NEW s \in Seq(Slot), NEW hp \in Heap, NEW th \in Nat,
         th > 0 => th <= Len(s) /\ s[th] \in Ref,
         NEW k \in Key, NEW o \in Resolve(s, hp, th, k)
  PROVE  /\ o.heap \in Heap
         /\ \/ /\ o.handle = Len(s) + 1
               /\ \E x \in Ref : o.stack = Append(s, x)
               /\ th > 0
            \/ o.handle = 0 /\ o.stack = s
<1>1. CASE Field(s, hp, th, k) = Nil /\ th > 0
  <2>1. PICK r \in Fresh(s, hp) :
          o = [stack  |-> Append(s, r), heap |-> Attached(s, hp, th, k, r),
               handle |-> Len(s) + 1]
    BY <1>1 DEF Resolve
  <2>2. r \in Ref
    BY DEF Fresh
  <2> QED
    BY <1>1, <2>1, <2>2, AttachedIsHeap
<1>2. CASE ~(Field(s, hp, th, k) = Nil /\ th > 0)
  <2>1. o = Found(s, hp, Field(s, hp, th, k))
    BY <1>2 DEF Resolve
  <2>2. Field(s, hp, th, k) \in Value
    BY DEF Field, Heap, Table, Value
  <2>3. th = 0 => o.handle = 0
    BY <2>1, VMAssumption DEF Field, Found, HandleOf
  <2> QED
    BY <2>1, <2>2, <2>3, FoundOutcome
<1> QED
  BY <1>1, <1>2

----------------------------------------------------------------------------
(* The handles, when a level is opened and when one is closed.             *)

\* The parts of HandleInv that are about the stack and the levels only.
HandlesOK ==
  /\ stack \in Seq(Slot)
  /\ levels \in [Tbl -> Seq(Nat)]
  /\ args \in Nat /\ args <= Len(stack)
  /\ HandlesValid
  /\ HandlesNested
  /\ SlotsOwned

\* A new innermost level: its table is pushed, or it has no table.
LEMMA DescendKeeps ==
  ASSUME HandlesOK, NEW t \in Tbl, NEW h \in Nat,
         \/ /\ h = Len(stack) + 1
            /\ \E x \in Ref : stack' = Append(stack, x)
            /\ ~IsOpen(t) \/ Handle(t) > 0
         \/ h = 0 /\ stack' = stack,
         Descend(t, h), args' = args
  PROVE  HandlesOK'
<1>1. /\ levels' \in [Tbl -> Seq(Nat)]
      /\ \A u \in Tbl \ {t} : levels'[u] = levels[u]
      /\ levels'[t] = Append(levels[t], h)
      /\ DOMAIN levels'[t] = DOMAIN levels[t] \cup {Len(levels[t]) + 1}
      /\ \A i \in DOMAIN levels[t] : levels'[t][i] = levels[t][i]
      /\ levels'[t][Len(levels[t]) + 1] = h
  BY AppendFacts DEF HandlesOK, Descend
<1>2. /\ stack' \in Seq(Slot)
      /\ Len(stack) <= Len(stack')
      /\ \A n \in 1 .. Len(stack) : stack'[n] = stack[n]
      /\ h > 0 => h = Len(stack) + 1 /\ h = Len(stack') /\ stack'[h] \in Ref
      /\ h = 0 => stack' = stack
  <2>1. CASE h = Len(stack) + 1
    <3>1. PICK x \in Ref : stack' = Append(stack, x)
      BY <2>1 DEF HandlesOK
    <3>2. x \in Slot
      BY DEF Slot
    <3> QED
      BY <2>1, <3>1, <3>2, AppendFacts DEF HandlesOK
  <2>2. CASE h = 0 /\ stack' = stack
    BY <2>2 DEF HandlesOK
  <2> QED
    BY <2>1, <2>2
<1>3. /\ levels \in [Tbl -> Seq(Nat)]
      /\ Len(stack) \in Nat /\ Len(stack') \in Nat /\ args \in Nat
      /\ DOMAIN levels[t] = 1 .. Len(levels[t])
      /\ Len(levels[t]) \in Nat
      /\ \A u \in Tbl : DOMAIN levels[u] \subseteq Nat \ {0}
      /\ \A u \in Tbl : DOMAIN levels'[u] \subseteq Nat \ {0}
  <2>1. levels \in [Tbl -> Seq(Nat)] /\ args \in Nat /\ stack \in Seq(Slot)
    BY DEF HandlesOK
  <2>2. \A u \in Tbl : levels[u] \in Seq(Nat) /\ levels'[u] \in Seq(Nat)
    BY <1>1, <2>1
  <2> QED
    BY <1>2, <2>1, <2>2, SeqDomain
<1>4. \A u \in Tbl : \A i \in DOMAIN levels'[u] :
        \/ i \in DOMAIN levels[u] /\ levels'[u][i] = levels[u][i]
        \/ u = t /\ i = Len(levels[t]) + 1 /\ levels'[u][i] = h
  BY <1>1
<1>5. \A u \in Tbl : \A i \in DOMAIN levels[u] :
        /\ levels[u][i] \in Nat
        /\ levels[u][i] <= Len(stack)
        /\ levels[u][i] > 0 => /\ levels[u][i] \in args + 1 .. Len(stack)
                               /\ stack[levels[u][i]] \in Ref
  BY <1>3 DEF HandlesOK, HandlesValid
<1>6. HandlesValid'
  <2> SUFFICES ASSUME NEW u \in Tbl, NEW i \in DOMAIN levels'[u],
                      levels'[u][i] > 0
               PROVE  /\ levels'[u][i] \in args + 1 .. Len(stack')
                      /\ stack'[levels'[u][i]] \in Ref
    BY DEF HandlesValid
  <2>1. CASE i \in DOMAIN levels[u] /\ levels'[u][i] = levels[u][i]
    BY <1>2, <1>3, <1>5, <2>1
  <2>2. CASE levels'[u][i] = h
    BY <1>2, <1>3, <2>2 DEF HandlesOK
  <2> QED
    BY <1>4, <2>1, <2>2
<1>7. HandlesNested'
  <2> SUFFICES ASSUME NEW u \in Tbl, NEW i \in DOMAIN levels'[u],
                      NEW j \in DOMAIN levels'[u], i < j
               PROVE  \/ levels'[u][j] = 0
                      \/ 0 < levels'[u][i] /\ levels'[u][i] < levels'[u][j]
    BY DEF HandlesNested
  <2>0. i \in Nat /\ j \in Nat
    BY <1>3
  <2>1. CASE u # t \/ j # Len(levels[t]) + 1
    <3>1. /\ j \in DOMAIN levels[u] /\ levels'[u][j] = levels[u][j]
          /\ u = t => j <= Len(levels[t])
      BY <1>3, <1>4, <2>1
    <3>2. i \in DOMAIN levels[u] /\ levels'[u][i] = levels[u][i]
      BY <1>3, <1>4, <2>0, <3>1
    <3> QED
      BY <3>1, <3>2 DEF HandlesOK, HandlesNested
  <2>2. CASE u = t /\ j = Len(levels[t]) + 1 /\ h > 0
    <3>1. /\ i \in DOMAIN levels[t]
          /\ levels'[t][i] = levels[t][i]
          /\ levels'[t][j] = h
      BY <1>1, <1>3, <1>4, <2>0, <2>2
    <3>2. /\ levels[t][Len(levels[t])] > 0
          /\ Len(levels[t]) \in DOMAIN levels[t]
          /\ i = Len(levels[t]) \/ i < Len(levels[t])
      <4>1. Len(levels[t]) > 0 /\ i <= Len(levels[t])
        BY <1>3, <2>0, <3>1
      <4>2. IsOpen(t)
        BY <3>1 DEF IsOpen
      <4>3. Handle(t) > 0
        BY <2>2, <4>2
      <4>4. Len(levels[t]) \in Nat /\ DOMAIN levels[t] = 1 .. Len(levels[t])
        BY <1>3
      <4>5. levels[t][Len(levels[t])] > 0
        BY <4>3 DEF Handle
      <4>6. Len(levels[t]) \in DOMAIN levels[t]
        BY <4>1, <4>4
      <4>7. i = Len(levels[t]) \/ i < Len(levels[t])
        BY <2>0, <4>1, <4>4
      <4> QED
        BY <4>5, <4>6, <4>7
    <3>3. levels[t][i] > 0
      <4>1. CASE i = Len(levels[t])
        BY <3>2, <4>1
      <4>2. CASE i < Len(levels[t])
        <5>1. \/ levels[t][Len(levels[t])] = 0
              \/ 0 < levels[t][i] /\ levels[t][i] < levels[t][Len(levels[t])]
          BY <3>1, <3>2, <4>2 DEF HandlesOK, HandlesNested
        <5> QED
          BY <1>5, <3>1, <3>2, <5>1
      <4> QED
        BY <3>2, <4>1, <4>2
    <3>4. /\ levels[t][i] \in Nat /\ levels[t][i] <= Len(stack)
          /\ Len(stack) \in Nat /\ h = Len(stack) + 1
      BY <1>2, <1>3, <1>5, <2>2, <3>1
    <3> QED
      BY <2>2, <3>1, <3>3, <3>4
  <2>3. CASE u = t /\ j = Len(levels[t]) + 1 /\ h = 0
    BY <1>1, <2>3
  <2> QED
    BY <2>1, <2>2, <2>3
<1>9. SlotsOwned'
  <2> SUFFICES ASSUME NEW n \in args + 1 .. Len(stack')
               PROVE  \/ stack'[n] = Message
                      \/ \E u \in Tbl : \E i \in DOMAIN levels'[u] :
                           n = levels'[u][i]
    BY DEF SlotsOwned, Handles
  <2>1. CASE n <= Len(stack)
    <3>1. stack[n] = Message \/ \E u \in Tbl : \E i \in DOMAIN levels[u] :
                                 n = levels[u][i]
      <4>1. n \in args + 1 .. Len(stack)
        BY <1>2, <1>3, <2>1
      <4> QED
        BY <4>1 DEF HandlesOK, SlotsOwned, Handles
    <3>2. stack'[n] = stack[n]
      BY <1>2, <1>3, <2>1
    <3>3. \A u \in Tbl : \A i \in DOMAIN levels[u] :
            i \in DOMAIN levels'[u] /\ levels'[u][i] = levels[u][i]
      BY <1>1
    <3> QED
      BY <3>1, <3>2, <3>3
  <2>2. CASE n > Len(stack)
    BY <1>1, <1>2, <1>3, <2>2
  <2> QED
    BY <1>2, <1>3, <2>1, <2>2
<1> QED
  BY <1>1, <1>2, <1>3, <1>6, <1>7, <1>9 DEF HandlesOK

\* The innermost level is closed: its table and all above it are dropped,
\* which must be no level of another variable.
LEMMA DropKeeps ==
  ASSUME HandlesOK, NEW t \in Tbl, IsOpen(t),
         Handle(t) > 0 => \A u \in Tbl \ {t} : \A i \in DOMAIN levels[u] :
                            levels[u][i] < Handle(t),
         stack' = Closed(stack, Handle(t)),
         levels' = [levels EXCEPT ![t] = SubSeq(@, 1, Len(@) - 1)],
         args' = args
  PROVE  HandlesOK'
<1> DEFINE L == Len(levels[t])
           H == Handle(t)
<1>1. /\ levels \in [Tbl -> Seq(Nat)] /\ stack \in Seq(Slot)
      /\ args \in Nat /\ args <= Len(stack) /\ Len(stack) \in Nat
  BY DEF HandlesOK
<1>2. /\ levels[t] \in Seq(Nat) /\ L \in Nat /\ L > 0
      /\ DOMAIN levels[t] = 1 .. L
      /\ L \in DOMAIN levels[t] /\ H = levels[t][L] /\ H \in Nat
  <2>1. levels[t] \in Seq(Nat) /\ levels[t] # <<>>
    BY <1>1 DEF IsOpen
  <2> QED
    BY <2>1 DEF Handle
<1>3. /\ levels' \in [Tbl -> Seq(Nat)]
      /\ \A u \in Tbl \ {t} : levels'[u] = levels[u]
      /\ DOMAIN levels'[t] = 1 .. L - 1
      /\ \A i \in 1 .. L - 1 : levels'[t][i] = levels[t][i]
  <2>1. /\ SubSeq(levels[t], 1, L - 1) \in Seq(Nat)
        /\ DOMAIN SubSeq(levels[t], 1, L - 1) = 1 .. L - 1
        /\ \A i \in 1 .. L - 1 : SubSeq(levels[t], 1, L - 1)[i] = levels[t][i]
    BY <1>2
  <2>2. levels'[t] = SubSeq(levels[t], 1, L - 1)
    BY <1>1
  <2> QED
    BY <1>1, <2>1, <2>2
<1>4. H > 0 => H \in args + 1 .. Len(stack)
  BY <1>2 DEF HandlesOK, HandlesValid
<1>5. /\ stack' \in Seq(Slot)
      /\ args <= Len(stack') /\ Len(stack') \in Nat
      /\ Len(stack') <= Len(stack)
      /\ H > 0 => Len(stack') = H - 1
      /\ H = 0 => stack' = stack
      /\ \A n \in 1 .. Len(stack') : stack'[n] = stack[n]
  <2>1. CASE H > 0
    <3>1. H - 1 \in 0 .. Len(stack) /\ args <= H - 1 /\ stack' = SetTop(stack, H - 1)
      BY <1>1, <1>2, <1>4, <2>1 DEF Closed
    <3>2. /\ SetTop(stack, H - 1) \in Seq(Slot)
          /\ Len(SetTop(stack, H - 1)) = H - 1
          /\ \A n \in 1 .. H - 1 : SetTop(stack, H - 1)[n] = stack[n]
      BY <1>1, <3>1, SetTopKeeps
    <3> QED
      BY <1>1, <1>2, <2>1, <3>1, <3>2
  <2>2. CASE H = 0
    BY <1>1, <2>2 DEF Closed
  <2> QED
    BY <1>2, <2>1, <2>2
<1>6. \A u \in Tbl : \A i \in DOMAIN levels'[u] :
        /\ i \in DOMAIN levels[u] /\ levels'[u][i] = levels[u][i]
        /\ i \in Nat /\ levels[u][i] \in Nat
  <2> SUFFICES ASSUME NEW u \in Tbl, NEW i \in DOMAIN levels'[u]
               PROVE  /\ i \in DOMAIN levels[u] /\ levels'[u][i] = levels[u][i]
                      /\ i \in Nat /\ levels[u][i] \in Nat
    OBVIOUS
  <2>1. i \in DOMAIN levels[u] /\ levels'[u][i] = levels[u][i]
    <3>1. CASE u = t
      BY <1>2, <1>3, <3>1
    <3>2. CASE u # t
      BY <1>3, <3>2
    <3> QED
      BY <3>1, <3>2
  <2>2. levels[u] \in Seq(Nat)
    BY <1>1
  <2> QED
    BY <2>1, <2>2, SeqDomain
<1>7. ASSUME H > 0, NEW u \in Tbl, NEW i \in DOMAIN levels'[u]
      PROVE  levels'[u][i] < H
  <2>1. CASE u = t
    <3>1. i \in DOMAIN levels[t] /\ i < L /\ levels'[t][i] = levels[t][i]
      BY <1>2, <1>3, <2>1
    <3>2. levels[t][i] < levels[t][L]
      <4>1. \/ levels[t][L] = 0
            \/ 0 < levels[t][i] /\ levels[t][i] < levels[t][L]
        BY <1>2, <3>1 DEF HandlesOK, HandlesNested
      <4> QED
        BY <1>2, <1>7, <4>1
    <3> QED
      BY <1>2, <2>1, <3>1, <3>2
  <2>2. CASE u # t
    BY <1>6, <1>7, <2>2
  <2> QED
    BY <2>1, <2>2
<1>8. HandlesValid'
  <2> SUFFICES ASSUME NEW u \in Tbl, NEW i \in DOMAIN levels'[u],
                      levels'[u][i] > 0
               PROVE  /\ levels'[u][i] \in args + 1 .. Len(stack')
                      /\ stack'[levels'[u][i]] \in Ref
    BY DEF HandlesValid
  <2> DEFINE g == levels'[u][i]
  <2>1. g \in Nat /\ g \in args + 1 .. Len(stack) /\ stack[g] \in Ref
    BY <1>6 DEF HandlesOK, HandlesValid
  <2>2. g <= Len(stack')
    <3>1. CASE H > 0
      <4>1. g < H
        BY <1>7, <3>1
      <4> QED
        BY SMTT(30), <1>2, <1>5, <2>1, <3>1, <4>1
    <3>2. CASE H = 0
      BY <1>1, <1>5, <2>1, <3>2
    <3> QED
      BY <1>2, <3>1, <3>2
  <2> QED
    BY SMTT(30), <1>1, <1>5, <2>1, <2>2
<1>9. HandlesNested'
  BY SMTT(30), <1>6 DEF HandlesOK, HandlesNested
<1>11. SlotsOwned'
  <2> SUFFICES ASSUME NEW n \in args + 1 .. Len(stack'), stack'[n] # Message
               PROVE  \E u \in Tbl : \E i \in DOMAIN levels'[u] :
                        n = levels'[u][i]
    BY DEF SlotsOwned, Handles
  <2>1. /\ n \in args + 1 .. Len(stack) /\ n > 0 /\ n \in Nat
        /\ stack[n] # Message /\ (H > 0 => n < H)
    BY <1>1, <1>2, <1>5
  <2>2. PICK u \in Tbl : \E i \in DOMAIN levels[u] : n = levels[u][i]
    BY <2>1 DEF HandlesOK, SlotsOwned, Handles
  <2>3. PICK i \in DOMAIN levels[u] : n = levels[u][i]
    BY <2>2
  <2>4. CASE u # t
    BY <1>3, <2>3, <2>4
  <2>5. CASE u = t
    <3>1. i # L
      BY <1>2, <2>1, <2>3, <2>5
    <3>2. i \in 1 .. L - 1
      BY <1>2, <2>5, <3>1
    <3> QED
      BY <1>3, <2>3, <2>5, <3>2
  <2> QED
    BY <2>4, <2>5
<1> QED
  BY <1>1, <1>3, <1>5, <1>8, <1>9, <1>11 DEF HandlesOK

\* What HandlesOK says of the current handle of an open table variable.
LEMMA CurrentHandle ==
  ASSUME HandlesOK, NEW t \in Tbl, IsOpen(t)
  PROVE  /\ Handle(t) \in Nat
         /\ Handle(t) > 0 => /\ Handle(t) <= Len(stack)
                             /\ stack[Handle(t)] \in Ref
         /\ Len(levels[t]) \in Nat /\ Len(levels[t]) > 0
         /\ Len(levels[t]) \in DOMAIN levels[t]
         /\ Handle(t) = levels[t][Len(levels[t])]
         /\ DOMAIN levels[t] = 1 .. Len(levels[t])
<1>1. levels[t] \in Seq(Nat) /\ levels[t] # <<>>
  BY DEF HandlesOK, IsOpen
<1>2. /\ Len(levels[t]) \in Nat /\ Len(levels[t]) > 0
      /\ Len(levels[t]) \in DOMAIN levels[t]
      /\ DOMAIN levels[t] = 1 .. Len(levels[t])
      /\ levels[t][Len(levels[t])] \in Nat
  BY <1>1
<1>3. stack \in Seq(Slot) /\ args \in Nat
  BY DEF HandlesOK
<1>4. levels[t][Len(levels[t])] > 0 =>
        /\ levels[t][Len(levels[t])] \in args + 1 .. Len(stack)
        /\ stack[levels[t][Len(levels[t])]] \in Ref
  BY <1>2 DEF HandlesOK, HandlesValid
<1> QED
  BY <1>2, <1>3, <1>4 DEF Handle

\* Steps that move no handle keep what the handles satisfy.
LEMMA SameHandles ==
  ASSUME HandlesOK, UNCHANGED <<stack, levels, args>>
  PROVE  HandlesOK'
<1>0. stack' = stack /\ levels' = levels /\ args' = args
  OBVIOUS
<1>1. HandlesValid' /\ HandlesNested'
  BY DEF HandlesOK, HandlesValid, HandlesNested
<1>3. SlotsOwned'
  BY DEF HandlesOK, SlotsOwned, Handles
<1> QED
  BY <1>1, <1>3 DEF HandlesOK

\* A level that was opened on the top of the stack is closed before the
\* levels that were on top already.
LEMMA DescendOnTop ==
  ASSUME HandlesOK, NEW t \in Tbl, NEW n \in Int, OnTop(t, n),
         NEW h \in Nat, h > 0 => h = Len(stack) + 1, Descend(t, h)
  PROVE  OnTop(t, n + 1)'
<1>1. /\ levels \in [Tbl -> Seq(Nat)] /\ stack \in Seq(Slot)
      /\ Len(stack) \in Nat /\ args \in Nat /\ levels[t] \in Seq(Nat)
      /\ Len(levels[t]) \in Nat
  BY DEF HandlesOK
<1>2. /\ \A u \in Tbl \ {t} : levels'[u] = levels[u]
      /\ Len(levels'[t]) = Len(levels[t]) + 1
      /\ DOMAIN levels'[t] = DOMAIN levels[t] \cup {Len(levels[t]) + 1}
      /\ \A i \in DOMAIN levels[t] : levels'[t][i] = levels[t][i]
      /\ levels'[t][Len(levels[t]) + 1] = h
  BY <1>1, AppendFacts DEF Descend
<1> SUFFICES ASSUME NEW j \in DOMAIN levels'[t],
                    j > Len(levels'[t]) - (n + 1), levels'[t][j] > 0,
                    NEW u \in Tbl \ {t}, NEW i \in DOMAIN levels'[u]
             PROVE  levels'[u][i] < levels'[t][j]
  BY DEF OnTop
<1>3. i \in DOMAIN levels[u] /\ levels'[u][i] = levels[u][i]
  BY <1>2
<1>4. CASE j \in DOMAIN levels[t]
  <2>1. j \in Nat
    BY <1>1, <1>4, SeqDomain
  <2>2. j > Len(levels[t]) - n
    BY <1>1, <1>2, <2>1
  <2> QED
    BY <1>2, <1>3, <1>4, <2>2 DEF OnTop
<1>5. CASE j = Len(levels[t]) + 1
  <2>1. levels'[t][j] = Len(stack) + 1
    BY <1>2, <1>5
  <2>2. levels[u] \in Seq(Nat)
    BY <1>1
  <2>3. levels[u][i] \in Nat
    BY <1>3, <2>2
  <2>4. levels[u][i] > 0 => levels[u][i] \in args + 1 .. Len(stack)
    BY <1>3 DEF HandlesOK, HandlesValid
  <2>5. levels[u][i] < Len(stack) + 1
    BY <1>1, <2>3, <2>4
  <2> QED
    BY <1>3, <2>1, <2>5
<1> QED
  BY <1>2, <1>4, <1>5

\* When the innermost level is closed, what was to be closed after it still
\* is on top.
LEMMA DropOnTop ==
  ASSUME HandlesOK, NEW t \in Tbl, IsOpen(t), NEW n \in Int, OnTop(t, n),
         levels' = [levels EXCEPT ![t] = SubSeq(@, 1, Len(@) - 1)]
  PROVE  OnTop(t, n - 1)'
<1>1. /\ levels \in [Tbl -> Seq(Nat)] /\ levels[t] \in Seq(Nat)
      /\ Len(levels[t]) \in Nat /\ Len(levels[t]) > 0
  BY CurrentHandle DEF HandlesOK
<1>2. /\ \A u \in Tbl \ {t} : levels'[u] = levels[u]
      /\ Len(levels'[t]) = Len(levels[t]) - 1
      /\ DOMAIN levels'[t] = 1 .. Len(levels[t]) - 1
      /\ \A i \in 1 .. Len(levels[t]) - 1 : levels'[t][i] = levels[t][i]
  <2> DEFINE rest == SubSeq(levels[t], 1, Len(levels[t]) - 1)
  <2>1. /\ Len(rest) = Len(levels[t]) - 1
        /\ DOMAIN rest = 1 .. Len(levels[t]) - 1
        /\ \A i \in 1 .. Len(levels[t]) - 1 : rest[i] = levels[t][i]
    BY <1>1, FrontFacts
  <2>2. levels'[t] = rest /\ \A u \in Tbl \ {t} : levels'[u] = levels[u]
    BY <1>1
  <2> HIDE DEF rest
  <2> QED
    BY <2>1, <2>2
<1> SUFFICES ASSUME NEW j \in DOMAIN levels'[t],
                    j > Len(levels'[t]) - (n - 1), levels'[t][j] > 0,
                    NEW u \in Tbl \ {t}, NEW i \in DOMAIN levels'[u]
             PROVE  levels'[u][i] < levels'[t][j]
  BY DEF OnTop
<1>3. /\ j \in DOMAIN levels[t] /\ levels'[t][j] = levels[t][j]
      /\ j > Len(levels[t]) - n
  BY SMTT(30), <1>1, <1>2
<1>4. i \in DOMAIN levels[u] /\ levels'[u][i] = levels[u][i]
  BY <1>2
<1> QED
  BY <1>3, <1>4 DEF OnTop

----------------------------------------------------------------------------
(* The invariant, one lemma per group of actions.                          *)

\* A call that starts moves no handle; it is well formed and asks to close
\* levels on top only.
LEMMA BeginKeeps ==
  ASSUME HandleInv, NEW t \in Tbl, NEW op \in Calls,
         NEW phase \in {"open", "close", "underflow"},
         NEW name \in Seq(Name \cup {Dot}), NEW mode \in Modes,
         NEW lvls \in Int, NEW write \in BOOLEAN,
         op \in {"vector", "matrix"} => mode = "count",
         OnTop(t, IF mode = "one" THEN 1
                  ELSE IF mode = "count" THEN lvls ELSE Len(levels[t])),
         Begin(t, op, phase, name, mode, lvls, write)
  PROVE  HandleInv'
<1>1. HandlesOK /\ heap \in Heap /\ runs \in 0 .. MaxRuns
  BY DEF HandleInv, TypeOK, HandlesOK
<1>2. /\ UNCHANGED <<stack, levels, args>> /\ heap' = heap /\ runs' = runs
      /\ pc' = phase
      /\ call' = [op |-> op, tb |-> t, name |-> name, mode |-> mode,
                  lvls |-> lvls, write |-> write, row |-> 1,
                  depth |-> Len(levels[t]), height |-> Len(stack)]
  BY DEF Begin
<1>3. HandlesOK'
  BY <1>1, <1>2, SameHandles
<1>4. call' \in Call
  <2>1. levels[t] \in Seq(Nat) /\ stack \in Seq(Slot)
    BY <1>1 DEF HandlesOK
  <2>2. Len(levels[t]) \in Nat /\ Len(stack) \in Nat
    BY <2>1
  <2> QED
    BY <1>2, <2>2 DEF Call
<1>5. TypeOK'
  BY <1>1, <1>2, <1>3, <1>4 DEF TypeOK, HandlesOK, Phases, Faults
<1>6. ArrayCallOK'
  BY <1>2 DEF ArrayCallOK, IsArrayCall
<1>7. ClosesOnTop'
  BY <1>2 DEF ClosesOnTop, ToClose, OnTop
<1> QED
  BY <1>3, <1>5, <1>6, <1>7 DEF HandleInv, HandlesOK

\* The calls lua_open, lua_close, lua_close_open, the array calls, and
\* lua_table(lua) on an empty stack.
LEMMA CallsKeep ==
  ASSUME HandleInv, NEW t \in Tbl,
         Open(t) \/ Close(t) \/ Reopen(t) \/ Array(t) \/ TopOfNothing(t)
  PROVE  HandleInv'
<1>1. /\ \A nm \in Names : nm \in Seq(Name \cup {Dot})
      /\ <<>> \in Seq(Name \cup {Dot})
      /\ \A n \in 0 .. MaxLvls : n \in Int
      /\ 0 \in Int
      /\ TRUE \in BOOLEAN /\ FALSE \in BOOLEAN
  BY TblAssumption
<1>2. OnTop(t, 0)
  <2>1. levels[t] \in Seq(Nat)
    BY DEF HandleInv, TypeOK
  <2>2. \A j \in DOMAIN levels[t] : ~(j > Len(levels[t]) - 0)
    BY <2>1
  <2> QED
    BY <2>2 DEF OnTop
<1>3. CASE Open(t)
  <2>1. PICK nm \in Names : Begin(t, "open", "open", nm, "count", 0, FALSE)
    BY <1>3 DEF Open
  <2> QED
    BY <1>1, <1>2, <2>1, BeginKeeps DEF Calls, Phases, Modes
<1>4. CASE Close(t)
  <2>1. CASE OnTop(t, 1) /\ Begin(t, "close", "close", <<>>, "one", 0, FALSE)
    BY <1>1, <2>1, BeginKeeps DEF Calls, Phases, Modes
  <2>2. ASSUME NEW n \in 0 .. MaxLvls, OnTop(t, n),
               Begin(t, "close", "close", <<>>, "count", n, FALSE)
        PROVE  HandleInv'
    BY <1>1, <2>2, BeginKeeps DEF Calls, Phases, Modes
  <2>3. CASE /\ OnTop(t, Len(levels[t]))
             /\ Begin(t, "close", "close", <<>>, "tree", 0, FALSE)
    BY <1>1, <2>3, BeginKeeps DEF Calls, Phases, Modes
  <2>4. ASSUME NEW n \in 0 .. MaxLvls, OnTop(t, Len(levels[t])),
               Begin(t, "close", "close", <<>>, "both", n, FALSE)
        PROVE  HandleInv'
    BY <1>1, <2>4, BeginKeeps DEF Calls, Phases, Modes
  <2> QED
    BY <1>4, <2>1, <2>2, <2>3, <2>4 DEF Close
<1>5. CASE Reopen(t)
  <2>1. ASSUME NEW nm \in Names, OnTop(t, 1),
               Begin(t, "reopen", "close", nm, "one", 0, FALSE)
        PROVE  HandleInv'
    BY <1>1, <2>1, BeginKeeps DEF Calls, Phases, Modes
  <2>2. ASSUME NEW nm \in Names, NEW n \in 0 .. MaxLvls, OnTop(t, n),
               Begin(t, "reopen", "close", nm, "count", n, FALSE)
        PROVE  HandleInv'
    BY <1>1, <2>2, BeginKeeps DEF Calls, Phases, Modes
  <2> QED
    BY <1>5, <2>1, <2>2 DEF Reopen
<1>6. CASE Array(t)
  <2>1. PICK nm \in Names, op \in {"vector", "matrix"}, write \in BOOLEAN :
          Begin(t, op, "open", nm, "count", 0, write)
    BY <1>6 DEF Array, SetArray, GetArray
  <2> QED
    BY <1>1, <1>2, <2>1, BeginKeeps DEF Calls, Phases, Modes
<1>7. CASE TopOfNothing(t)
  BY <1>1, <1>2, <1>7, BeginKeeps DEF TopOfNothing, Calls, Phases, Modes
<1> QED
  BY <1>3, <1>4, <1>5, <1>6, <1>7

\* lua_table(lua) takes the slot on top, which may be another variable's.
LEMMA TopTableKeeps ==
  ASSUME HandleInv, NEW t \in Tbl, TopTable(t)
  PROVE  HandleInv'
<1> DEFINE N    == Len(stack)
           v    == stack[N]
           rest == SubSeq(stack, 1, N - 1)
           h    == IF v \in Ref THEN N ELSE 0
<1>1. /\ stack \in Seq(Slot) /\ stack # <<>> /\ N \in Nat /\ N > 0
      /\ levels \in [Tbl -> Seq(Nat)] /\ levels[t] = <<>>
      /\ args \in Nat /\ args <= N
      /\ pc' = "idle" /\ call' = NoCall /\ heap' \in Heap
      /\ runs' \in 0 .. MaxRuns
  <2>1. stack \in Seq(Slot) /\ stack # <<>>
    BY DEF HandleInv, TypeOK, TopTable
  <2>2. N \in Nat /\ N > 0
    BY <2>1
  <2> QED
    BY <2>1, <2>2 DEF HandleInv, TypeOK, TopTable, IsOpen
<1>2. /\ rest \in Seq(Slot) /\ Len(rest) = N - 1
      /\ \A n \in 1 .. N - 1 : rest[n] = stack[n]
  BY <1>1, FrontFacts
<1>3. /\ stack' \in Seq(Slot)
      /\ Len(stack') = IF v \in Ref THEN N ELSE N - 1
      /\ \A n \in 1 .. N - 1 : stack'[n] = stack[n]
      /\ v \in Ref => stack'[N] = v
  <2>1. stack' = Pushed(rest, v)
    BY DEF TopTable
  <2>2. CASE v \in Ref
    <3>1. stack' = Append(rest, v) /\ v \in Slot
      BY <2>1, <2>2 DEF Pushed, Slot
    <3>2. /\ stack' \in Seq(Slot) /\ Len(stack') = N
          /\ stack'[N] = v
          /\ \A n \in 1 .. N - 1 : stack'[n] = rest[n]
      BY <1>1, <1>2, <3>1, AppendFacts
    <3> QED
      BY <1>2, <2>2, <3>2
  <2>3. CASE v \notin Ref
    BY <1>2, <2>1, <2>3 DEF Pushed
  <2> QED
    BY <2>2, <2>3
<1>4. /\ levels' \in [Tbl -> Seq(Nat)]
      /\ \A u \in Tbl \ {t} : levels'[u] = levels[u]
      /\ DOMAIN levels'[t] = {1} /\ levels'[t][1] = h
  <2>1. HandleOf(rest, v) = h /\ h \in Nat
    BY <1>1, <1>2 DEF HandleOf
  <2>2. levels' = [levels EXCEPT ![t] = <<h>>]
    BY <2>1 DEF TopTable
  <2> QED
    BY <1>1, <2>1, <2>2
<1>5. /\ args' \in Nat /\ args' <= args /\ args' <= N - 1
      /\ args' = args \/ (args = N /\ args' = N - 1)
  BY <1>1 DEF TopTable
<1>6. \A u \in Tbl \ {t} : \A i \in DOMAIN levels[u] :
        /\ levels[u][i] \in Nat
        /\ levels[u][i] > 0 =>
             /\ levels[u][i] > args /\ stack[levels[u][i]] \in Ref
             /\ levels[u][i] <= N - 1 \/ (levels[u][i] = N /\ v \in Ref)
  <2> SUFFICES ASSUME NEW u \in Tbl \ {t}, NEW i \in DOMAIN levels[u]
               PROVE  /\ levels[u][i] \in Nat
                      /\ levels[u][i] > 0 =>
                           /\ levels[u][i] > args /\ stack[levels[u][i]] \in Ref
                           /\ \/ levels[u][i] <= N - 1
                              \/ levels[u][i] = N /\ v \in Ref
    OBVIOUS
  <2>1. levels[u] \in Seq(Nat)
    BY <1>1
  <2>2. levels[u][i] \in Nat
    BY <2>1
  <2>3. levels[u][i] > 0 => /\ levels[u][i] \in args + 1 .. N
                            /\ stack[levels[u][i]] \in Ref
    BY DEF HandleInv, HandlesValid
  <2>4. levels[u][i] = N => stack[levels[u][i]] = v
    OBVIOUS
  <2> QED
    BY SMTT(30), <1>1, <2>2, <2>3, <2>4
<1>0. Len(stack') \in Nat /\ N - 1 <= Len(stack') /\ Len(stack') <= N
  BY <1>1, <1>3
<1>7. HandlesValid'
  <2> SUFFICES ASSUME NEW u \in Tbl, NEW i \in DOMAIN levels'[u],
                      levels'[u][i] > 0
               PROVE  /\ levels'[u][i] \in args' + 1 .. Len(stack')
                      /\ stack'[levels'[u][i]] \in Ref
    BY DEF HandlesValid
  <2>1. CASE u = t
    BY SMTT(30), <1>1, <1>3, <1>4, <1>5, <2>1
  <2>2. CASE u # t
    <3>1. i \in DOMAIN levels[u] /\ levels'[u][i] = levels[u][i]
      BY <1>4, <2>2
    <3>2. /\ levels[u][i] \in Nat /\ levels[u][i] > args
          /\ stack[levels[u][i]] \in Ref
          /\ levels[u][i] <= N - 1 \/ (levels[u][i] = N /\ v \in Ref)
      BY <1>6, <2>2, <3>1
    <3>3. args \in Nat /\ args' \in Nat /\ args' <= args
          /\ N \in Nat /\ N > 0
      BY <1>1, <1>5
    <3>4. CASE levels[u][i] = N /\ v \in Ref
      BY SMTT(30), <1>3, <3>1, <3>2, <3>3, <3>4
    <3>5. CASE levels[u][i] <= N - 1
      <4> HIDE DEF N
      <4>1. levels[u][i] \in 1 .. N - 1
        BY <3>2, <3>3, <3>5
      <4>2. levels[u][i] \in args' + 1 .. Len(stack')
        BY <1>0, <3>2, <3>3, <3>5
      <4>3. stack'[levels[u][i]] = stack[levels[u][i]]
        BY <1>3, <4>1
      <4> QED
        BY <3>1, <3>2, <4>2, <4>3
    <3> QED
      BY <3>2, <3>4, <3>5
  <2> QED
    BY <2>1, <2>2
<1>8. HandlesNested'
  <2> SUFFICES ASSUME NEW u \in Tbl, NEW i \in DOMAIN levels'[u],
                      NEW j \in DOMAIN levels'[u], i < j
               PROVE  \/ levels'[u][j] = 0
                      \/ 0 < levels'[u][i] /\ levels'[u][i] < levels'[u][j]
    BY DEF HandlesNested
  <2>1. CASE u = t
    BY <1>4, <2>1
  <2>2. CASE u # t
    BY <1>4, <2>2 DEF HandleInv, HandlesNested
  <2> QED
    BY <2>1, <2>2
<1>10. SlotsOwned'
  <2> SUFFICES ASSUME NEW n \in args' + 1 .. Len(stack'), stack'[n] # Message
               PROVE  \E u \in Tbl : \E i \in DOMAIN levels'[u] :
                        n = levels'[u][i]
    BY DEF SlotsOwned, Handles
  <2>1. n \in Nat /\ n > args' /\ (n <= N - 1 \/ (n = N /\ v \in Ref))
    <3>1. n \in Nat /\ n > args' /\ n <= Len(stack')
      <4>1. args' \in Nat /\ Len(stack') \in Nat
        BY <1>0, <1>5
      <4>2. n \in args' + 1 .. Len(stack')
        OBVIOUS
      <4>3. \A a, b \in Nat : \A x \in a + 1 .. b : x \in Nat /\ x > a /\ x <= b
        OBVIOUS
      <4> QED
        BY <4>1, <4>2, <4>3, Zenon
    <3>2. CASE v \in Ref
      <4>1. Len(stack') = N
        BY <1>3, <3>2
      <4> QED
        BY <1>1, <3>1, <3>2, <4>1
    <3>3. CASE v \notin Ref
      <4>1. Len(stack') = N - 1
        BY <1>3, <3>3
      <4> QED
        BY <1>1, <3>1, <4>1
    <3> QED
      BY <3>2, <3>3
  <2>2. CASE n = N /\ v \in Ref
    BY <1>4, <2>2
  <2>3. CASE n <= N - 1
    <3>1. n \in args + 1 .. N /\ stack[n] # Message
      BY SMTT(30), <1>1, <1>3, <1>5, <2>1, <2>3
    <3>2. PICK u \in Tbl : \E i \in DOMAIN levels[u] : n = levels[u][i]
      BY <3>1 DEF HandleInv, SlotsOwned, Handles
    <3>3. u # t
      BY <1>1, <3>2
    <3> QED
      BY <1>4, <3>2, <3>3
  <2> QED
    BY <2>1, <2>2, <2>3
<1>11. args' <= Len(stack')
  BY <1>1, <1>3, <1>5
<1>12. TypeOK'
  BY <1>1, <1>3, <1>4, <1>5 DEF TypeOK
<1>13. ArrayCallOK' /\ ClosesOnTop'
  BY <1>1 DEF ArrayCallOK, IsArrayCall, ClosesOnTop
<1> QED
  BY <1>7, <1>8, <1>10, <1>11, <1>12, <1>13 DEF HandleInv

\* A script changes fields, and leaves at most a message on the stack.
LEMMA RunKeeps ==
  ASSUME HandleInv, Run
  PROVE  HandleInv'
<1>1. /\ stack \in Seq(Slot) /\ Len(stack) \in Nat /\ heap \in Heap
      /\ levels \in [Tbl -> Seq(Nat)] /\ args \in Nat /\ args <= Len(stack)
  BY DEF HandleInv, TypeOK
<1>2. /\ pc' = "idle" /\ call' = NoCall /\ levels' = levels /\ args' = args
      /\ runs' \in 0 .. MaxRuns
  <2>1. runs \in 0 .. MaxRuns /\ runs < MaxRuns /\ runs' = runs + 1
    BY DEF HandleInv, TypeOK, Run
  <2>2. runs' \in 0 .. MaxRuns
    BY <2>1, TblAssumption
  <2> QED
    BY <2>2 DEF HandleInv, TypeOK, Run
<1>3. heap' \in Heap
  <2>1. ASSUME NEW r \in Ref, NEW k \in ScriptKeys, NEW v \in Value,
               heap' = [q \in Ref |->
                          IF q = r THEN [heap[q] EXCEPT ![k] = v]
                          ELSE IF q = v /\ v \in Fresh(stack, heap)
                               THEN EmptyTable
                          ELSE heap[q]]
        PROVE  heap' \in Heap
    <3>1. \A q \in Ref : heap[q] \in Table /\ [heap[q] EXCEPT ![k] = v] \in Table
      BY <1>1 DEF Heap, Table
    <3>2. EmptyTable \in Table
      BY DEF EmptyTable, Table, Value
    <3> QED
      BY <2>1, <3>1, <3>2 DEF Heap
  <2> QED
    BY <1>1, <2>1 DEF Run
<1>4. /\ stack' \in Seq(Slot) /\ Len(stack') \in Nat
      /\ Len(stack) <= Len(stack')
      /\ \A n \in 1 .. Len(stack) : stack'[n] = stack[n]
      /\ \A n \in Nat : (n > Len(stack) /\ n <= Len(stack')) =>
                          stack'[n] = Message
  <2>1. CASE stack' = stack
    BY <1>1, <2>1
  <2>2. CASE stack' = Append(stack, Message)
    <3>1. Message \in Slot
      BY DEF Slot
    <3>2. /\ stack' \in Seq(Slot) /\ Len(stack') = Len(stack) + 1
          /\ \A n \in 1 .. Len(stack) : stack'[n] = stack[n]
          /\ stack'[Len(stack) + 1] = Message
      BY <1>1, <2>2, <3>1, AppendFacts
    <3> QED
      BY <1>1, <3>2
  <2> QED
    BY <2>1, <2>2 DEF Run
<1>5. HandlesValid'
  <2> SUFFICES ASSUME NEW u \in Tbl, NEW i \in DOMAIN levels[u],
                      levels[u][i] > 0
               PROVE  /\ levels[u][i] \in args + 1 .. Len(stack')
                      /\ stack'[levels[u][i]] \in Ref
    BY <1>2 DEF HandlesValid
  <2>1. levels[u][i] \in args + 1 .. Len(stack) /\ stack[levels[u][i]] \in Ref
    BY DEF HandleInv, HandlesValid
  <2> QED
    BY <1>1, <1>4, <2>1
<1>6. HandlesNested'
  BY <1>2 DEF HandleInv, HandlesNested
<1>8. SlotsOwned'
  <2> SUFFICES ASSUME NEW n \in args + 1 .. Len(stack'), stack'[n] # Message
               PROVE  \E u \in Tbl : \E i \in DOMAIN levels[u] :
                        n = levels[u][i]
    BY <1>2 DEF SlotsOwned, Handles
  <2>1. n \in args + 1 .. Len(stack) /\ stack[n] # Message
    BY <1>1, <1>4
  <2> QED
    BY <2>1 DEF HandleInv, SlotsOwned, Handles
<1>9. args' <= Len(stack')
  BY <1>1, <1>2, <1>4
<1>10. TypeOK'
  BY <1>1, <1>2, <1>3, <1>4 DEF TypeOK
<1>11. ArrayCallOK' /\ ClosesOnTop'
  BY <1>2 DEF ArrayCallOK, IsArrayCall, ClosesOnTop
<1> QED
  BY <1>5, <1>6, <1>8, <1>9, <1>10, <1>11 DEF HandleInv

\* The arguments of a running call.
LEMMA CallFacts ==
  ASSUME TypeOK, pc \in Phases
  PROVE  /\ call \in Call
         /\ call.op \in Calls /\ call.tb \in Tbl /\ call.mode \in Modes
         /\ call.name \in Seq(Name \cup {Dot})
         /\ call.lvls \in Int /\ call.row \in Nat \ {0}
         /\ ~NameEnds => call.name[1] \in Key
<1>1. call \in Call
  BY DEF TypeOK, Phases
<1>2. /\ call.op \in Calls /\ call.tb \in Tbl /\ call.mode \in Modes
      /\ call.name \in Seq(Name \cup {Dot})
      /\ call.lvls \in Int /\ call.row \in Nat \ {0}
  BY <1>1 DEF Call
<1>3. ASSUME ~NameEnds PROVE call.name[1] \in Key
  <2>1. call.name # <<>> /\ call.name[1] # Dot
    BY <1>3 DEF NameEnds
  <2>2. call.name[1] \in Name \cup {Dot}
    BY <1>2, <2>1
  <2> QED
    BY <2>1, <2>2 DEF Key
<1> QED
  BY <1>1, <1>2, <1>3

\* What follows the first key and its dot is a name again.
LEMMA CountedIsCall ==
  ASSUME NEW c \in Call
  PROVE  /\ Counted(c) \in Call
         /\ Counted(c).op = c.op /\ Counted(c).tb = c.tb
         /\ Counted(c).mode = c.mode /\ Counted(c).lvls = c.lvls + 1
         /\ Counted(c).depth = c.depth /\ Counted(c).height = c.height
<1>1. AfterDot(c.name) \in Seq(Name \cup {Dot})
  <2>1. c.name \in Seq(Name \cup {Dot})
    BY DEF Call
  <2>2. CASE Len(c.name) >= 2
    <3>1. Len(c.name) - 2 \in Nat
      BY <2>1, <2>2
    <3>2. \A i \in 1 .. Len(c.name) - 2 : c.name[i + 2] \in Name \cup {Dot}
      BY <2>1, <3>1
    <3> QED
      BY <3>1, <3>2 DEF AfterDot
  <2>3. CASE Len(c.name) < 2
    <3>1. 1 .. Len(c.name) - 2 = 1 .. 0
      BY <2>1, <2>3
    <3>2. AfterDot(c.name) = [i \in 1 .. 0 |-> c.name[i + 2]]
      BY <3>1, Zenon DEF AfterDot
    <3>3. [i \in 1 .. 0 |-> c.name[i + 2]] \in Seq(Name \cup {Dot})
      OBVIOUS
    <3> QED
      BY <3>2, <3>3
  <2> QED
    BY <2>1, <2>2, <2>3
<1>2. c.lvls + 1 \in Int
  BY DEF Call
<1> QED
  BY <1>1, <1>2 DEF Counted, Call

\* tbl_open_ opens one level and counts it.
LEMMA OpenLevelKeeps ==
  ASSUME HandleInv, pc = "open", ~NameEnds, NEW h \in Nat,
         \/ /\ h = Len(stack) + 1
            /\ \E x \in Ref : stack' = Append(stack, x)
            /\ ~IsOpen(call.tb) \/ Handle(call.tb) > 0
         \/ h = 0 /\ stack' = stack,
         heap' \in Heap, Descend(call.tb, h), call' = Counted(call),
         UNCHANGED <<pc, args, runs>>
  PROVE  HandleInv'
<1>1. HandlesOK /\ TypeOK /\ runs \in 0 .. MaxRuns
  BY DEF HandleInv, TypeOK, HandlesOK
<1>2. call \in Call /\ call.tb \in Tbl /\ call.lvls \in Int
  BY <1>1, CallFacts DEF Phases
<1>3. HandlesOK'
  BY <1>1, <1>2, DescendKeeps
<1>4. /\ call' \in Call /\ call'.op = call.op /\ call'.tb = call.tb
      /\ call'.mode = call.mode /\ call'.lvls = call.lvls + 1
  BY <1>2, CountedIsCall
<1>5. TypeOK'
  BY <1>1, <1>3, <1>4 DEF TypeOK, HandlesOK
<1>6. ArrayCallOK'
  BY <1>4 DEF HandleInv, ArrayCallOK, IsArrayCall
<1>7. ClosesOnTop'
  <2> SUFFICES ASSUME IsArrayCall' \/ pc' = "close"
               PROVE  OnTop(call.tb, ToClose)'
    BY DEF ClosesOnTop
  <2>1. IsArrayCall /\ call.mode = "count"
    BY <1>4 DEF HandleInv, ArrayCallOK, IsArrayCall
  <2>2. OnTop(call.tb, call.lvls)
    BY <2>1 DEF HandleInv, ClosesOnTop, ToClose
  <2>3. ASSUME NEW t \in Tbl, t = call.tb, NEW n \in Int, n = call.lvls
        PROVE  OnTop(t, n + 1)'
    BY <1>1, <2>2, <2>3, DescendOnTop
  <2>4. ToClose' = call.lvls + 1
    BY <1>4, <2>1 DEF ToClose
  <2> QED
    BY <1>2, <1>4, <2>3, <2>4 DEF OnTop
<1> QED
  BY <1>3, <1>5, <1>6, <1>7 DEF HandleInv, HandlesOK

\* What both forms of tbl_open_ lead to.
LEMMA OpenOutcome ==
  ASSUME HandleInv, OpenBelow \/ OpenGlobal
  PROVE  \E h \in Nat :
           /\ \/ /\ h = Len(stack) + 1
                 /\ \E x \in Ref : stack' = Append(stack, x)
                 /\ ~IsOpen(call.tb) \/ Handle(call.tb) > 0
              \/ h = 0 /\ stack' = stack
           /\ heap' \in Heap
           /\ Descend(call.tb, h)
<1>1. HandlesOK /\ TypeOK
  BY DEF HandleInv, TypeOK, HandlesOK
<1>2. pc = "open" /\ ~NameEnds /\ pc \in Phases
  BY DEF OpenBelow, OpenGlobal, Phases
<1>3. call.tb \in Tbl /\ call.name[1] \in Key
  BY <1>1, <1>2, CallFacts
<1>4. stack \in Seq(Slot) /\ heap \in Heap /\ Len(stack) \in Nat
  BY <1>1 DEF TypeOK
<1>5. CASE OpenBelow
  <2>1. PICK o \in Resolve(stack, heap, Handle(call.tb), call.name[1]) :
          /\ stack' = o.stack /\ heap' = o.heap
          /\ Descend(call.tb, o.handle)
    BY <1>5 DEF OpenBelow
  <2>2. /\ Handle(call.tb) \in Nat
        /\ Handle(call.tb) > 0 => /\ Handle(call.tb) <= Len(stack)
                                  /\ stack[Handle(call.tb)] \in Ref
    BY <1>1, <1>3, <1>5, CurrentHandle DEF OpenBelow
  <2>3. /\ o.heap \in Heap
        /\ \/ /\ o.handle = Len(stack) + 1
              /\ \E x \in Ref : o.stack = Append(stack, x)
              /\ Handle(call.tb) > 0
           \/ o.handle = 0 /\ o.stack = stack
    BY <1>3, <1>4, <2>2, ResolveOutcome
  <2>4. o.handle \in Nat
    BY <1>4, <2>3
  <2> QED
    BY <2>1, <2>3, <2>4
<1>6. CASE OpenGlobal
  <2> DEFINE o == Found(stack, heap, heap[Globals][call.name[1]])
  <2>1. stack' = o.stack /\ Descend(call.tb, o.handle)
    BY <1>6 DEF OpenGlobal
  <2>2. heap[Globals][call.name[1]] \in Value
    BY <1>3, <1>4, VMAssumption DEF Heap, Table
  <2>3. \/ /\ o.handle = Len(stack) + 1
           /\ \E x \in Ref : o.stack = Append(stack, x)
        \/ o.handle = 0 /\ o.stack = stack
    BY <1>4, <2>2, FoundOutcome
  <2>4. o.handle \in Nat
    <3> HIDE DEF o
    <3>1. Len(stack) + 1 \in Nat /\ 0 \in Nat
      BY <1>4
    <3> QED
      BY <2>3, <3>1
  <2>5. heap' \in Heap /\ ~IsOpen(call.tb)
    BY <1>4, <1>6 DEF OpenGlobal
  <2> QED
    BY <2>1, <2>3, <2>4, <2>5
<1> QED
  BY <1>5, <1>6

\* Both forms of tbl_open_ keep the invariant.
LEMMA OpenStepsKeep ==
  ASSUME HandleInv, OpenBelow \/ OpenGlobal
  PROVE  HandleInv'
<1>1. /\ pc = "open" /\ ~NameEnds
      /\ call' = Counted(call) /\ UNCHANGED <<pc, args, runs>>
  BY DEF OpenBelow, OpenGlobal
<1> QED
  BY <1>1, OpenOutcome, OpenLevelKeeps

\* Steps that move no handle, and keep the call's mode and lvls.
LEMMA StayKeeps ==
  ASSUME HandleInv, pc \in Phases,
         UNCHANGED <<stack, levels, args, runs>>, heap' \in Heap,
         \/ pc' = "idle" /\ call' = NoCall
         \/ pc' \in {"open"} \cup Faults /\ call' = call
         \/ /\ pc' \in {"vector", "matrix", "close"}
            /\ IsArrayCall
            /\ call' = call \/ call' = NextRow(call)
  PROVE  HandleInv'
<1>1. HandlesOK /\ TypeOK /\ runs \in 0 .. MaxRuns
  BY DEF HandleInv, TypeOK, HandlesOK
<1>2. call \in Call
  BY <1>1, CallFacts
<1>3. HandlesOK'
  BY <1>1, SameHandles
<1>4. NextRow(call) \in Call
  <2>1. call.row + 1 \in Nat \ {0}
    BY <1>2 DEF Call
  <2> QED
    BY <1>2, <2>1 DEF NextRow, Call
<1>5. TypeOK'
  BY <1>1, <1>2, <1>3, <1>4 DEF TypeOK, HandlesOK, Phases, Faults
<1>6. CASE pc' = "idle" /\ call' = NoCall
  <2>1. ArrayCallOK' /\ ClosesOnTop'
    BY <1>6 DEF ArrayCallOK, IsArrayCall, ClosesOnTop
  <2> QED
    BY <1>3, <1>5, <2>1 DEF HandleInv, HandlesOK
<1>7. CASE pc' # "idle"
  <2>1. /\ call'.op = call.op /\ call'.tb = call.tb
        /\ call'.mode = call.mode /\ call'.lvls = call.lvls
    BY <1>2, <1>7 DEF NextRow, Call
  <2>2. IsArrayCall' => IsArrayCall
    BY <2>1 DEF IsArrayCall, Phases
  <2>3. ArrayCallOK'
    BY <1>7, <2>1, <2>2 DEF HandleInv, ArrayCallOK, IsArrayCall, Phases, Faults
  <2>4. ClosesOnTop'
    <3> SUFFICES ASSUME IsArrayCall' \/ pc' = "close"
                 PROVE  OnTop(call.tb, ToClose)'
      BY DEF ClosesOnTop
    <3>1. IsArrayCall
      BY <1>7, <2>2 DEF Faults
    <3>2. OnTop(call.tb, ToClose)
      BY <3>1 DEF HandleInv, ClosesOnTop
    <3> QED
      BY <2>1, <3>2 DEF OnTop, ToClose
  <2> QED
    BY <1>3, <1>5, <2>3, <2>4 DEF HandleInv, HandlesOK
<1> QED
  BY <1>6, <1>7 DEF Faults

\* Dropping what was pushed last restores the stack.
LEMMA DropsPushed ==
  ASSUME NEW s \in Seq(Slot), NEW x \in Slot
  PROVE  Closed(Append(s, x), Len(s) + 1) = s
<1>1. Len(s) \in Nat /\ Len(s) + 1 > 0 /\ (Len(s) + 1) - 1 = Len(s)
  OBVIOUS
<1>2. Closed(Append(s, x), Len(s) + 1) = SetTop(Append(s, x), Len(s))
  BY <1>1 DEF Closed
<1>3. SetTop(Append(s, x), Len(s)) = [i \in 1 .. Len(s) |-> s[i]]
  BY <1>1, AppendFacts DEF SetTop
<1> QED
  BY <1>2, <1>3

\* A row of a matrix is closed again by the step that opened it.
LEMMA RowOutcome ==
  ASSUME HandleInv, MatrixRow
  PROVE  stack' = stack /\ heap' \in Heap
<1>1. HandlesOK /\ TypeOK /\ stack \in Seq(Slot) /\ heap \in Heap
  BY DEF HandleInv, TypeOK, HandlesOK
<1>2. PICK o \in Resolve(stack, heap, Handle(call.tb), call.row) :
        /\ IF call.write
           THEN \E f \in [Pos -> Scalar] :
                  heap' = Stored(o.stack, o.heap, o.handle, f)
           ELSE heap' = o.heap
        /\ stack' = Closed(o.stack, o.handle)
  BY DEF MatrixRow
<1>3. call.tb \in Tbl /\ call.row \in Nat \ {0} /\ call.row <= Extent
      /\ IsOpen(call.tb)
  BY <1>1, CallFacts DEF MatrixRow, Phases
<1>4. /\ Handle(call.tb) \in Nat
      /\ Handle(call.tb) > 0 => /\ Handle(call.tb) <= Len(stack)
                                /\ stack[Handle(call.tb)] \in Ref
  BY <1>1, <1>3, CurrentHandle
<1>5. call.row \in Key
  BY <1>3, VMAssumption DEF Key, Pos
<1>6. /\ o.heap \in Heap
      /\ \/ /\ o.handle = Len(stack) + 1
            /\ \E x \in Ref : o.stack = Append(stack, x)
         \/ o.handle = 0 /\ o.stack = stack
  BY <1>1, <1>4, <1>5, ResolveOutcome
<1>7. /\ o.stack \in Seq(Slot) /\ o.handle \in Nat
      /\ o.handle > 0 => /\ o.handle <= Len(o.stack)
                         /\ o.stack[o.handle] \in Ref
      /\ Closed(o.stack, o.handle) = stack
  <2>1. CASE /\ o.handle = Len(stack) + 1
             /\ \E x \in Ref : o.stack = Append(stack, x)
    <3>1. PICK x \in Ref : o.stack = Append(stack, x)
      BY <2>1
    <3>2. x \in Slot
      BY DEF Slot
    <3>3. /\ o.stack \in Seq(Slot) /\ Len(o.stack) = Len(stack) + 1
          /\ o.stack[Len(stack) + 1] = x
          /\ Len(stack) \in Nat
      BY <1>1, <3>1, <3>2, AppendFacts
    <3>4. Closed(o.stack, o.handle) = stack
      BY <1>1, <2>1, <3>1, <3>2, DropsPushed
    <3> QED
      BY <2>1, <3>3, <3>4
  <2>2. CASE o.handle = 0 /\ o.stack = stack
    BY <1>1, <2>2 DEF Closed
  <2> QED
    BY <1>6, <2>1, <2>2
<1>8. heap' \in Heap
  <2>1. CASE call.write
    <3>1. PICK f \in [Pos -> Scalar] :
            heap' = Stored(o.stack, o.heap, o.handle, f)
      BY <1>2, <2>1
    <3> QED
      BY <1>6, <1>7, <3>1, StoredIsHeap
  <2>2. CASE ~call.write
    BY <1>2, <1>6, <2>2
  <2> QED
    BY <2>1, <2>2
<1> QED
  BY <1>2, <1>7, <1>8

\* The steps of an array call leave the levels and the stack alone.
LEMMA ArrayStepsKeep ==
  ASSUME HandleInv, OpenDone \/ Vector \/ MatrixRow \/ MatrixDone
  PROVE  HandleInv'
<1>1. HandlesOK /\ TypeOK /\ stack \in Seq(Slot) /\ heap \in Heap
  BY DEF HandleInv, TypeOK, HandlesOK
<1>2. pc \in Phases
  BY DEF OpenDone, Vector, MatrixRow, MatrixDone, Phases
<1>3. call.tb \in Tbl /\ call.row \in Nat \ {0}
  BY <1>1, <1>2, CallFacts
<1>4. CASE OpenDone
  <2>1. heap' \in Heap /\ UNCHANGED <<stack, levels, args, runs>>
    BY <1>1, <1>4 DEF OpenDone
  <2>2. \/ pc' = "idle" /\ call' = NoCall
        \/ /\ pc' \in {"vector", "matrix"}
           /\ IsArrayCall
           /\ call' = call
    BY <1>4 DEF OpenDone, Return, IsArrayCall
  <2> QED
    BY <1>2, <2>1, <2>2, StayKeeps
<1>5. CASE Vector
  <2>1. \/ heap' = heap
        \/ /\ IsOpen(call.tb)
           /\ \E f \in [Pos -> Scalar] :
                heap' = Stored(stack, heap, Handle(call.tb), f)
    BY <1>5 DEF Vector
  <2>2. heap' \in Heap
    BY <1>1, <1>3, <2>1, CurrentHandle, StoredIsHeap
  <2>3. IsArrayCall
    BY <1>5 DEF HandleInv, ArrayCallOK, Vector
  <2> QED
    BY <1>2, <1>5, <2>2, <2>3, StayKeeps DEF Vector
<1>6. CASE MatrixRow
  <2>1. IsArrayCall
    BY <1>6 DEF HandleInv, ArrayCallOK, MatrixRow
  <2>2. /\ call' = NextRow(call) /\ pc' = "matrix"
        /\ UNCHANGED <<levels, args, runs>>
    BY <1>6 DEF MatrixRow
  <2> QED
    BY <1>2, <1>6, <2>1, <2>2, RowOutcome, StayKeeps
<1>7. CASE MatrixDone
  <2>1. IsArrayCall
    BY <1>7 DEF HandleInv, ArrayCallOK, MatrixDone
  <2> QED
    BY <1>1, <1>2, <1>7, <2>1, StayKeeps DEF MatrixDone
<1> QED
  BY <1>4, <1>5, <1>6, <1>7

\* A fault leaves everything as it was.
LEMMA FaultsKeep ==
  ASSUME HandleInv, OpenNoParent \/ ClosedTable \/ OutOfMemory
  PROVE  HandleInv'
<1>1. /\ pc \in Phases /\ pc' \in Faults
      /\ UNCHANGED <<stack, heap, levels, call, args, runs>>
  BY DEF OpenNoParent, ClosedTable, OutOfMemory, Fault, Phases, Faults
<1>2. heap' \in Heap
  BY <1>1 DEF HandleInv, TypeOK
<1> QED
  BY <1>1, <1>2, StayKeeps

\* What follows a finished close: the call returns, or lua_close_open opens.
LEMMA AfterCloseKeeps ==
  ASSUME TypeOK, pc = "close", ArrayCallOK, HandlesOK',
         heap' \in Heap, runs' \in 0 .. MaxRuns, AfterClose
  PROVE  HandleInv'
<1>1. call \in Call /\ call.tb \in Tbl
  BY CallFacts DEF Phases
<1>2. CASE call.op = "reopen"
  <2>1. /\ pc' = "open"
        /\ call' = [call EXCEPT !.depth = Len(levels'[call.tb])]
    BY <1>2 DEF AfterClose
  <2>2. Len(levels'[call.tb]) \in Nat
    <3>1. levels'[call.tb] \in Seq(Nat)
      BY <1>1 DEF HandlesOK
    <3> QED
      BY <3>1
  <2>3. call' \in Call /\ call'.op = "reopen"
    BY <1>1, <1>2, <2>1, <2>2 DEF Call
  <2>4. TypeOK'
    BY <2>1, <2>3 DEF TypeOK, HandlesOK, Phases
  <2>5. ArrayCallOK' /\ ClosesOnTop'
    BY <2>1, <2>3 DEF ArrayCallOK, ClosesOnTop, IsArrayCall
  <2> QED
    BY <2>4, <2>5 DEF HandleInv, HandlesOK
<1>3. CASE call.op # "reopen"
  <2>1. pc' = "idle" /\ call' = NoCall
    BY <1>3 DEF AfterClose, Return
  <2>2. TypeOK'
    BY <2>1 DEF TypeOK, HandlesOK
  <2>3. ArrayCallOK' /\ ClosesOnTop'
    BY <2>1 DEF ArrayCallOK, ClosesOnTop, IsArrayCall
  <2> QED
    BY <2>2, <2>3 DEF HandleInv, HandlesOK
<1> QED
  BY <1>2, <1>3

\* tbl_close_ closes levels on top only, and what is left to close is on top.
LEMMA CloseStepsKeep ==
  ASSUME HandleInv, CloseLevel \/ CloseDone
  PROVE  HandleInv'
<1>1. /\ HandlesOK /\ TypeOK /\ ArrayCallOK
      /\ pc = "close" /\ heap' \in Heap /\ runs' \in 0 .. MaxRuns
      /\ args' = args
  BY DEF HandleInv, TypeOK, HandlesOK, CloseLevel, CloseDone
<1>2. /\ call \in Call /\ call.tb \in Tbl /\ call.mode \in Modes
      /\ call.lvls \in Int
  BY <1>1, CallFacts DEF Phases
<1>3. CASE CloseDone
  <2>1. HandlesOK' /\ AfterClose
    BY <1>1, <1>3, SameHandles DEF CloseDone
  <2> QED
    BY <1>1, <2>1, AfterCloseKeeps
<1>4. CASE CloseLevel
  <2>1. /\ IsOpen(call.tb)
        /\ call.mode \in {"count", "both"} => call.lvls > 0
        /\ stack' = Closed(stack, Handle(call.tb))
        /\ levels' = [levels EXCEPT ![call.tb] = SubSeq(@, 1, Len(@) - 1)]
    BY <1>2, <1>4 DEF CloseLevel, CloseEnds
  <2>2. OnTop(call.tb, ToClose)
    BY <1>1 DEF HandleInv, ClosesOnTop
  <2>3. /\ levels \in [Tbl -> Seq(Nat)]
        /\ Len(levels[call.tb]) \in Nat /\ Len(levels[call.tb]) > 0
        /\ Len(levels[call.tb]) \in DOMAIN levels[call.tb]
        /\ Handle(call.tb) = levels[call.tb][Len(levels[call.tb])]
    BY <1>1, <1>2, <2>1, CurrentHandle DEF HandlesOK
  <2>4. ToClose \in Int /\ ToClose > 0
    <3>1. CASE call.mode = "one"
      BY <3>1 DEF ToClose
    <3>2. CASE call.mode = "count"
      BY <1>2, <2>1, <3>2 DEF ToClose
    <3>3. CASE call.mode \in {"tree", "both"}
      BY <2>3, <3>3 DEF ToClose
    <3> QED
      BY <1>2, <3>1, <3>2, <3>3 DEF Modes
  <2>5. Handle(call.tb) > 0 =>
          \A u \in Tbl \ {call.tb} : \A i \in DOMAIN levels[u] :
            levels[u][i] < Handle(call.tb)
    <3>1. Len(levels[call.tb]) > Len(levels[call.tb]) - ToClose
      BY <2>3, <2>4
    <3> QED
      BY <2>2, <2>3, <3>1 DEF OnTop
  <2>6. HandlesOK'
    BY <1>1, <1>2, <2>1, <2>5, DropKeeps
  <2>7. CASE call.mode = "one"
    BY <1>1, <1>4, <2>6, <2>7, AfterCloseKeeps DEF CloseLevel
  <2>8. CASE call.mode # "one"
    <3>1. pc' = "close" /\ call' = Discounted(call)
      BY <1>1, <1>4, <2>8 DEF CloseLevel
    <3>2. /\ call' \in Call /\ call'.op = call.op /\ call'.tb = call.tb
          /\ call'.mode = IF call.mode = "both" THEN "tree" ELSE call.mode
          /\ call'.lvls = IF call.mode = "tree" THEN call.lvls
                          ELSE call.lvls - 1
      <4> DEFINE lv == IF call.mode = "tree" THEN call.lvls ELSE call.lvls - 1
                 md == IF call.mode = "both" THEN "tree" ELSE call.mode
      <4>1. lv \in Int /\ md \in Modes
        BY <1>2 DEF Modes
      <4>2. call' = [call EXCEPT !.lvls = lv, !.mode = md]
        BY <1>2, <3>1 DEF Discounted, Call
      <4> HIDE DEF lv, md
      <4>3. /\ call' \in Call /\ call'.op = call.op /\ call'.tb = call.tb
            /\ call'.mode = md /\ call'.lvls = lv
        BY <1>2, <4>1, <4>2 DEF Call
      <4> QED
        BY <4>3 DEF lv, md
    <3>3. TypeOK'
      BY <1>1, <2>6, <3>1, <3>2 DEF TypeOK, HandlesOK, Phases
    <3>4. ArrayCallOK'
      BY <1>1, <3>1, <3>2 DEF ArrayCallOK, IsArrayCall
    <3>5. ClosesOnTop'
      <4>1. ASSUME NEW t \in Tbl, t = call.tb, NEW n \in Int, n = ToClose
            PROVE  OnTop(t, n - 1)'
        BY <1>1, <2>1, <2>2, <4>1, DropOnTop
      <4>2. ToClose' = ToClose - 1
        <5>1. Len(levels'[call.tb]) = Len(levels[call.tb]) - 1
          BY <1>2, <2>1, <2>3, FrontFacts DEF IsOpen
        <5> QED
          BY <1>2, <2>8, <3>2, <5>1 DEF ToClose, Modes
      <4> QED
        BY <1>2, <2>4, <3>2, <4>1, <4>2 DEF ClosesOnTop, OnTop
    <3> QED
      BY <2>6, <3>3, <3>4, <3>5 DEF HandleInv, HandlesOK
  <2> QED
    BY <2>7, <2>8
<1> QED
  BY <1>3, <1>4

\* Storing a value moves no handle.
LEMMA SetFieldKeeps ==
  ASSUME HandleInv, NEW t \in Tbl, SetField(t)
  PROVE  HandleInv'
<1>1. /\ HandlesOK /\ pc = "idle" /\ IsOpen(t)
      /\ UNCHANGED <<stack, levels, pc, call, args, runs>>
      /\ heap \in Heap /\ stack \in Seq(Slot)
  BY DEF HandleInv, TypeOK, HandlesOK, SetField
<1>2. PICK k \in Name, v \in Scalar :
        heap' = Stored(stack, heap, Handle(t), [x \in {k} |-> v])
  BY DEF SetField
<1>3. heap' \in Heap
  BY <1>1, <1>2, CurrentHandle, StoredIsHeap
<1>4. HandlesOK'
  BY <1>1, SameHandles
<1>5. TypeOK'
  BY <1>1, <1>3, <1>4 DEF TypeOK, HandleInv, HandlesOK
<1>6. ArrayCallOK' /\ ClosesOnTop'
  BY <1>1 DEF ArrayCallOK, ClosesOnTop, IsArrayCall
<1> QED
  BY <1>4, <1>5, <1>6 DEF HandleInv, HandlesOK

\* At the start no table variable is open.
LEMMA InitHandles == Init => HandleInv
<1> SUFFICES ASSUME Init PROVE HandleInv
  OBVIOUS
<1>1. stack \in Seq(Slot) /\ Len(stack) \in Nat /\ args = Len(stack)
  BY TblAssumption DEF Init, Slot
<1>2. /\ levels = [t \in Tbl |-> <<>>] /\ pc = "idle" /\ call = NoCall
      /\ heap \in Heap /\ runs = 0
  BY TblAssumption DEF Init
<1>3. \A t \in Tbl : DOMAIN levels[t] = {}
  BY <1>2
<1>4. TypeOK
  BY <1>1, <1>2, TblAssumption DEF TypeOK
<1>5. HandlesValid /\ HandlesNested
  BY <1>3 DEF HandlesValid, HandlesNested
<1>7. SlotsOwned
  BY <1>1 DEF SlotsOwned
<1>8. ArrayCallOK /\ ClosesOnTop
  BY <1>2 DEF ArrayCallOK, ClosesOnTop, IsArrayCall
<1> QED
  BY <1>1, <1>4, <1>5, <1>7, <1>8 DEF HandleInv

\* No step of the program disturbs the handles.
LEMMA NextHandles == HandleInv /\ [Next]_vars => HandleInv'
<1> SUFFICES ASSUME HandleInv, [Next]_vars PROVE HandleInv'
  OBVIOUS
<1>1. ASSUME NEW t \in Tbl,
             Open(t) \/ Close(t) \/ Reopen(t) \/ Array(t) \/ TopOfNothing(t)
      PROVE  HandleInv'
  BY <1>1, CallsKeep
<1>2. ASSUME NEW t \in Tbl, SetField(t) PROVE HandleInv'
  BY <1>2, SetFieldKeeps
<1>3. ASSUME NEW t \in Tbl, TopTable(t) PROVE HandleInv'
  BY <1>3, TopTableKeeps
<1>4. CASE Run
  BY <1>4, RunKeeps
<1>5. CASE OpenBelow \/ OpenGlobal
  BY <1>5, OpenStepsKeep
<1>6. CASE OpenDone \/ Vector \/ MatrixRow \/ MatrixDone
  BY <1>6, ArrayStepsKeep
<1>7. CASE OpenNoParent \/ ClosedTable \/ OutOfMemory
  BY <1>7, FaultsKeep
<1>8. CASE CloseLevel \/ CloseDone
  BY <1>8, CloseStepsKeep
<1>9. CASE UNCHANGED vars
  <2>1. /\ UNCHANGED <<stack, levels, args>> /\ heap' = heap
        /\ pc' = pc /\ call' = call /\ runs' = runs
    BY <1>9 DEF vars
  <2>2. HandlesOK'
    BY <2>1, SameHandles DEF HandleInv, TypeOK, HandlesOK
  <2>3. TypeOK'
    BY <2>1 DEF HandleInv, TypeOK
  <2>4. ArrayCallOK'
    BY <2>1 DEF HandleInv, ArrayCallOK, IsArrayCall
  <2>5. ClosesOnTop'
    BY <2>1 DEF HandleInv, ClosesOnTop, OnTop, ToClose, IsArrayCall
  <2> QED
    BY <2>2, <2>3, <2>4, <2>5 DEF HandleInv, HandlesOK
<1> QED
  BY <1>1, <1>2, <1>3, <1>4, <1>5, <1>6, <1>7, <1>8, <1>9
     DEF Next, Step, Stopped

\* In every reachable state the handles of all table variables are positions
\* of tables above the frame's arguments, nested, and the owners of the whole
\* stack, and every call that closes levels closes levels on top.
THEOREM HandlesAreSafe == Spec => []HandleInv
<1>1. Init => HandleInv
  BY InitHandles
<1>2. HandleInv /\ [Next]_vars => HandleInv'
  BY NextHandles
<1> QED
  BY <1>1, <1>2, PTL DEF Spec

\* Every variable keeps its type, for every value of the constants.
THEOREM TypeCorrect == Spec => []TypeOK
<1>1. HandleInv => TypeOK
  BY DEF HandleInv
<1> QED
  BY <1>1, HandlesAreSafe, PTL

\* Whatever is opened, closed and run in between, the stack holds a table at the
\* handle of every open level, above the arguments of the frame.
THEOREM HandlesAreTables == Spec => []HandlesValid
<1>1. HandleInv => HandlesValid
  BY DEF HandleInv
<1> QED
  BY <1>1, HandlesAreSafe, PTL

\* In the list of parents of every variable the handles grow from the root to
\* the innermost level: closing a level leaves all of its parents on the stack.
THEOREM HandlesAreNested == Spec => []HandlesNested
<1>1. HandleInv => HandlesNested
  BY DEF HandleInv
<1> QED
  BY <1>1, HandlesAreSafe, PTL

\* At any time every slot above the arguments is the handle of a level or the
\* message of a script: lookups and calls leave nothing on the stack.
THEOREM NoSlotLeaks == Spec => []SlotsOwned
<1>1. HandleInv => SlotsOwned
  BY DEF HandleInv
<1> QED
  BY <1>1, HandlesAreSafe, PTL
----------------------------------------------------------------------------
(* Whose the slots are.                                                    *)

\* A level that is opened has no table, or a slot above all handles.
LEMMA OpenedApart ==
  ASSUME HandleInv, NEW t \in Tbl, NEW h \in Nat,
         h = 0 \/ h = Len(stack) + 1, Descend(t, h),
         NEW u \in Tbl, NEW w \in Tbl, u # w
  PROVE  (Handles(u) \cap Handles(w))'
           \subseteq (Handles(u) \cap Handles(w)) \cup {0}
<1>1. /\ levels \in [Tbl -> Seq(Nat)] /\ levels[t] \in Seq(Nat)
      /\ Len(stack) \in Nat /\ args \in Nat
  BY DEF HandleInv, TypeOK
<1>2. /\ \A x \in Tbl \ {t} : levels'[x] = levels[x]
      /\ DOMAIN levels'[t] = DOMAIN levels[t] \cup {Len(levels[t]) + 1}
      /\ \A i \in DOMAIN levels[t] : levels'[t][i] = levels[t][i]
      /\ levels'[t][Len(levels[t]) + 1] = h
  BY <1>1, AppendFacts DEF Descend
<1>3. \A x \in Tbl : \A n \in Handles(x)' :
        n \in Handles(x) \/ (x = t /\ n = h)
  BY <1>2 DEF Handles
<1>4. ASSUME NEW x \in Tbl, h \in Handles(x) PROVE h = 0
  <2>1. PICK i \in DOMAIN levels[x] : levels[x][i] = h
    BY <1>4 DEF Handles
  <2>2. h > 0 => h \in args + 1 .. Len(stack)
    BY <2>1 DEF HandleInv, HandlesValid
  <2> QED
    BY <1>1, <2>2
<1> SUFFICES ASSUME NEW n \in Handles(u)', n \in Handles(w)'
             PROVE  n \in (Handles(u) \cap Handles(w)) \cup {0}
  OBVIOUS
<1> QED
  BY <1>3, <1>4

\* A step that leaves every variable with levels it had shares no slot anew.
LEMMA FewerApart ==
  ASSUME \A t \in Tbl : Handles(t)' \subseteq Handles(t)
  PROVE  OpensApart
  BY DEF OpensApart

LEMMA NextApart ==
  ASSUME HandleInv, [Next]_vars, pc # "idle"
  PROVE  OpensApart
<1>1. CASE OpenBelow \/ OpenGlobal
  <2>1. PICK h \in Nat :
          (h = 0 \/ h = Len(stack) + 1) /\ Descend(call.tb, h)
    BY <1>1, OpenOutcome
  <2>2. call.tb \in Tbl
    BY <1>1, CallFacts DEF HandleInv, OpenBelow, OpenGlobal, Phases
  <2> QED
    BY <2>1, <2>2, OpenedApart DEF OpensApart
<1>2. CASE CloseLevel
  <2>1. call.tb \in Tbl /\ IsOpen(call.tb) /\ levels \in [Tbl -> Seq(Nat)]
    BY <1>2, CallFacts DEF HandleInv, TypeOK, CloseLevel, CloseEnds, Phases
  <2>2. levels' = [levels EXCEPT ![call.tb] = SubSeq(@, 1, Len(@) - 1)]
    BY <1>2 DEF CloseLevel
  <2>3. ASSUME NEW t \in Tbl
        PROVE  Handles(t)' \subseteq Handles(t)
    <3>1. CASE t = call.tb
      <4> DEFINE rest == SubSeq(levels[t], 1, Len(levels[t]) - 1)
      <4>1. /\ levels[t] \in Seq(Nat) /\ levels[t] # <<>>
            /\ levels'[t] = rest
        BY <2>1, <2>2, <3>1 DEF IsOpen
      <4>2. /\ DOMAIN rest \subseteq DOMAIN levels[t]
            /\ \A i \in DOMAIN rest : rest[i] = levels[t][i]
        BY <4>1, FrontFacts
      <4> HIDE DEF rest
      <4> QED
        BY <4>1, <4>2 DEF Handles
    <3>2. CASE t # call.tb
      BY <2>1, <2>2, <3>2 DEF Handles
    <3> QED
      BY <3>1, <3>2
  <2> QED
    BY <2>3, FewerApart
<1>3. CASE levels' = levels
  BY <1>3, FewerApart DEF Handles
<1>4. CASE Step /\ ~(OpenBelow \/ OpenGlobal \/ CloseLevel)
  BY <1>3, <1>4
     DEF Step, OpenNoParent, OpenDone, Vector, MatrixRow, MatrixDone,
         ClosedTable, CloseDone, OutOfMemory, Fault
<1>5. CASE Stopped \/ UNCHANGED vars
  BY <1>3, <1>5 DEF Stopped, vars
<1>6. ASSUME NEW t \in Tbl,
             \/ Open(t) \/ Close(t) \/ Reopen(t) \/ Array(t)
             \/ SetField(t) \/ TopTable(t) \/ TopOfNothing(t)
      PROVE  FALSE
  BY <1>6
     DEF Open, Close, Reopen, Array, SetArray, GetArray, SetField, TopTable,
         TopOfNothing, Begin
<1>7. ~Run
  BY DEF Run
<1> QED
  BY <1>1, <1>2, <1>4, <1>5, <1>6, <1>7 DEF Next

\* However the calls of several table variables follow each other on one stack,
\* no step of one gives it a slot that another variable holds.
THEOREM HandlesAreApart == Spec => OpensStayApart
<1>1. HandleInv /\ [Next]_vars => [OpensApart]_vars
  BY NextApart DEF OpensApart
<1> QED
  BY <1>1, HandlesAreSafe, PTL DEF Spec, OpensStayApart
=============================================================================
