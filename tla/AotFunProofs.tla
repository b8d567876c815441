----------------------------- MODULE AotFunProofs -----------------------------
(***************************************************************************)
(* Proofs about AotFun, for every number of functions, values, slots and    *)
(* results, if the program hands no result back as an argument.             *)
(***************************************************************************)
EXTENDS AotFun, SeqLemmas

----------------------------------------------------------------------------
(* What the invariant says of a function in numbers.                       *)

\* The slots behind a function.
LEMMA BehindBounds ==
  ASSUME NEW h \in Nat, NEW n \in Nat \cup {-1}
  PROVE  /\ h + n + 2 \in Nat /\ h + n + 2 > h
         /\ n # -1 => h + n + 2 > h + 1
<1>1. n \in Int /\ n >= -1 /\ (n # -1 => n \in Nat)
  OBVIOUS
<1> QED
  BY <1>1

\* The types of a variable's components.
LEMMA VariableFacts ==
  ASSUME TypeOK, NEW f \in Fun
  PROVE  /\ fun[f].handle \in Nat /\ fun[f].arg_count \in Nat \cup {-1}
         /\ Behind(f) \in Nat /\ Behind(f) > fun[f].handle
         /\ fun[f].arg_count # -1 => Behind(f) > fun[f].handle + 1
         /\ Top \in Nat /\ stack \in Seq(Item)
<1>1. fun[f] \in Variable /\ stack \in Seq(Item)
  BY DEF TypeOK
<1>2. fun[f].handle \in Nat /\ fun[f].arg_count \in Nat \cup {-1}
  BY <1>1 DEF Variable
<1>3. Top \in Nat
  BY <1>1 DEF Top
<1>4. /\ Behind(f) \in Nat /\ Behind(f) > fun[f].handle
      /\ fun[f].arg_count # -1 => Behind(f) > fun[f].handle + 1
  BY <1>2, BehindBounds, Zenon DEF Behind
<1> QED
  BY <1>1, <1>2, <1>3, <1>4, Zenon

\* A function that is open below the one on top ends below its handle.
LEMMA BelowTop ==
  ASSUME FunInv, NEW f \in Fun, OnTop(f), NEW g \in Fun, IsOpen(g), g # f
  PROVE  Behind(g) <= fun[f].handle /\ ~OnTop(g)
<1>1. /\ fun[g].handle <= fun[f].handle /\ fun[f].handle > 0
      /\ IsOpen(f)
  BY DEF OnTop, IsOpen
<1>2. \/ fun[g].handle >= Behind(f)
      \/ fun[f].handle >= Behind(g)
  BY <1>1 DEF FunInv, FunsApart
<1>3. /\ Behind(f) > fun[f].handle /\ Behind(f) \in Nat /\ Behind(g) \in Nat
      /\ fun[f].handle \in Nat /\ fun[g].handle \in Nat
      /\ Behind(g) > fun[g].handle
  BY VariableFacts DEF FunInv
<1>4. Behind(g) <= fun[f].handle /\ ~(fun[f].handle <= fun[g].handle)
  BY <1>1, <1>2, <1>3
<1> QED
  BY <1>4 DEF OnTop

----------------------------------------------------------------------------
(* The steps of the function on top.                                       *)

\* A step that gives the function on top another count, and changes the stack
\* above its handle only.
Recounts(f, n) ==
  /\ fun' = [fun EXCEPT ![f].arg_count = n]
  /\ fault' \in {"none", "stopped", "no function"}
  /\ stack' \in Seq(Item) /\ Len(stack') >= fun[f].handle
  /\ \A i \in 1 .. fun[f].handle : stack'[i] = stack[i]
  /\ n # -1 => /\ Len(stack') + 1 = fun[f].handle + n + 2
               /\ stack'[fun[f].handle + 1] = fun[f].id

\* Such a step keeps the invariant.
LEMMA TopStep ==
  ASSUME FunInv, NEW f \in Fun, OnTop(f), NEW n \in Nat \cup {-1},
         Recounts(f, n)
  PROVE  FunInv'
<1>1. TypeOK'
  BY DEF FunInv, TypeOK, Variable, Recounts
<1>2. /\ fun'[f].handle = fun[f].handle /\ fun'[f].id = fun[f].id
      /\ fun'[f].arg_count = n
      /\ \A g \in Fun : g # f => fun'[g] = fun[g]
      /\ \A g \in Fun : fun'[g].handle = fun[g].handle
  BY DEF FunInv, TypeOK, Variable, Recounts
<1>3. /\ \A g \in Fun : IsOpen(g)' <=> IsOpen(g)
      /\ \A g \in Fun : g # f => Behind(g)' = Behind(g)
      /\ \A g \in Fun : OnTop(g)' <=> OnTop(g)
  BY <1>2 DEF IsOpen, OnTop, Behind
<1>4. /\ fun[f].handle \in Nat /\ fun[f].handle > 0
      /\ IsOpen(f)
  BY VariableFacts DEF FunInv, OnTop, IsOpen
<1>5. /\ Len(stack') \in Nat /\ Len(stack') >= fun[f].handle
      /\ Top' = Len(stack')
  <2>1. stack' \in Seq(Item) /\ Len(stack') >= fun[f].handle
    BY DEF Recounts
  <2>2. Len(stack') \in Nat
    BY <2>1
  <2> QED
    BY <2>1, <2>2, Zenon DEF Top
<1>6. \A g \in Fun : IsOpen(g) /\ g # f =>
        /\ fun[g].handle \in Nat /\ fun[g].handle > 0 /\ Behind(g) \in Nat
        /\ Behind(g) <= fun[f].handle /\ Behind(g) > fun[g].handle
        /\ fun[g].arg_count # -1 => Behind(g) > fun[g].handle + 1
        /\ ~OnTop(g)
  BY BelowTop, VariableFacts DEF FunInv, IsOpen
<1>7. \A i \in 1 .. fun[f].handle : stack'[i] = stack[i]
  BY DEF Recounts
<1>8. HandleHolds'
  <2>1. SUFFICES ASSUME NEW g \in Fun, IsOpen(g)
                 PROVE  /\ fun[g].handle <= Len(stack')
                        /\ stack'[fun[g].handle] = fun'[g].id
    BY <1>2, <1>3, <1>5 DEF HandleHolds
  <2>2. fun'[g].id = fun[g].id
    BY <1>2
  <2>3. /\ fun[g].handle \in Nat /\ fun[g].handle > 0
        /\ fun[g].handle <= fun[f].handle
    <3>1. CASE g = f
      BY <1>4, <3>1
    <3>2. CASE g # f
      <4>1. /\ fun[g].handle \in Nat /\ fun[g].handle > 0
            /\ Behind(g) \in Nat /\ Behind(g) <= fun[f].handle
            /\ Behind(g) > fun[g].handle
        BY <1>6, <2>1, <3>2
      <4> QED
        BY <1>4, <4>1
    <3> QED
      BY <3>1, <3>2
  <2>4. stack[fun[g].handle] = fun[g].id
    BY <2>1 DEF FunInv, HandleHolds
  <2>5. fun[g].handle \in 1 .. fun[f].handle /\ fun[g].handle <= Len(stack')
    BY <1>4, <1>5, <2>3
  <2> QED
    BY <1>7, <2>2, <2>4, <2>5
<1>9. CallReady'
  <2>1. SUFFICES ASSUME NEW g \in Fun, IsOpen(g)', fun'[g].arg_count # -1
                 PROVE  /\ Behind(g)' <= Top' + 1
                        /\ stack'[fun'[g].handle + 1] = fun'[g].id
                        /\ OnTop(g)' => Top' + 1 = Behind(g)'
                        /\ \A k \in Fun : fun'[k].handle > fun'[g].handle =>
                             \E e \in Fun : fun'[e].handle = Behind(g)'
    BY DEF CallReady
  <2>2. CASE g = f
    <3>1. Behind(f)' = fun[f].handle + n + 2
      BY <1>2 DEF Behind
    <3>2. /\ n # -1
          /\ Len(stack') + 1 = fun[f].handle + n + 2
          /\ stack'[fun[f].handle + 1] = fun[f].id
      BY <1>2, <2>1, <2>2 DEF Recounts
    <3>3. ASSUME NEW k \in Fun, fun'[k].handle > fun'[f].handle
          PROVE  FALSE
      <4>1. fun[k].handle <= fun[f].handle /\ fun[k].handle \in Nat
        BY VariableFacts DEF FunInv, OnTop
      <4>2. fun[k].handle > fun[f].handle
        BY <1>2, <3>3
      <4> QED
        BY <1>4, <4>1, <4>2
    <3>4. Behind(f)' = Top' + 1 /\ Behind(f)' <= Top' + 1
      BY <1>5, <3>1, <3>2
    <3> QED
      BY <1>2, <2>2, <3>2, <3>3, <3>4
  <2>3. CASE g # f
    <3>1. IsOpen(g) /\ fun'[g] = fun[g] /\ fun[g].arg_count # -1
      BY <1>2, <1>3, <2>1, <2>3
    <3>2. /\ stack[fun[g].handle + 1] = fun[g].id
          /\ \A k \in Fun : fun[k].handle > fun[g].handle =>
               \E e \in Fun : fun[e].handle = Behind(g)
      BY <3>1 DEF FunInv, CallReady
    <3>3. /\ fun[g].handle \in Nat /\ Behind(g) \in Nat
          /\ Behind(g) <= fun[f].handle /\ Behind(g) > fun[g].handle + 1
          /\ ~OnTop(g)
      BY <1>6, <2>3, <3>1
    <3>4. /\ fun[g].handle + 1 \in 1 .. fun[f].handle
          /\ Behind(g) <= Len(stack') + 1
      BY SMTT(30), <1>4, <1>5, <3>3
    <3>5. stack'[fun'[g].handle + 1] = fun'[g].id
      BY <1>7, <3>1, <3>2, <3>4
    <3>6. Behind(g)' = Behind(g) /\ ~OnTop(g)'
      BY <1>3, <2>3, <3>3
    <3>7. \A k \in Fun : fun'[k].handle > fun'[g].handle =>
            \E e \in Fun : fun'[e].handle = Behind(g)'
      BY <1>2, <3>2, <3>6
    <3> QED
      BY <1>5, <3>4, <3>5, <3>6, <3>7
  <2> QED
    BY <2>2, <2>3
<1>10. FunsApart'
  <2>1. SUFFICES ASSUME NEW g \in Fun, NEW k \in Fun, IsOpen(g), IsOpen(k), g # k
                 PROVE  \/ fun[g].handle >= Behind(k)'
                        \/ fun[k].handle >= Behind(g)'
    BY <1>2, <1>3 DEF FunsApart
  <2>2. CASE g = f
    <3>1. Behind(k) \in Nat /\ Behind(k) <= fun[f].handle
      BY <1>6, <2>1, <2>2
    <3> QED
      BY <1>3, <1>4, <2>1, <2>2, <3>1
  <2>3. CASE k = f
    <3>1. Behind(g) \in Nat /\ Behind(g) <= fun[f].handle
      BY <1>6, <2>1, <2>3
    <3> QED
      BY <1>3, <1>4, <2>1, <2>3, <3>1
  <2>4. CASE g # f /\ k # f
    BY <1>3, <2>1, <2>4 DEF FunInv, FunsApart
  <2> QED
    BY <2>2, <2>3, <2>4
<1> QED
  BY <1>1, <1>8, <1>9, <1>10 DEF FunInv

\* One more value on the stack of a function that can be called is one more
\* argument.
LEMMA NextArgument ==
  ASSUME FunInv, NEW f \in Fun, OnTop(f), fun[f].arg_count # -1,
         NEW v \in Item, stack' = Append(stack, v), fault' = "none",
         fun' = [fun EXCEPT ![f].arg_count = fun[f].arg_count + 1]
  PROVE  Recounts(f, fun[f].arg_count + 1)
<1>1. /\ fun[f].handle \in Nat /\ fun[f].arg_count \in Nat
      /\ stack \in Seq(Item) /\ Len(stack) \in Nat
  BY VariableFacts DEF FunInv, Top
<1>2. /\ Len(stack) + 1 = fun[f].handle + fun[f].arg_count + 2
      /\ stack[fun[f].handle + 1] = fun[f].id
  BY DEF FunInv, CallReady, Behind, Top, OnTop
<1>3. /\ stack' \in Seq(Item) /\ Len(stack') = Len(stack) + 1
      /\ \A i \in 1 .. Len(stack) : stack'[i] = stack[i]
  BY <1>1, AppendFacts
<1>4. /\ \A i \in 1 .. fun[f].handle : i \in 1 .. Len(stack)
      /\ fun[f].handle + 1 \in 1 .. Len(stack)
  BY SMTT(30), <1>1, <1>2
<1>5. /\ Len(stack') >= fun[f].handle
      /\ Len(stack') + 1 = fun[f].handle + (fun[f].arg_count + 1) + 2
  <2>1. DEFINE h == fun[f].handle
               n == fun[f].arg_count
               k == Len(stack)
               l == Len(stack')
  <2>2. /\ h \in Nat /\ n \in Nat /\ k \in Nat
        /\ k + 1 = h + n + 2 /\ l = k + 1
    BY <1>1, <1>2, <1>3
  <2> HIDE DEF h, n, k, l
  <2>3. l >= h /\ l + 1 = h + (n + 1) + 2
    BY <2>2
  <2> QED
    BY <2>3 DEF h, n, k, l
<1>6. /\ \A i \in 1 .. fun[f].handle : stack'[i] = stack[i]
      /\ stack'[fun[f].handle + 1] = fun[f].id
  BY <1>2, <1>3, <1>4
<1>7. fault' \in {"none", "stopped", "no function"}
  OBVIOUS
<1>8. DEFINE n == fun[f].arg_count + 1
<1>9. /\ fun' = [fun EXCEPT ![f].arg_count = n]
      /\ Len(stack') + 1 = fun[f].handle + n + 2
  BY <1>5
<1> HIDE DEF n
<1>10. Recounts(f, n)
  BY <1>3, <1>5, <1>6, <1>7, <1>9 DEF Recounts
<1> QED
  BY <1>10 DEF n

\* What is put, whatever was put before, is the next argument.
LEMMA PutRecounts ==
  ASSUME FunInv, NEW f \in Fun, Put(f)
  PROVE  \E n \in Nat \cup {-1} : Recounts(f, n)
<1>1. /\ OnTop(f) /\ IsOpen(f) /\ fun[f].handle > 0
  BY DEF Put, OnTop, IsOpen
<1>2. /\ fun[f].handle \in Nat /\ fun[f].arg_count \in Nat \cup {-1}
      /\ Top \in Nat /\ stack \in Seq(Item) /\ Len(stack) \in Nat
  BY VariableFacts DEF FunInv, Top
<1>3. fun[f].handle <= Len(stack) /\ stack[fun[f].handle] = fun[f].id
  BY <1>1 DEF FunInv, HandleHolds, Top
<1>4. fault' = "none"
  BY DEF Put
<1>5. PICK v \in Val : stack' = Append(Reset(f).stack, v)
  BY DEF Put
<1>6. fun' = [fun EXCEPT ![f].arg_count = Reset(f).count + 1]
  BY DEF Put
<1>7. v \in Item
  BY DEF Item
<1>8. CASE fun[f].arg_count = -1
  <2>1. DEFINE low == SubSeq(stack, 1, fun[f].handle)
               two == Append(low, stack[fun[f].handle])
  <2>2. /\ low \in Seq(Item) /\ Len(low) = fun[f].handle
        /\ \A i \in 1 .. fun[f].handle : low[i] = stack[i]
    BY <1>1, <1>2, <1>3, SubSeqFacts
  <2>3. stack[fun[f].handle] \in Item
    BY <1>1, <1>2, <1>3
  <2>4. /\ two \in Seq(Item) /\ Len(two) = fun[f].handle + 1
        /\ \A i \in 1 .. fun[f].handle : two[i] = low[i]
        /\ two[fun[f].handle + 1] = stack[fun[f].handle]
    <3> HIDE DEF low
    <3> QED
      BY <2>2, <2>3, AppendFacts
  <2>5. Reset(f).stack = two /\ Reset(f).count = 0
    BY <1>8 DEF Reset
  <2>6. stack' = Append(two, v) /\ fun' = [fun EXCEPT ![f].arg_count = 1]
    BY <1>5, <1>6, <2>5
  <2> HIDE DEF low, two
  <2>7. /\ stack' \in Seq(Item) /\ Len(stack') = fun[f].handle + 2
        /\ \A i \in 1 .. fun[f].handle + 1 : stack'[i] = two[i]
    BY SMTT(30), <1>2, <1>7, <2>4, <2>6, AppendFacts
  <2>8. Recounts(f, 1)
    <3>1. \A i \in 1 .. fun[f].handle : i \in 1 .. fun[f].handle + 1
      BY <1>2
    <3>2. \A i \in 1 .. fun[f].handle : stack'[i] = stack[i]
      BY <2>2, <2>4, <2>7, <3>1
    <3>3. stack'[fun[f].handle + 1] = fun[f].id
      BY SMTT(30), <1>2, <1>3, <2>4, <2>7
    <3>4. /\ Len(stack') >= fun[f].handle
          /\ Len(stack') + 1 = fun[f].handle + 1 + 2
      BY <1>2, <2>7
    <3> QED
      BY <1>4, <2>6, <2>7, <3>2, <3>3, <3>4 DEF Recounts
  <2> QED
    BY <2>8
<1>9. CASE fun[f].arg_count # -1
  <2>1. /\ stack' = Append(stack, v)
        /\ fun' = [fun EXCEPT ![f].arg_count = fun[f].arg_count + 1]
    BY <1>5, <1>6, <1>9 DEF Reset
  <2>2. fun[f].arg_count + 1 \in Nat \cup {-1}
    BY <1>2, <1>9
  <2> QED
    BY <1>1, <1>4, <1>7, <1>9, <2>1, <2>2, NextArgument
<1> QED
  BY <1>8, <1>9

\* After a call, a top that is not the only value above the function is no
\* argument.
LEMMA PutTopIgnored ==
  ASSUME FunInv, ~TopAfterCall, NEW f \in Fun, PutTop(f),
         fun[f].arg_count = -1
  PROVE  Recounts(f, -1)
<1>1. /\ IsOpen(f) /\ fault' = "none"
  BY DEF PutTop, OnTop
<1>2. /\ fun[f].handle \in Nat /\ stack \in Seq(Item) /\ Len(stack) \in Nat
  BY VariableFacts DEF FunInv, Top
<1>3. fun[f].handle <= Len(stack)
  BY <1>1 DEF FunInv, HandleHolds, Top
<1>4. PICK s \in {stack} \cup {Append(stack, v) : v \in Val} :
        /\ Len(s) # fun[f].handle + 1
        /\ stack' = s /\ fun' = [fun EXCEPT ![f].arg_count = CountTop(f, s)]
  BY DEF PutTop
<1>5. /\ s \in Seq(Item) /\ Len(s) \in Nat /\ Len(s) >= Len(stack)
      /\ \A i \in 1 .. Len(stack) : s[i] = stack[i]
  <2>1. CASE s = stack
    BY <1>2, <2>1
  <2>2. ASSUME NEW v \in Val, s = Append(stack, v)
        PROVE  <1>5
    <3>1. v \in Item
      BY DEF Item
    <3>2. /\ s \in Seq(Item) /\ Len(s) = Len(stack) + 1
          /\ \A i \in 1 .. Len(stack) : s[i] = stack[i]
      BY <1>2, <2>2, <3>1, AppendFacts
    <3> QED
      BY <1>2, <3>2
  <2> QED
    BY <1>4, <2>1, <2>2
<1>6. CountTop(f, s) = -1
  <2>1. CountTop(f, s) = IF Len(s) - (-1) = fun[f].handle + 2 THEN (-1) + 1
                                                              ELSE -1
    BY <1>4 DEF CountTop
  <2>2. Len(s) - (-1) # fun[f].handle + 2
    BY <1>2, <1>4, <1>5
  <2> QED
    BY <2>1, <2>2
<1>7. /\ stack' = s /\ fun' = [fun EXCEPT ![f].arg_count = -1]
  BY <1>4, <1>6
<1>8. \A i \in 1 .. fun[f].handle : stack'[i] = stack[i]
  BY <1>2, <1>3, <1>5, <1>7
<1> QED
  BY <1>1, <1>2, <1>3, <1>5, <1>7, <1>8 DEF Recounts

\* Until the call, a top that was pushed becomes an argument.
LEMMA PutTopCounts ==
  ASSUME FunInv, NEW f \in Fun, PutTop(f), fun[f].arg_count # -1
  PROVE  \E n \in Nat \cup {-1} : Recounts(f, n)
<1>1. /\ OnTop(f) /\ IsOpen(f) /\ fault' = "none"
  BY DEF PutTop, OnTop
<1>2. /\ fun[f].handle \in Nat /\ fun[f].arg_count \in Nat
      /\ stack \in Seq(Item) /\ Len(stack) \in Nat
  BY <1>1, VariableFacts DEF FunInv, Top
<1>3. /\ Len(stack) + 1 = fun[f].handle + fun[f].arg_count + 2
      /\ stack[fun[f].handle + 1] = fun[f].id
  BY <1>1 DEF FunInv, CallReady, Behind, Top
<1>4. PICK s \in {stack} \cup {Append(stack, v) : v \in Val} :
        stack' = s /\ fun' = [fun EXCEPT ![f].arg_count = CountTop(f, s)]
  BY DEF PutTop
<1>5. CountTop(f, s) = IF Len(s) - fun[f].arg_count = fun[f].handle + 2
                       THEN fun[f].arg_count + 1 ELSE fun[f].arg_count
  BY <1>1 DEF CountTop
<1>6. CASE s = stack
  <2>1. Len(stack) - fun[f].arg_count # fun[f].handle + 2
    <3> DEFINE l == Len(stack)
               h == fun[f].handle
               c == fun[f].arg_count
    <3>1. l \in Nat /\ h \in Nat /\ c \in Nat /\ l + 1 = h + c + 2
      BY <1>2, <1>3
    <3> HIDE DEF l, h, c
    <3>2. l - c # h + 2
      BY <3>1
    <3> QED
      BY <3>2 DEF l, h, c
  <2>2. /\ stack' = stack
        /\ fun' = [fun EXCEPT ![f].arg_count = fun[f].arg_count]
    BY <1>4, <1>5, <1>6, <2>1
  <2>3. Len(stack) >= fun[f].handle
    BY <1>2, <1>3
  <2>4. Recounts(f, fun[f].arg_count)
    BY <1>1, <1>2, <1>3, <2>2, <2>3 DEF Recounts
  <2> QED
    BY <1>2, <2>4
<1>7. ASSUME NEW v \in Val, s = Append(stack, v)
      PROVE  \E n \in Nat \cup {-1} : Recounts(f, n)
  <2>1. v \in Item
    BY DEF Item
  <2>2. Len(s) = Len(stack) + 1
    BY <1>2, <1>7, <2>1, AppendFacts
  <2>3. Len(s) - fun[f].arg_count = fun[f].handle + 2
    BY SMTT(30), <1>2, <1>3, <2>2
  <2>4. /\ stack' = Append(stack, v)
        /\ fun' = [fun EXCEPT ![f].arg_count = fun[f].arg_count + 1]
    BY <1>4, <1>5, <1>7, <2>3
  <2>5. fun[f].arg_count + 1 \in Nat \cup {-1}
    BY <1>2
  <2> QED
    BY <1>1, <2>1, <2>4, <2>5, NextArgument
<1> QED
  BY <1>4, <1>6, <1>7

\* Such a step gives the function another count, or the one it has.
LEMMA PutTopRecounts ==
  ASSUME FunInv, ~TopAfterCall, NEW f \in Fun, PutTop(f)
  PROVE  \E n \in Nat \cup {-1} : Recounts(f, n)
<1>1. -1 \in Nat \cup {-1}
  OBVIOUS
<1> QED
  BY <1>1, PutTopIgnored, PutTopCounts

\* A call replaces the copy of the function and its arguments.
LEMMA DoRecounts ==
  ASSUME FunInv, NEW f \in Fun, Do(f)
  PROVE  \E n \in Nat \cup {-1} : Recounts(f, n)
<1>1. /\ OnTop(f) /\ IsOpen(f) /\ fun[f].arg_count # -1
      /\ fun' = [fun EXCEPT ![f].arg_count = -1]
  BY DEF Do, OnTop
<1>2. /\ fun[f].handle \in Nat /\ fun[f].arg_count \in Nat
      /\ stack \in Seq(Item) /\ Len(stack) \in Nat
  BY <1>1, VariableFacts DEF FunInv, Top
<1>3. Len(stack) + 1 = fun[f].handle + fun[f].arg_count + 2
  BY <1>1 DEF FunInv, CallReady, Behind, Top
<1>4. PICK r \in Seq(Item) : Pcall(fun[f].arg_count, r)
  <2>1. CASE \E n \in 0 .. MaxResults : \E r \in [1 .. n -> Val] :
               Pcall(fun[f].arg_count, r)
    <3>1. PICK n \in 0 .. MaxResults : \E r \in [1 .. n -> Val] :
               Pcall(fun[f].arg_count, r)
      BY <2>1
    <3>2. PICK r \in [1 .. n -> Val] : Pcall(fun[f].arg_count, r)
      BY <3>1
    <3>3. n \in Nat
      BY FunAssumption
    <3>4. r \in Seq(Item)
      BY <3>2, <3>3 DEF Item
    <3> QED
      BY <3>2, <3>4
  <2>2. CASE Pcall(fun[f].arg_count, <<Message>>)
    <3>1. <<Message>> \in Seq(Item)
      BY DEF Item
    <3> QED
      BY <2>2, <3>1
  <2> QED
    BY <2>1, <2>2 DEF Do
<1>5. fault' \in {"none", "stopped"}
  BY DEF Do
<1>6. stack' = SubSeq(stack, 1, fun[f].handle) \o r
  <2>1. Len(stack) - fun[f].arg_count - 1 = fun[f].handle
    BY SMTT(30), <1>2, <1>3
  <2> QED
    BY <1>4, <2>1 DEF Pcall, Top
<1>7. fun[f].handle <= Len(stack)
  BY <1>2, <1>3
<1>8. DEFINE low == SubSeq(stack, 1, fun[f].handle)
<1>9. /\ low \in Seq(Item) /\ Len(low) = fun[f].handle
      /\ \A i \in 1 .. fun[f].handle : low[i] = stack[i]
  BY <1>2, <1>7, SubSeqFacts
<1> HIDE DEF low
<1>10. stack' = low \o r
  BY <1>6 DEF low
<1>11. /\ stack' \in Seq(Item) /\ Len(stack') = Len(low) + Len(r)
       /\ \A i \in 1 .. Len(low) : stack'[i] = low[i]
  BY <1>4, <1>9, <1>10, ConcatFacts
<1>12. Len(stack') >= fun[f].handle
  BY <1>2, <1>4, <1>9, <1>11
<1>13. \A i \in 1 .. fun[f].handle : stack'[i] = stack[i]
  BY <1>9, <1>11
<1>14. Recounts(f, -1)
  BY <1>1, <1>5, <1>11, <1>12, <1>13 DEF Recounts
<1> QED
  BY <1>14

----------------------------------------------------------------------------
(* The other steps.                                                        *)

\* aot_fun_close removes the function on top; what lies below it is on top then.
LEMMA CloseStep ==
  ASSUME FunInv, NEW f \in Fun, Close(f)
  PROVE  FunInv'
<1>1. /\ OnTop(f) /\ IsOpen(f) /\ fault' = "none"
      /\ stack' = SubSeq(stack, 1, fun[f].handle - 1)
      /\ fun' = [fun EXCEPT ![f] = Closed]
  BY DEF Close, OnTop
<1>2. /\ fun[f].handle \in Nat /\ fun[f].handle > 0
      /\ stack \in Seq(Item) /\ Len(stack) \in Nat
  BY <1>1, VariableFacts DEF FunInv, Top, IsOpen
<1>3. fun[f].handle <= Len(stack)
  BY <1>1 DEF FunInv, HandleHolds, Top
<1>4. DEFINE m == fun[f].handle - 1
<1>5. m \in Nat /\ m <= Len(stack) /\ m + 1 = fun[f].handle
  BY <1>2, <1>3
<1>6. stack' = SubSeq(stack, 1, m)
  BY <1>1
<1> HIDE DEF m
<1>7. /\ stack' \in Seq(Item) /\ Len(stack') = m /\ Top' = m
      /\ \A i \in 1 .. m : stack'[i] = stack[i]
  BY <1>2, <1>5, <1>6, SubSeqFacts DEF Top
<1>8. TypeOK'
  <2>1. Closed \in Variable
    BY DEF Closed, Variable
  <2> QED
    BY <1>1, <1>7, <2>1 DEF FunInv, TypeOK
<1>9. /\ fun'[f] = Closed
      /\ \A g \in Fun : g # f => fun'[g] = fun[g]
  BY <1>1 DEF FunInv, TypeOK
<1>10. /\ ~IsOpen(f)'
       /\ \A g \in Fun : g # f => /\ IsOpen(g)' <=> IsOpen(g)
                                  /\ Behind(g)' = Behind(g)
  BY <1>9 DEF IsOpen, Behind, Closed
<1>11. \A g \in Fun : IsOpen(g)' => IsOpen(g) /\ g # f
  BY <1>10
<1>12. \A g \in Fun : IsOpen(g) /\ g # f =>
         /\ fun[g].handle \in Nat /\ fun[g].handle > 0 /\ Behind(g) \in Nat
         /\ Behind(g) <= m + 1 /\ Behind(g) > fun[g].handle
         /\ fun[g].arg_count # -1 => Behind(g) > fun[g].handle + 1
  BY <1>1, <1>5, BelowTop, VariableFacts DEF FunInv, IsOpen
<1>13. HandleHolds'
  <2>1. SUFFICES ASSUME NEW g \in Fun, IsOpen(g)'
                 PROVE  /\ fun'[g].handle <= Top'
                        /\ stack'[fun'[g].handle] = fun'[g].id
    BY DEF HandleHolds
  <2>2. IsOpen(g) /\ g # f /\ fun'[g] = fun[g]
    BY <1>9, <1>11, <2>1
  <2>3. fun[g].handle \in 1 .. m /\ fun[g].handle <= m
    BY <1>5, <1>12, <2>2
  <2>4. stack[fun[g].handle] = fun[g].id
    BY <2>2 DEF FunInv, HandleHolds
  <2> QED
    BY <1>7, <2>2, <2>3, <2>4
<1>14. CallReady'
  <2>1. SUFFICES ASSUME NEW g \in Fun, IsOpen(g)', fun'[g].arg_count # -1
                 PROVE  /\ Behind(g)' <= Top' + 1
                        /\ stack'[fun'[g].handle + 1] = fun'[g].id
                        /\ OnTop(g)' => Top' + 1 = Behind(g)'
                        /\ \A k \in Fun : fun'[k].handle > fun'[g].handle =>
                             \E e \in Fun : fun'[e].handle = Behind(g)'
    BY DEF CallReady
  <2>2. /\ IsOpen(g) /\ g # f /\ fun'[g] = fun[g] /\ Behind(g)' = Behind(g)
        /\ fun[g].arg_count # -1
    BY <1>9, <1>10, <1>11, <2>1
  <2>3. /\ fun[g].handle \in Nat /\ fun[g].handle > 0 /\ Behind(g) \in Nat
        /\ Behind(g) <= m + 1 /\ Behind(g) > fun[g].handle + 1
    BY <1>12, <2>2
  <2>4. /\ stack[fun[g].handle + 1] = fun[g].id
        /\ \A k \in Fun : fun[k].handle > fun[g].handle =>
             \E e \in Fun : fun[e].handle = Behind(g)
    BY <2>2 DEF FunInv, CallReady
  <2>5. fun[g].handle + 1 \in 1 .. m
    BY <1>5, <2>3
  <2>6. fun[f].handle > fun[g].handle
    BY <1>5, <2>3
  <2>7. PICK e \in Fun : fun[e].handle = Behind(g)
    BY <2>4, <2>6
  <2>8. CASE e = f
    <3>1. Behind(g) = m + 1
      BY <1>5, <2>7, <2>8
    <3>2. ASSUME NEW k \in Fun, fun'[k].handle > fun'[g].handle
          PROVE  FALSE
      <4>1. k # f
        <5>1. CASE k = f
          <6>1. fun'[k].handle = 0
            BY <1>9, <5>1 DEF Closed
          <6> QED
            BY <2>2, <2>3, <3>2, <6>1
        <5> QED
          BY <5>1
      <4>2. fun'[k] = fun[k] /\ fun[k].handle > fun[g].handle
        BY <1>9, <2>2, <3>2, <4>1
      <4>3. fun[k].handle \in Nat
        BY VariableFacts DEF FunInv
      <4>4. IsOpen(k) /\ k # g
        BY <2>3, <4>2, <4>3 DEF IsOpen
      <4>5. Behind(k) \in Nat /\ Behind(k) <= m + 1 /\ Behind(k) > fun[k].handle
        BY <1>12, <4>1, <4>4
      <4>6. fun[k].handle >= Behind(g) \/ fun[g].handle >= Behind(k)
        BY <2>2, <4>4 DEF FunInv, FunsApart
      <4> QED
        BY <1>5, <2>3, <3>1, <4>2, <4>3, <4>5, <4>6
    <3> QED
      BY <1>7, <2>2, <2>4, <2>5, <3>1, <3>2
  <2>9. CASE e # f
    <3>1. fun'[e].handle = Behind(g)' /\ fun'[e].handle = fun[e].handle
      BY <1>9, <2>2, <2>7, <2>9
    <3>2. ~(fun'[e].handle <= fun'[g].handle)
      BY <2>2, <2>3, <2>7, <3>1
    <3>3. ~OnTop(g)'
      BY <3>2 DEF OnTop
    <3> QED
      BY <1>7, <2>2, <2>3, <2>4, <2>5, <3>1, <3>3
  <2> QED
    BY <2>8, <2>9
<1>15. FunsApart'
  BY <1>9, <1>10, <1>11 DEF FunInv, FunsApart
<1> QED
  BY <1>8, <1>13, <1>14, <1>15 DEF FunInv

\* aot_fun_open pushes a function and its copy above everything.
LEMMA OpenStep ==
  ASSUME FunInv, NEW f \in Fun, Open(f)
  PROVE  FunInv'
<1>1. /\ ~IsOpen(f) /\ fault' = "none" /\ stack \in Seq(Item) /\ Top \in Nat
      /\ fun[f].handle \in Nat
  BY VariableFacts DEF Open, FunInv
<1>2. PICK x \in Code \cup Val :
        /\ x \in Val => \A g \in Fun : ~IsOpen(g)
        /\ OpenTop(f, x)
  BY DEF Open
<1>3. x \in Item
  BY DEF Item
<1>4. CASE x \in Code
  <2>1. /\ stack' = stack \o <<x, x>>
        /\ fun' = [fun EXCEPT ![f] = [handle |-> Top + 1, arg_count |-> 0,
                                      id |-> x]]
    BY <1>2, <1>4 DEF OpenTop
  <2>2. <<x, x>> \in Seq(Item) /\ Len(<<x, x>>) = 2
    BY <1>3
  <2>3. /\ stack' \in Seq(Item) /\ Len(stack') = Len(stack) + 2
        /\ \A i \in 1 .. Len(stack) : stack'[i] = stack[i]
    BY <1>1, <2>1, <2>2, ConcatFacts
  <2>4. stack'[Top + 1] = x /\ stack'[Top + 2] = x
    BY <1>1, <1>3, <2>1 DEF Top
  <2>5. /\ fun'[f].handle = Top + 1 /\ fun'[f].arg_count = 0 /\ fun'[f].id = x
        /\ \A g \in Fun : g # f => fun'[g] = fun[g]
    BY <2>1 DEF FunInv, TypeOK
  <2>6. Top' = Top + 2 /\ Behind(f)' = Top + 3
    BY <1>1, <2>3, <2>5 DEF Top, Behind
  <2>7. TypeOK'
    <3>1. [handle |-> Top + 1, arg_count |-> 0, id |-> x] \in Variable
      BY <1>1, <1>4 DEF Variable
    <3> QED
      BY <1>1, <2>1, <2>3, <3>1 DEF FunInv, TypeOK
  <2>8. \A g \in Fun : g # f => /\ IsOpen(g)' <=> IsOpen(g)
                                /\ Behind(g)' = Behind(g)
    BY <2>5 DEF IsOpen, Behind
  <2>9. ASSUME NEW g \in Fun, IsOpen(g)
        PROVE  /\ g # f /\ fun[g].handle \in Nat /\ fun[g].handle > 0
               /\ fun[g].handle <= Top /\ stack[fun[g].handle] = fun[g].id
               /\ Behind(g) \in Nat /\ Behind(g) <= Top + 1
               /\ Behind(g) > fun[g].handle
               /\ fun[g].arg_count # -1 => Behind(g) > fun[g].handle + 1
    <3>1. /\ g # f /\ fun[g].handle \in Nat /\ fun[g].handle > 0
          /\ Behind(g) \in Nat /\ Behind(g) > fun[g].handle
          /\ fun[g].arg_count # -1 => Behind(g) > fun[g].handle + 1
      BY <1>1, <2>9, VariableFacts DEF FunInv, IsOpen
    <3>2. fun[g].handle <= Top /\ stack[fun[g].handle] = fun[g].id
      BY <2>9 DEF FunInv, HandleHolds
    <3>3. CASE fun[g].arg_count = -1
      <4>1. Behind(g) = fun[g].handle + 1
        BY <3>1, <3>3 DEF Behind
      <4> QED
        BY <1>1, <3>1, <3>2, <4>1
    <3>4. CASE fun[g].arg_count # -1
      BY <2>9, <3>1, <3>2, <3>4 DEF FunInv, CallReady
    <3> QED
      BY <3>3, <3>4
  <2>10. HandleHolds'
    <3>1. SUFFICES ASSUME NEW g \in Fun, IsOpen(g)'
                   PROVE  /\ fun'[g].handle <= Top'
                          /\ stack'[fun'[g].handle] = fun'[g].id
      BY DEF HandleHolds
    <3>2. CASE g = f
      BY <1>1, <2>4, <2>5, <2>6, <3>2
    <3>3. CASE g # f
      <4>1. IsOpen(g) /\ fun'[g] = fun[g]
        BY <2>5, <2>8, <3>1, <3>3
      <4>2. /\ fun[g].handle \in 1 .. Len(stack)
            /\ stack[fun[g].handle] = fun[g].id
            /\ fun[g].handle <= Top + 2
        BY <1>1, <2>9, <4>1 DEF Top
      <4> QED
        BY <2>3, <2>6, <4>1, <4>2
    <3> QED
      BY <3>2, <3>3
  <2>11. CallReady'
    <3>1. SUFFICES ASSUME NEW g \in Fun, IsOpen(g)', fun'[g].arg_count # -1
                   PROVE  /\ Behind(g)' <= Top' + 1
                          /\ stack'[fun'[g].handle + 1] = fun'[g].id
                          /\ OnTop(g)' => Top' + 1 = Behind(g)'
                          /\ \A k \in Fun : fun'[k].handle > fun'[g].handle =>
                               \E e \in Fun : fun'[e].handle = Behind(g)'
      BY DEF CallReady
    <3>2. CASE g = f
      <4>1. ASSUME NEW k \in Fun, fun'[k].handle > fun'[f].handle
            PROVE  FALSE
        <5>1. CASE k = f
          BY <1>1, <2>5, <4>1, <5>1
        <5>2. CASE k # f
          <6>1. fun[k].handle > Top + 1 /\ fun[k].handle \in Nat
            BY <2>5, <4>1, <5>2, VariableFacts DEF FunInv
          <6>2. IsOpen(k)
            BY <1>1, <6>1 DEF IsOpen
          <6> QED
            BY <1>1, <2>9, <6>1, <6>2
        <5> QED
          BY <5>1, <5>2
      <4>2. Behind(f)' <= Top' + 1 /\ Top' + 1 = Behind(f)'
        BY <1>1, <2>6
      <4>3. stack'[fun'[f].handle + 1] = x
        BY <1>1, <2>4, <2>5
      <4> QED
        BY <2>5, <3>2, <4>1, <4>2, <4>3
    <3>3. CASE g # f
      <4>1. /\ IsOpen(g) /\ fun'[g] = fun[g] /\ Behind(g)' = Behind(g)
            /\ fun[g].arg_count # -1
        BY <2>5, <2>8, <3>1, <3>3
      <4>2. /\ fun[g].handle \in Nat /\ fun[g].handle <= Top
            /\ Behind(g) \in Nat /\ Behind(g) <= Top + 1
            /\ Behind(g) > fun[g].handle + 1
        BY <2>9, <4>1
      <4>3. /\ stack[fun[g].handle + 1] = fun[g].id
            /\ OnTop(g) => Top + 1 = Behind(g)
            /\ \A k \in Fun : fun[k].handle > fun[g].handle =>
                 \E e \in Fun : fun[e].handle = Behind(g)
        BY <4>1 DEF FunInv, CallReady
      <4>4. stack'[fun'[g].handle + 1] = fun'[g].id
        <5>1. fun[g].handle + 1 \in 1 .. Len(stack)
          BY <1>1, <4>2 DEF Top
        <5> QED
          BY <2>3, <4>1, <4>3, <5>1
      <4>5. ~OnTop(g)'
        <5>1. ~(fun'[f].handle <= fun'[g].handle)
          BY <1>1, <2>5, <4>1, <4>2
        <5> QED
          BY <5>1 DEF OnTop
      <4>6. \E e \in Fun : fun'[e].handle = Behind(g)'
        <5>1. CASE \E e \in Fun : fun[e].handle = Behind(g)
          <6>1. PICK e \in Fun : fun[e].handle = Behind(g)
            BY <5>1
          <6>2. IsOpen(e)
            BY <4>2, <6>1 DEF IsOpen
          <6>3. e # f
            BY <1>1, <6>2
          <6> QED
            BY <2>5, <4>1, <6>1, <6>3
        <5>2. CASE OnTop(g)
          BY <2>5, <4>1, <4>3, <5>2
        <5>3. CASE \E k \in Fun : ~(fun[k].handle <= fun[g].handle)
          <6>1. PICK k \in Fun : ~(fun[k].handle <= fun[g].handle)
            BY <5>3
          <6>2. fun[k].handle \in Nat
            BY VariableFacts DEF FunInv
          <6>3. fun[k].handle > fun[g].handle
            BY <4>2, <6>1, <6>2
          <6> QED
            BY <4>3, <5>1, <6>3
        <5> QED
          BY <4>1, <5>2, <5>3 DEF OnTop
      <4>7. Behind(g)' <= Top' + 1
        BY <1>1, <2>6, <4>1, <4>2
      <4> QED
        BY <4>4, <4>5, <4>6, <4>7
    <3> QED
      BY <3>2, <3>3
  <2>12. FunsApart'
    <3>1. SUFFICES ASSUME NEW g \in Fun, NEW k \in Fun, IsOpen(g)', IsOpen(k)',
                          g # k
                   PROVE  \/ fun'[g].handle >= Behind(k)'
                          \/ fun'[k].handle >= Behind(g)'
      BY DEF FunsApart
    <3>2. CASE g = f
      <4>1. IsOpen(k) /\ Behind(k)' = Behind(k)
        BY <2>8, <3>1, <3>2
      <4>2. Behind(k) \in Nat /\ Behind(k) <= Top + 1
        BY <2>9, <4>1
      <4> QED
        BY <1>1, <2>5, <3>2, <4>1, <4>2
    <3>3. CASE k = f
      <4>1. IsOpen(g) /\ Behind(g)' = Behind(g)
        BY <2>8, <3>1, <3>3
      <4>2. Behind(g) \in Nat /\ Behind(g) <= Top + 1
        BY <2>9, <4>1
      <4> QED
        BY <1>1, <2>5, <3>3, <4>1, <4>2
    <3>4. CASE g # f /\ k # f
      BY <2>5, <2>8, <3>1, <3>4 DEF FunInv, FunsApart
    <3> QED
      BY <3>2, <3>3, <3>4
  <2> QED
    BY <2>7, <2>10, <2>11, <2>12 DEF FunInv
<1>5. CASE x \notin Code
  <2>1. /\ stack' = Append(stack, x) /\ fun' = [fun EXCEPT ![f] = Closed]
        /\ \A g \in Fun : ~IsOpen(g)
    BY <1>2, <1>5 DEF OpenTop
  <2>2. stack' \in Seq(Item)
    BY <1>1, <1>3, <2>1, AppendFacts
  <2>3. Closed \in Variable /\ Closed.handle = 0
    BY DEF Closed, Variable
  <2>4. TypeOK'
    BY <1>1, <2>1, <2>2, <2>3 DEF FunInv, TypeOK
  <2>5. ASSUME NEW g \in Fun
        PROVE  ~IsOpen(g)'
    <3>1. fun'[g] = fun[g] \/ fun'[g] = Closed
      BY <2>1 DEF FunInv, TypeOK
    <3> QED
      BY <2>1, <2>3, <3>1 DEF IsOpen
  <2> QED
    BY <2>4, <2>5 DEF FunInv, HandleHolds, CallReady, FunsApart
<1> QED
  BY <1>4, <1>5

\* What the program takes belongs to no function that can be called.
LEMMA TakeBehind ==
  ASSUME FunInv, Take, NEW g \in Fun, IsOpen(g), fun[g].arg_count # -1
  PROVE  Behind(g) <= Top /\ ~OnTop(g)
<1>1. /\ fun[g].handle \in Nat /\ fun[g].handle > 0 /\ Behind(g) \in Nat
      /\ Behind(g) > fun[g].handle + 1 /\ Top \in Nat
  BY VariableFacts DEF FunInv, IsOpen
<1>2. /\ OnTop(g) => Top + 1 = Behind(g)
      /\ \A k \in Fun : fun[k].handle > fun[g].handle =>
           \E e \in Fun : fun[e].handle = Behind(g)
  BY DEF FunInv, CallReady
<1>3. ~OnTop(g)
  <2>1. CASE OnTop(g)
    <3>1. Top >= Behind(g) /\ Top + 1 = Behind(g)
      BY <1>2, <2>1 DEF Take
    <3> QED
      BY <1>1, <3>1
  <2> QED
    BY <2>1
<1>4. PICK k \in Fun : ~(fun[k].handle <= fun[g].handle)
  BY <1>3 DEF OnTop
<1>5. fun[k].handle \in Nat
  BY VariableFacts DEF FunInv
<1>6. fun[k].handle > fun[g].handle
  BY <1>1, <1>4, <1>5
<1>7. PICK e \in Fun : fun[e].handle = Behind(g)
  BY <1>2, <1>6
<1>8. IsOpen(e)
  BY <1>1, <1>7 DEF IsOpen
<1>9. Behind(g) <= Top
  BY <1>7, <1>8 DEF FunInv, HandleHolds
<1> QED
  BY <1>3, <1>9

\* The program takes what is no part of a function from the top.
LEMMA TakeStep ==
  ASSUME FunInv, Take
  PROVE  FunInv'
<1>1. /\ fault' = fault /\ fun' = fun /\ stack' = SubSeq(stack, 1, Top - 1)
      /\ Top > 0
  BY DEF Take
<1>2. stack \in Seq(Item) /\ Top \in Nat
  <2>1. stack \in Seq(Item)
    BY DEF FunInv, TypeOK
  <2> QED
    BY <2>1 DEF Top
<1>3. DEFINE m == Top - 1
<1>4. m \in Nat /\ m <= Len(stack) /\ m + 1 = Top
  BY <1>1, <1>2 DEF Top
<1>5. stack' = SubSeq(stack, 1, m)
  BY <1>1
<1> HIDE DEF m
<1>6. /\ stack' \in Seq(Item) /\ Top' = m
      /\ \A i \in 1 .. m : stack'[i] = stack[i]
  BY <1>2, <1>4, <1>5, SubSeqFacts DEF Top
<1>7. TypeOK'
  BY <1>1, <1>6 DEF FunInv, TypeOK
<1>8. \A g \in Fun : /\ IsOpen(g)' <=> IsOpen(g)
                     /\ Behind(g)' = Behind(g)
                     /\ OnTop(g)' <=> OnTop(g)
  BY <1>1 DEF IsOpen, Behind, OnTop
<1>9. ASSUME NEW g \in Fun, OnTop(g)
      PROVE  Top >= Behind(g)
  BY <1>9 DEF Take
<1>10. HandleHolds'
  <2>1. SUFFICES ASSUME NEW g \in Fun, IsOpen(g)
                 PROVE  /\ fun[g].handle <= Top'
                        /\ stack'[fun[g].handle] = fun[g].id
    BY <1>1, <1>8 DEF HandleHolds
  <2>2. /\ fun[g].handle \in Nat /\ fun[g].handle > 0 /\ Behind(g) \in Nat
        /\ Behind(g) > fun[g].handle
    BY <2>1, VariableFacts DEF FunInv, IsOpen
  <2>3. fun[g].handle <= m
    <3>1. CASE OnTop(g)
      <4>1. Top >= Behind(g)
        BY <1>9, <3>1
      <4> QED
        BY <1>4, <2>2, <4>1
    <3>2. CASE ~OnTop(g)
      <4>1. PICK k \in Fun : ~(fun[k].handle <= fun[g].handle)
        BY <2>1, <3>2 DEF OnTop
      <4>2. fun[k].handle \in Nat
        BY VariableFacts DEF FunInv
      <4>3. IsOpen(k)
        BY <2>2, <4>1, <4>2 DEF IsOpen
      <4>4. fun[k].handle <= Top
        BY <4>3 DEF FunInv, HandleHolds
      <4> QED
        BY <1>2, <1>4, <2>2, <4>1, <4>2, <4>4
    <3> QED
      BY <3>1, <3>2
  <2>4. stack[fun[g].handle] = fun[g].id
    BY <2>1 DEF FunInv, HandleHolds
  <2>5. fun[g].handle \in 1 .. m
    BY <1>4, <2>2, <2>3
  <2> QED
    BY <1>6, <2>3, <2>4, <2>5
<1>11. CallReady'
  <2>1. SUFFICES ASSUME NEW g \in Fun, IsOpen(g), fun[g].arg_count # -1
                 PROVE  /\ Behind(g) <= Top' + 1
                        /\ stack'[fun[g].handle + 1] = fun[g].id
                        /\ OnTop(g) => Top' + 1 = Behind(g)
                        /\ \A k \in Fun : fun[k].handle > fun[g].handle =>
                             \E e \in Fun : fun[e].handle = Behind(g)
    BY <1>1, <1>8 DEF CallReady
  <2>2. /\ fun[g].handle \in Nat /\ fun[g].handle > 0 /\ Behind(g) \in Nat
        /\ Behind(g) > fun[g].handle + 1
    BY <2>1, VariableFacts DEF FunInv, IsOpen
  <2>3. /\ stack[fun[g].handle + 1] = fun[g].id
        /\ \A k \in Fun : fun[k].handle > fun[g].handle =>
             \E e \in Fun : fun[e].handle = Behind(g)
    BY <2>1 DEF FunInv, CallReady
  <2>4. Behind(g) <= Top /\ ~OnTop(g)
    BY <2>1, TakeBehind
  <2>5. fun[g].handle + 1 \in 1 .. m /\ Behind(g) <= m + 1
    BY <1>2, <1>4, <2>2, <2>4
  <2> QED
    BY <1>6, <2>3, <2>4, <2>5
<1>12. FunsApart'
  BY <1>1, <1>8 DEF FunInv, FunsApart
<1> QED
  BY <1>7, <1>10, <1>11, <1>12 DEF FunInv

\* A step that only ends the program keeps the invariant.
LEMMA StutterStep ==
  ASSUME FunInv, stack' = stack, fun' = fun,
         fault' \in {"none", "stopped", "no function"}
  PROVE  FunInv'
<1>1. TypeOK'
  BY DEF FunInv, TypeOK
<1>2. \A g \in Fun : /\ IsOpen(g)' <=> IsOpen(g)
                     /\ Behind(g)' = Behind(g)
                     /\ OnTop(g)' <=> OnTop(g)
  BY DEF IsOpen, Behind, OnTop
<1>3. Top' = Top
  BY DEF Top
<1>4. HandleHolds'
  BY <1>2, <1>3 DEF FunInv, HandleHolds
<1>5. CallReady'
  BY <1>2, <1>3 DEF FunInv, CallReady
<1>6. FunsApart'
  BY <1>2 DEF FunInv, FunsApart
<1> QED
  BY <1>1, <1>4, <1>5, <1>6 DEF FunInv

----------------------------------------------------------------------------
(* The theorems.                                                           *)

\* Nothing is open initially.
LEMMA FunInitially == Init => FunInv
<1>1. SUFFICES ASSUME Init
               PROVE  FunInv
  OBVIOUS
<1>2. TypeOK
  <2>1. <<>> \in Seq(Item)
    OBVIOUS
  <2>2. Closed \in Variable
    BY DEF Closed, Variable
  <2>3. fun \in [Fun -> Variable]
    BY <1>1, <2>2 DEF Init
  <2> QED
    BY <1>1, <2>1, <2>3 DEF Init, TypeOK
<1>3. \A f \in Fun : ~IsOpen(f)
  <2>1. \A f \in Fun : fun[f] = Closed
    BY <1>1 DEF Init
  <2>2. Closed.handle = 0 /\ ~(0 > 0)
    BY DEF Closed
  <2>3. \A f \in Fun : fun[f].handle = 0
    BY <2>1, <2>2
  <2> QED
    BY <2>2, <2>3, Zenon DEF IsOpen
<1> QED
  BY <1>2, <1>3 DEF FunInv, HandleHolds, CallReady, FunsApart

\* A program that does not put, with aot_fun_put_top, the only value above a
\* function that was called finds every function that it has opened at its
\* handle, with its copy and its arguments above it until it is called, and
\* apart from every other one, whatever the functions return.
THEOREM FunctionsAreSafe ==
  ASSUME ~TopAfterCall
  PROVE  Spec => []FunInv
<1>1. Init => FunInv
  BY FunInitially
<1>2. FunInv /\ [Next]_vars => FunInv'
  <2>1. SUFFICES ASSUME FunInv, [Next]_vars
                 PROVE  FunInv'
    OBVIOUS
  <2>2. ASSUME NEW f \in Fun, Open(f)
        PROVE  FunInv'
    BY <2>1, <2>2, OpenStep
  <2>3. ASSUME NEW f \in Fun, Put(f)
        PROVE  FunInv'
    BY <2>1, <2>3, PutRecounts, TopStep DEF Put
  <2>4. ASSUME NEW f \in Fun, PutTop(f)
        PROVE  FunInv'
    BY <2>1, <2>4, PutTopRecounts, TopStep DEF PutTop
  <2>5. ASSUME NEW f \in Fun, Do(f)
        PROVE  FunInv'
    BY <2>1, <2>5, DoRecounts, TopStep DEF Do
  <2>6. ASSUME NEW f \in Fun, DoAgain(f)
        PROVE  FunInv'
    <3>1. stack' = stack /\ fun' = fun /\ fault' = "no function"
      BY <2>6 DEF DoAgain
    <3> QED
      BY <2>1, <3>1, StutterStep
  <2>7. ASSUME NEW f \in Fun, Close(f)
        PROVE  FunInv'
    BY <2>1, <2>7, CloseStep
  <2>8. CASE Take
    BY <2>1, <2>8, TakeStep
  <2>9. CASE UNCHANGED vars
    <3>1. stack' = stack /\ fun' = fun /\ fault' = fault
      BY <2>9 DEF vars
    <3>2. fault \in {"none", "stopped", "no function"}
      BY <2>1 DEF FunInv, TypeOK
    <3> QED
      BY <2>1, <3>1, <3>2, StutterStep
  <2> QED
    BY <2>1, <2>2, <2>3, <2>4, <2>5, <2>6, <2>7, <2>8, <2>9 DEF Next, Over
<1> QED
  BY <1>1, <1>2, PTL DEF Spec

\* Such a program can call every function that is open and not called yet.
THEOREM FunctionsAreCallable ==
  ASSUME ~TopAfterCall
  PROVE  Spec => []CallReady
<1>1. FunInv => CallReady
  BY DEF FunInv
<1> QED
  BY <1>1, FunctionsAreSafe, PTL
=============================================================================
