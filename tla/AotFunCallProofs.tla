--------------------------- MODULE AotFunCallProofs ---------------------------
(***************************************************************************)
(* Proof that AotFun implements the calls of FunCalls, if the program hands *)
(* no result back as an argument.                                          *)
(***************************************************************************)
EXTENDS AotFunProofs

----------------------------------------------------------------------------
(* The functions and the arguments that FunCalls sees.                     *)

Opened == [f \in Fun |-> fun[f].id]

Args(f) == IF IsOpen(f) /\ fun[f].arg_count # -1
           THEN SubSeq(stack, fun[f].handle + 2, Behind(f) - 1)
           ELSE <<>>

Given == [f \in Fun |-> Args(f)]

\* A value that is appended to what Given has is put.
LEMMA PutMaps ==
  ASSUME NEW f \in Fun, NEW v \in Item, Opened[f] # None,
         Given' = [Given EXCEPT ![f] = Append(Args(f), v)],
         Opened' = Opened, called' = called
  PROVE  Calls!Put(f)
<1>1. Given' = [Given EXCEPT ![f] = Append(@, v)]
  BY DEF Given
<1> QED
  BY <1>1 DEF Calls!Put, Given, Opened, Args

\* The last call is the one with what Given has, which is empty then.
LEMMA CallMaps ==
  ASSUME NEW f \in Fun, Opened[f] # None,
         called' = <<Opened[f], Args(f)>>,
         Given' = [Given EXCEPT ![f] = <<>>], Opened' = Opened
  PROVE  Calls!Call(f)
<1>1. called' = <<Opened[f], Given[f]>>
  BY DEF Given
<1> QED
  BY <1>1 DEF Calls!Call, Given, Opened, Args

\* Opened gets the function of a variable that had none.
LEMMA OpenMaps ==
  ASSUME NEW f \in Fun, NEW c \in Code, Opened[f] = None,
         Opened' = [Opened EXCEPT ![f] = c], Given' = Given, called' = called
  PROVE  Calls!Open(f)
BY DEF Calls!Open, Given, Opened, Args

\* A closed variable has neither function nor arguments.
LEMMA CloseMaps ==
  ASSUME NEW f \in Fun, Opened' = [Opened EXCEPT ![f] = None],
         Given' = [Given EXCEPT ![f] = <<>>], called' = called
  PROVE  Calls!Close(f)
BY DEF Calls!Close, Given, Opened, Args

\* Whatever keeps Opened, Given and the last call is no step of FunCalls.
LEMMA StutterMaps ==
  ASSUME Opened' = Opened, Given' = Given, called' = called
  PROVE  UNCHANGED Calls!vars
BY DEF Calls!vars, Given, Opened, Args

\* A variable that is not open is as a closed one.
CallInv ==
  /\ FunInv
  /\ \A f \in Fun : ~IsOpen(f) => fun[f] = Closed

\* A variable has a function exactly if it is open.
LEMMA OpenedFacts ==
  ASSUME CallInv, NEW f \in Fun
  PROVE  /\ IsOpen(f) <=> fun[f].id # None
         /\ ~IsOpen(f) => fun[f] = Closed /\ Args(f) = <<>>
<1>1. CASE IsOpen(f)
  <2>1. /\ fun[f].handle \in Nat /\ fun[f].handle > 0 /\ fun[f].handle <= Top
        /\ stack \in Seq(Item) /\ stack[fun[f].handle] = fun[f].id
    BY <1>1, VariableFacts DEF CallInv, FunInv, HandleHolds, IsOpen
  <2>2. fun[f].handle \in 1 .. Len(stack)
    BY <2>1 DEF Top
  <2>3. fun[f].id \in Item
    BY <2>1, <2>2
  <2> QED
    BY <1>1, <2>3, FunAssumption
<1>2. CASE ~IsOpen(f)
  <2>1. fun[f] = Closed /\ fun[f].id = None
    BY <1>2 DEF CallInv, Closed
  <2> QED
    BY <1>2, <2>1 DEF Args
<1> QED
  BY <1>1, <1>2

\* The arguments of the function on top are what lies above its copy.
LEMMA ArgsOnTop ==
  ASSUME FunInv, NEW f \in Fun, OnTop(f), fun[f].arg_count # -1
  PROVE  /\ Args(f) = SubSeq(stack, fun[f].handle + 2, Top)
         /\ Top = fun[f].handle + 1 + fun[f].arg_count
<1>1. /\ fun[f].handle \in Nat /\ fun[f].arg_count \in Nat /\ Top \in Nat
      /\ IsOpen(f)
  BY VariableFacts DEF FunInv, OnTop
<1>2. Top + 1 = fun[f].handle + fun[f].arg_count + 2
  <2>1. Top + 1 = Behind(f)
    BY <1>1 DEF FunInv, CallReady
  <2> QED
    BY <2>1 DEF Behind
<1>3. Behind(f) - 1 = Top /\ Top = fun[f].handle + 1 + fun[f].arg_count
  <2>1. DEFINE h == fun[f].handle
               n == fun[f].arg_count
               t == Top
  <2>2. h \in Nat /\ n \in Nat /\ t \in Nat /\ t + 1 = h + n + 2
    BY <1>1, <1>2
  <2>3. Behind(f) = h + n + 2
    BY DEF Behind
  <2> HIDE DEF h, n, t
  <2>4. Behind(f) - 1 = t /\ t = h + 1 + n
    BY <2>2, <2>3
  <2> QED
    BY <2>4 DEF h, n, t
<1> QED
  BY <1>1, <1>3 DEF Args

\* A step that keeps a variable, and the stack as far as its arguments reach,
\* keeps its arguments.
LEMMA SameArgs ==
  ASSUME FunInv, NEW g \in Fun, fun'[g] = fun[g], stack' \in Seq(Item),
         NEW m \in Nat, m <= Len(stack), m <= Len(stack'),
         \A i \in 1 .. m : stack'[i] = stack[i],
         IsOpen(g) /\ fun[g].arg_count # -1 => Behind(g) <= m + 1
  PROVE  Args(g)' = Args(g)
<1>1. /\ IsOpen(g)' <=> IsOpen(g)
      /\ Behind(g)' = Behind(g)
  BY DEF IsOpen, Behind
<1>2. CASE IsOpen(g) /\ fun[g].arg_count # -1
  <2>1. DEFINE k == fun[g].handle + 2
               n == Behind(g) - 1
  <2>2. /\ fun[g].handle \in Nat /\ Behind(g) \in Nat /\ Behind(g) <= m + 1
        /\ Behind(g) > fun[g].handle + 1 /\ stack \in Seq(Item)
    BY <1>2, VariableFacts DEF FunInv
  <2>3. /\ k \in Nat \ {0} /\ n \in Nat /\ k <= n + 1 /\ n <= m
    BY SMTT(30), <2>2
  <2>4. /\ Args(g) = SubSeq(stack, k, n)
        /\ Args(g)' = SubSeq(stack', k, n)
    BY <1>1, <1>2 DEF Args
  <2> HIDE DEF k, n
  <2>5. n <= Len(stack) /\ n <= Len(stack') /\ k <= Len(stack) + 1
    BY <2>2, <2>3
  <2>6. \A i \in 1 .. n : stack'[i] = stack[i]
    BY <2>3
  <2>7. SubSeq(stack', k, n) = SubSeq(stack, k, n)
    BY <2>2, <2>3, <2>5, <2>6, SegmentFacts
  <2> QED
    BY <2>4, <2>7
<1>3. CASE ~(IsOpen(g) /\ fun[g].arg_count # -1)
  BY <1>1, <1>3 DEF Args
<1> QED
  BY <1>2, <1>3

\* A step of the function on top keeps the functions and the other arguments.
LEMMA OthersKeep ==
  ASSUME CallInv, NEW f \in Fun, OnTop(f), NEW n \in Nat \cup {-1},
         Recounts(f, n)
  PROVE  /\ CallInv'
         /\ Opened' = Opened
         /\ Given' = [Given EXCEPT ![f] = Args(f)']
         /\ fun'[f].handle = fun[f].handle /\ fun'[f].arg_count = n
         /\ OnTop(f)'
<1>1. FunInv'
  BY TopStep DEF CallInv
<1>2. /\ fun'[f].handle = fun[f].handle /\ fun'[f].id = fun[f].id
      /\ fun'[f].arg_count = n
      /\ \A g \in Fun : g # f => fun'[g] = fun[g]
      /\ \A g \in Fun : fun'[g].handle = fun[g].handle
  BY DEF CallInv, FunInv, TypeOK, Variable, Recounts
<1>3. \A g \in Fun : fun'[g].id = fun[g].id
  BY <1>2
<1>4. Opened' = Opened
  BY <1>3 DEF Opened
<1>5. CallInv'
  <2>1. \A g \in Fun : IsOpen(g)' <=> IsOpen(g)
    BY <1>2 DEF IsOpen
  <2>2. IsOpen(f)
    BY DEF OnTop
  <2>3. \A g \in Fun : ~IsOpen(g)' => fun'[g] = Closed
    BY <1>2, <2>1, <2>2 DEF CallInv
  <2> QED
    BY <1>1, <2>3 DEF CallInv
<1>6. OnTop(f)'
  BY <1>2 DEF OnTop, IsOpen
<1>7. /\ fun[f].handle \in Nat /\ stack' \in Seq(Item)
      /\ fun[f].handle <= Len(stack) /\ fun[f].handle <= Len(stack')
      /\ \A i \in 1 .. fun[f].handle : stack'[i] = stack[i]
  <2>1. fun[f].handle \in Nat /\ fun[f].handle <= Len(stack)
    BY VariableFacts DEF CallInv, FunInv, HandleHolds, OnTop, Top
  <2>2. stack' \in Seq(Item) /\ Len(stack') >= fun[f].handle
    BY DEF Recounts
  <2>3. Len(stack') \in Nat
    BY <2>2
  <2>4. \A i \in 1 .. fun[f].handle : stack'[i] = stack[i]
    BY DEF Recounts
  <2>5. fun[f].handle <= Len(stack')
    BY <2>1, <2>2, <2>3
  <2> QED
    BY <2>1, <2>2, <2>4, <2>5
<1>8. ASSUME NEW g \in Fun, g # f
      PROVE  Args(g)' = Args(g)
  <2>1. IsOpen(g) => Behind(g) <= fun[f].handle + 1
    <3>1. CASE IsOpen(g)
      <4>1. Behind(g) <= fun[f].handle /\ Behind(g) \in Nat
        BY <1>8, <3>1, BelowTop, VariableFacts DEF CallInv, FunInv
      <4> QED
        BY <1>7, <4>1
    <3> QED
      BY <3>1
  <2>2. fun'[g] = fun[g] /\ FunInv
    BY <1>2, <1>8 DEF CallInv
  <2> QED
    BY <1>7, <2>1, <2>2, SameArgs
<1>9. Given' = [Given EXCEPT ![f] = Args(f)']
  BY <1>8 DEF Given
<1> QED
  BY <1>2, <1>4, <1>5, <1>6, <1>9

----------------------------------------------------------------------------
(* Each step, as FunCalls sees it.                                         *)

\* What is put is appended to the arguments.
LEMMA PutIsPut ==
  ASSUME CallInv, NEW f \in Fun, Put(f)
  PROVE  CallInv' /\ Calls!Put(f)
<1>1. OnTop(f) /\ IsOpen(f) /\ called' = called
  BY DEF Put, OnTop
<1>2. PICK n \in Nat \cup {-1} : Recounts(f, n)
  BY PutRecounts DEF CallInv
<1>3. /\ CallInv' /\ Opened' = Opened
      /\ Given' = [Given EXCEPT ![f] = Args(f)']
      /\ fun'[f].handle = fun[f].handle /\ fun'[f].arg_count = n
      /\ OnTop(f)'
  BY <1>1, <1>2, OthersKeep
<1>4. PICK v \in Val : stack' = Append(Reset(f).stack, v)
  BY DEF Put
<1>5. fun' = [fun EXCEPT ![f].arg_count = Reset(f).count + 1]
  BY DEF Put
<1>6. v \in Item
  BY DEF Item
<1>7. /\ fun[f].handle \in Nat /\ fun[f].arg_count \in Nat \cup {-1}
      /\ stack \in Seq(Item) /\ Len(stack) \in Nat
      /\ fun[f].handle <= Len(stack) /\ fun[f].handle > 0
  BY <1>1, VariableFacts DEF CallInv, FunInv, HandleHolds, Top, IsOpen
<1>8. n = Reset(f).count + 1 /\ Reset(f).count \in Nat /\ n # -1
  <2>1. Reset(f).count \in Nat
    BY <1>7 DEF Reset
  <2>2. fun'[f].arg_count = Reset(f).count + 1
    BY <1>5 DEF CallInv, FunInv, TypeOK, Variable
  <2> QED
    BY <1>3, <2>1, <2>2
<1>9. DEFINE s == Reset(f).stack
<1>10. s \in Seq(Item)
  <2>1. CASE fun[f].arg_count = -1
    <3>1. SubSeq(stack, 1, fun[f].handle) \in Seq(Item)
      BY <1>7, SubSeqFacts
    <3>2. stack[fun[f].handle] \in Item
      BY <1>7
    <3>3. s = Append(SubSeq(stack, 1, fun[f].handle), stack[fun[f].handle])
      BY <2>1 DEF Reset
    <3> QED
      BY <3>1, <3>2, <3>3, AppendFacts
  <2>2. CASE fun[f].arg_count # -1
    BY <1>7, <2>2 DEF Reset
  <2> QED
    BY <2>1, <2>2
<1>11. stack' = Append(s, v)
  BY <1>4
<1>12. fun[f].arg_count # -1 => s = stack /\ Reset(f).count = fun[f].arg_count
  BY DEF Reset
<1>13. fun[f].arg_count = -1 => Reset(f).count = 0
  BY DEF Reset
<1> HIDE DEF s
<1>14. Len(stack') = Len(s) + 1 /\ Len(s) \in Nat
  BY <1>6, <1>10, <1>11, AppendFacts
<1>15. /\ Len(stack') + 1 = fun[f].handle + n + 2
       /\ Args(f)' = SubSeq(stack', fun[f].handle + 2,
                            (fun[f].handle + n + 2) - 1)
  <2>1. Len(stack') + 1 = fun[f].handle + n + 2
    BY <1>2, <1>8 DEF Recounts
  <2>2. Behind(f)' = fun[f].handle + n + 2
    BY <1>3 DEF Behind
  <2>3. IsOpen(f)' /\ fun'[f].arg_count # -1
    BY <1>3, <1>8 DEF OnTop
  <2> QED
    BY <1>3, <2>1, <2>2, <2>3 DEF Args
<1>16. /\ Len(s) = fun[f].handle + 1 + Reset(f).count
       /\ (fun[f].handle + n + 2) - 1 = Len(s) + 1
  <2>1. DEFINE h == fun[f].handle
               c == Reset(f).count
               l == Len(s)
               k == Len(stack')
  <2>2. /\ h \in Nat /\ c \in Nat /\ l \in Nat /\ n = c + 1 /\ k = l + 1
        /\ k + 1 = h + n + 2
    BY <1>7, <1>8, <1>14, <1>15
  <2> HIDE DEF h, c, l, k
  <2>3. l = h + 1 + c /\ (h + n + 2) - 1 = l + 1
    BY <2>2
  <2> QED
    BY <2>3 DEF h, c, l
<1>17. DEFINE m == fun[f].handle + 2
<1>18. /\ m \in Nat \ {0} /\ m <= Len(s) + 1
       /\ Reset(f).count = 0 => Len(s) = m - 1
  <2>1. DEFINE h == fun[f].handle
               c == Reset(f).count
               l == Len(s)
  <2>2. h \in Nat /\ c \in Nat /\ l \in Nat /\ l = h + 1 + c
    BY <1>7, <1>8, <1>14, <1>16
  <2>3. m = h + 2
    OBVIOUS
  <2> HIDE DEF h, c, l, m
  <2>4. m \in Nat \ {0} /\ m <= l + 1 /\ (c = 0 => l = m - 1)
    BY <2>2, <2>3
  <2> QED
    BY <2>4 DEF h, c, l
<1>19. fun[f].arg_count = -1 => Len(s) = m - 1
  BY <1>13, <1>18
<1>20. /\ Args(f)' = SubSeq(stack', m, Len(s) + 1)
       /\ fun[f].arg_count # -1 => Args(f) = SubSeq(stack, m, Len(stack))
  BY <1>1, <1>15, <1>16, ArgsOnTop DEF CallInv, Top
<1> HIDE DEF m
<1>21. Args(f)' = Append(SubSeq(s, m, Len(s)), v)
  <2>1. SubSeq(Append(s, v), m, Len(s) + 1) = Append(SubSeq(s, m, Len(s)), v)
    BY <1>6, <1>10, <1>18, SegmentFacts
  <2> QED
    BY <1>11, <1>20, <2>1
<1>22. SubSeq(s, m, Len(s)) = Args(f)
  <2>1. CASE fun[f].arg_count = -1
    <3>1. Args(f) = <<>>
      BY <2>1 DEF Args
    <3>2. SubSeq(s, m, m - 1) = <<>>
      BY <1>10, <1>18, SegmentFacts
    <3> QED
      BY <1>19, <2>1, <3>1, <3>2
  <2>2. CASE fun[f].arg_count # -1
    BY <1>12, <1>20, <2>2
  <2> QED
    BY <2>1, <2>2
<1>23. Given' = [Given EXCEPT ![f] = Append(Args(f), v)]
  <2>1. Args(f)' = Append(Args(f), v)
    BY <1>21, <1>22
  <2> QED
    BY <1>3, <2>1
<1>24. Opened[f] # None
  BY <1>1, OpenedFacts DEF Opened
<1> QED
  BY <1>1, <1>3, <1>6, <1>23, <1>24, PutMaps

\* After a call, a top that is no argument changes no argument.
LEMMA PutTopIsNothing ==
  ASSUME CallInv, ~TopAfterCall, NEW f \in Fun, PutTop(f),
         fun[f].arg_count = -1
  PROVE  CallInv' /\ UNCHANGED Calls!vars
<1>1. OnTop(f) /\ called' = called
  BY DEF PutTop
<1>2. Recounts(f, -1) /\ -1 \in Nat \cup {-1}
  BY PutTopIgnored DEF CallInv
<1>3. /\ CallInv' /\ Opened' = Opened
      /\ Given' = [Given EXCEPT ![f] = Args(f)']
      /\ fun'[f].arg_count = -1
  BY <1>1, <1>2, OthersKeep
<1>4. Args(f)' = <<>> /\ Args(f) = <<>>
  BY <1>3 DEF Args
<1>5. Given' = Given
  BY <1>3, <1>4 DEF Given
<1> QED
  BY <1>1, <1>3, <1>5, StutterMaps

\* Until the call, the top is appended, if it is no argument yet.
LEMMA PutTopIsPut ==
  ASSUME CallInv, ~TopAfterCall, NEW f \in Fun, PutTop(f),
         fun[f].arg_count # -1
  PROVE  CallInv' /\ (Calls!Put(f) \/ UNCHANGED Calls!vars)
<1>1. /\ OnTop(f) /\ IsOpen(f) /\ called' = called
  BY DEF PutTop, OnTop
<1>2. PICK n \in Nat \cup {-1} : Recounts(f, n)
  BY PutTopRecounts DEF CallInv
<1>3. /\ CallInv' /\ Opened' = Opened
      /\ Given' = [Given EXCEPT ![f] = Args(f)']
      /\ fun'[f].handle = fun[f].handle /\ fun'[f].arg_count = n
      /\ OnTop(f)'
  BY <1>1, <1>2, OthersKeep
<1>4. /\ fun[f].handle \in Nat /\ fun[f].arg_count \in Nat
      /\ stack \in Seq(Item) /\ Len(stack) \in Nat
  BY <1>1, VariableFacts DEF CallInv, FunInv, Top
<1>5. PICK s \in {stack} \cup {Append(stack, v) : v \in Val} :
        stack' = s /\ fun' = [fun EXCEPT ![f].arg_count = CountTop(f, s)]
  BY DEF PutTop
<1>6. /\ Args(f) = SubSeq(stack, fun[f].handle + 2, Len(stack))
      /\ Len(stack) = fun[f].handle + 1 + fun[f].arg_count
  BY <1>1, ArgsOnTop DEF CallInv, Top
<1>7. n = CountTop(f, s)
  BY <1>3, <1>5 DEF CallInv, FunInv, TypeOK, Variable
<1>8. CountTop(f, s) = IF Len(s) - fun[f].arg_count = fun[f].handle + 2
                       THEN fun[f].arg_count + 1 ELSE fun[f].arg_count
  BY <1>1 DEF CountTop
<1>9. CASE s = stack
  <2>1. Len(stack) - fun[f].arg_count # fun[f].handle + 2
    <3> DEFINE l == Len(stack)
               h == fun[f].handle
               c == fun[f].arg_count
    <3>1. l \in Nat /\ h \in Nat /\ c \in Nat /\ l = h + 1 + c
      BY <1>4, <1>6
    <3> HIDE DEF l, h, c
    <3>2. l - c # h + 2
      BY <3>1
    <3> QED
      BY <3>2 DEF l, h, c
  <2>2. n = fun[f].arg_count /\ stack' = stack
    BY <1>5, <1>7, <1>8, <1>9, <2>1
  <2>3. Behind(f)' = Behind(f) /\ IsOpen(f)'
    BY <1>3, <2>2 DEF Behind, OnTop
  <2>4. Args(f)' = Args(f)
    BY <1>1, <1>3, <2>2, <2>3 DEF Args
  <2>5. Given' = Given
    BY <1>3, <2>4 DEF Given
  <2> QED
    BY <1>1, <1>3, <2>5, StutterMaps
<1>10. ASSUME NEW v \in Val, s = Append(stack, v)
       PROVE  Calls!Put(f)
  <2>1. v \in Item
    BY DEF Item
  <2>2. Len(s) = Len(stack) + 1
    BY <1>4, <1>10, <2>1, AppendFacts
  <2>3. Len(s) - fun[f].arg_count = fun[f].handle + 2
    <3> DEFINE l == Len(s)
               h == fun[f].handle
               c == fun[f].arg_count
    <3>1. h \in Nat /\ c \in Nat /\ l = h + 1 + c + 1
      BY <1>4, <1>6, <2>2
    <3> HIDE DEF l, h, c
    <3>2. l - c = h + 2
      BY <3>1
    <3> QED
      BY <3>2 DEF l, h, c
  <2>4. n = fun[f].arg_count + 1
    BY <1>7, <1>8, <2>3
  <2>5. DEFINE m == fun[f].handle + 2
  <2>6. /\ m \in Nat \ {0} /\ m <= Len(stack) + 1
        /\ (fun[f].handle + n + 2) - 1 = Len(stack) + 1 /\ n # -1
    <3>1. DEFINE h == fun[f].handle
                 c == fun[f].arg_count
                 l == Len(stack)
    <3>2. h \in Nat /\ c \in Nat /\ l = h + 1 + c /\ n = c + 1
      BY <1>4, <1>6, <2>4
    <3>3. m = h + 2
      OBVIOUS
    <3> HIDE DEF h, c, l, m
    <3>4. /\ m \in Nat \ {0} /\ m <= l + 1
          /\ (h + n + 2) - 1 = l + 1 /\ n # -1
      BY <3>2, <3>3
    <3> QED
      BY <3>4 DEF h, l
  <2>7. Behind(f)' = fun[f].handle + n + 2
    BY <1>3 DEF Behind
  <2>8. IsOpen(f)' /\ fun'[f].arg_count # -1
    BY <1>3, <2>6 DEF OnTop
  <2>9. Args(f)' = SubSeq(stack', m, Len(stack) + 1)
    BY <1>3, <2>6, <2>7, <2>8 DEF Args
  <2>10. Args(f) = SubSeq(stack, m, Len(stack))
    BY <1>6
  <2> HIDE DEF m
  <2>11. SubSeq(Append(stack, v), m, Len(stack) + 1)
           = Append(SubSeq(stack, m, Len(stack)), v)
    <3>1. /\ stack \in Seq(Item) /\ m \in Nat \ {0} /\ m <= Len(stack) + 1
      BY <1>4, <2>6
    <3> QED
      BY <2>1, <3>1, SegmentFacts
  <2>12. Args(f)' = Append(Args(f), v)
    BY <1>5, <1>10, <2>9, <2>10, <2>11
  <2>13. Given' = [Given EXCEPT ![f] = Append(Args(f), v)]
    BY <1>3, <2>12
  <2>14. Opened[f] # None
    BY <1>1, OpenedFacts DEF Opened
  <2> QED
    BY <1>1, <1>3, <2>1, <2>13, <2>14, PutMaps
<1> QED
  BY <1>3, <1>5, <1>9, <1>10

\* A call is one of the function with the arguments given since the last call.
LEMMA DoIsCall ==
  ASSUME CallInv, NEW f \in Fun, Do(f)
  PROVE  CallInv' /\ Calls!Call(f)
<1>1. /\ OnTop(f) /\ IsOpen(f) /\ fun[f].arg_count # -1
      /\ fun' = [fun EXCEPT ![f].arg_count = -1]
  BY DEF Do, OnTop
<1>2. PICK n \in Nat \cup {-1} : Recounts(f, n)
  BY DoRecounts DEF CallInv
<1>3. /\ CallInv' /\ Opened' = Opened
      /\ Given' = [Given EXCEPT ![f] = Args(f)']
  BY <1>1, <1>2, OthersKeep
<1>4. Args(f)' = <<>>
  <2>1. fun'[f].arg_count = -1
    BY <1>1 DEF CallInv, FunInv, TypeOK, Variable
  <2> QED
    BY <2>1 DEF Args
<1>5. /\ fun[f].handle \in Nat /\ fun[f].arg_count \in Nat
      /\ Top \in Nat
  BY <1>1, VariableFacts DEF CallInv, FunInv
<1>6. /\ Args(f) = SubSeq(stack, fun[f].handle + 2, Top)
      /\ Top = fun[f].handle + 1 + fun[f].arg_count
  BY <1>1, ArgsOnTop DEF CallInv
<1>7. stack[fun[f].handle + 1] = fun[f].id
  BY <1>1 DEF CallInv, FunInv, CallReady
<1>8. called' = <<stack[Top - fun[f].arg_count],
                  SubSeq(stack, (Top - fun[f].arg_count) + 1, Top)>>
  BY DEF Do, Pcall
<1>9. /\ Top - fun[f].arg_count = fun[f].handle + 1
      /\ (Top - fun[f].arg_count) + 1 = fun[f].handle + 2
  BY SMTT(30), <1>5, <1>6
<1>10. called' = <<Opened[f], Args(f)>>
  BY <1>6, <1>7, <1>8, <1>9 DEF Opened
<1>11. Opened[f] # None
  BY <1>1, OpenedFacts DEF Opened
<1>12. Given' = [Given EXCEPT ![f] = <<>>]
  BY <1>3, <1>4
<1> QED
  BY <1>3, <1>10, <1>11, <1>12, CallMaps

\* A function that is found is opened, without arguments; nothing else is.
LEMMA OpenIsOpen ==
  ASSUME CallInv, NEW f \in Fun, Open(f)
  PROVE  CallInv' /\ (Calls!Open(f) \/ UNCHANGED Calls!vars)
<1>1. /\ FunInv /\ ~IsOpen(f) /\ called' = called /\ stack \in Seq(Item)
      /\ Top \in Nat /\ fun[f] = Closed /\ Args(f) = <<>>
      /\ fun[f].id = None
  <2>1. /\ FunInv /\ ~IsOpen(f) /\ called' = called
    BY DEF Open, CallInv
  <2>2. stack \in Seq(Item) /\ Top \in Nat
    BY <2>1, VariableFacts DEF FunInv
  <2> QED
    BY <2>1, <2>2, OpenedFacts
<1>2. FunInv'
  BY <1>1, OpenStep
<1>3. PICK x \in Code \cup Val :
        /\ x \in Val => \A g \in Fun : ~IsOpen(g)
        /\ OpenTop(f, x)
  BY DEF Open
<1>4. x \in Item
  BY DEF Item
<1>5. CASE x \in Code
  <2>1. /\ stack' = stack \o <<x, x>>
        /\ fun' = [fun EXCEPT ![f] = [handle |-> Top + 1, arg_count |-> 0,
                                      id |-> x]]
    BY <1>3, <1>5 DEF OpenTop
  <2>2. <<x, x>> \in Seq(Item) /\ Len(<<x, x>>) = 2
    BY <1>4
  <2>3. /\ stack' \in Seq(Item) /\ Len(stack') = Len(stack) + 2
        /\ \A i \in 1 .. Len(stack) : stack'[i] = stack[i]
    BY <1>1, <2>1, <2>2, ConcatFacts
  <2>4. /\ fun'[f].handle = Top + 1 /\ fun'[f].arg_count = 0 /\ fun'[f].id = x
        /\ \A g \in Fun : g # f => fun'[g] = fun[g]
    BY <1>1, <2>1 DEF FunInv, TypeOK
  <2>5. Top <= Len(stack) /\ Top <= Len(stack')
        /\ \A i \in 1 .. Top : stack'[i] = stack[i]
    BY <1>1, <2>3 DEF Top
  <2>6. ASSUME NEW g \in Fun, g # f
        PROVE  Args(g)' = Args(g)
    <3>1. IsOpen(g) /\ fun[g].arg_count # -1 => Behind(g) <= Top + 1
      BY <1>1 DEF FunInv, CallReady
    <3>2. fun'[g] = fun[g]
      BY <2>4, <2>6
    <3> QED
      BY <1>1, <2>3, <2>5, <3>1, <3>2, SameArgs
  <2>7. Args(f)' = <<>>
    <3>1. Behind(f)' = (Top + 1) + 0 + 2
      BY <2>4 DEF Behind
    <3>2. Args(f)' = SubSeq(stack', (Top + 1) + 2, ((Top + 1) + 0 + 2) - 1)
                     \/ Args(f)' = <<>>
      BY <2>4, <3>1 DEF Args
    <3>3. DEFINE m == (Top + 1) + 2
    <3>4. /\ ((Top + 1) + 0 + 2) - 1 = m - 1 /\ m \in Nat \ {0}
          /\ m <= Len(stack') + 1
      BY <1>1, <2>3 DEF Top
    <3>5. Args(f)' = SubSeq(stack', m, m - 1) \/ Args(f)' = <<>>
      BY <3>2, <3>4
    <3> HIDE DEF m
    <3>6. SubSeq(stack', m, m - 1) = <<>>
      BY <2>3, <3>4, SegmentFacts
    <3> QED
      BY <3>5, <3>6
  <2>8. Given' = Given
    <3>1. \A g \in Fun : Args(g)' = Args(g)
      BY <1>1, <2>6, <2>7
    <3> QED
      BY <3>1 DEF Given
  <2>9. Opened' = [Opened EXCEPT ![f] = x] /\ Opened[f] = None
    BY <1>1, <2>4 DEF Opened
  <2>10. CallInv'
    <3>1. \A g \in Fun : g # f => (IsOpen(g)' <=> IsOpen(g))
      BY <2>4 DEF IsOpen
    <3>2. IsOpen(f)'
      BY <1>1, <2>4 DEF IsOpen
    <3>3. \A g \in Fun : ~IsOpen(g)' => fun'[g] = Closed
      BY <2>4, <3>1, <3>2 DEF CallInv
    <3> QED
      BY <1>2, <3>3 DEF CallInv
  <2> QED
    BY <1>1, <1>5, <2>8, <2>9, <2>10, OpenMaps
<1>6. CASE x \notin Code
  <2>1. /\ fun' = [fun EXCEPT ![f] = Closed]
        /\ \A g \in Fun : ~IsOpen(g)
    BY <1>3, <1>6 DEF OpenTop
  <2>2. \A g \in Fun : fun[g] = Closed /\ fun'[g] = Closed
    BY <1>1, <2>1 DEF CallInv, FunInv, TypeOK
  <2>3. ASSUME NEW g \in Fun
        PROVE  ~IsOpen(g)' /\ Args(g)' = <<>> /\ Args(g) = <<>>
    <3>1. ~IsOpen(g)'
      BY <2>1, <2>2 DEF IsOpen
    <3> QED
      BY <2>1, <3>1 DEF Args
  <2>4. Opened' = Opened /\ Given' = Given
    BY <2>2, <2>3 DEF Opened, Given
  <2>5. CallInv'
    BY <1>2, <2>2 DEF CallInv
  <2> QED
    BY <1>1, <2>4, <2>5, StutterMaps
<1> QED
  BY <1>5, <1>6

\* Closing a function keeps the arguments of the others.
LEMMA CloseIsClose ==
  ASSUME CallInv, NEW f \in Fun, Close(f)
  PROVE  CallInv' /\ Calls!Close(f)
<1>1. /\ FunInv /\ OnTop(f) /\ IsOpen(f) /\ called' = called
      /\ stack' = SubSeq(stack, 1, fun[f].handle - 1)
      /\ fun' = [fun EXCEPT ![f] = Closed]
  BY DEF Close, OnTop, CallInv
<1>2. FunInv'
  BY <1>1, CloseStep
<1>3. /\ fun[f].handle \in Nat /\ fun[f].handle > 0 /\ fun[f].handle <= Top
      /\ stack \in Seq(Item) /\ Top = Len(stack) /\ Top \in Nat
  BY <1>1, VariableFacts DEF FunInv, HandleHolds, IsOpen, Top
<1>4. DEFINE m == fun[f].handle - 1
<1>5. m \in Nat /\ m <= Len(stack) /\ m + 1 = fun[f].handle
  BY <1>3
<1>6. stack' = SubSeq(stack, 1, m)
  BY <1>1
<1> HIDE DEF m
<1>7. /\ stack' \in Seq(Item) /\ Len(stack') = m
      /\ \A i \in 1 .. m : stack'[i] = stack[i]
  BY <1>3, <1>5, <1>6, SubSeqFacts
<1>8. /\ fun'[f] = Closed
      /\ \A g \in Fun : g # f => fun'[g] = fun[g]
  BY <1>1 DEF FunInv, TypeOK
<1>9. ASSUME NEW g \in Fun, g # f
      PROVE  Args(g)' = Args(g)
  <2>1. IsOpen(g) => Behind(g) <= m + 1
    BY <1>1, <1>5, <1>9, BelowTop
  <2>2. m <= Len(stack')
    BY <1>5, <1>7
  <2> QED
    BY <1>1, <1>5, <1>7, <1>8, <1>9, <2>1, <2>2, SameArgs
<1>10. ~IsOpen(f)' /\ Args(f)' = <<>> /\ Closed.id = None
  <2>1. fun'[f].handle = 0 /\ ~(0 > 0) /\ Closed.id = None
    BY <1>8 DEF Closed
  <2>2. ~IsOpen(f)'
    BY <2>1 DEF IsOpen
  <2> QED
    BY <2>1, <2>2 DEF Args
<1>11. Given' = [Given EXCEPT ![f] = <<>>]
  BY <1>9, <1>10 DEF Given
<1>12. Opened' = [Opened EXCEPT ![f] = None]
  BY <1>8, <1>10 DEF Opened
<1>13. CallInv'
  <2>1. \A g \in Fun : g # f => (IsOpen(g)' <=> IsOpen(g))
    BY <1>8 DEF IsOpen
  <2>2. \A g \in Fun : ~IsOpen(g)' => fun'[g] = Closed
    BY <1>8, <2>1 DEF CallInv
  <2> QED
    BY <1>2, <2>2 DEF CallInv
<1> QED
  BY <1>1, <1>11, <1>12, <1>13, CloseMaps

\* What the program takes is no argument.
LEMMA TakeIsNothing ==
  ASSUME CallInv, Take
  PROVE  CallInv' /\ UNCHANGED Calls!vars
<1>1. /\ FunInv /\ fun' = fun /\ called' = called /\ Top > 0
      /\ stack' = SubSeq(stack, 1, Top - 1)
  BY DEF Take, CallInv
<1>2. FunInv'
  BY <1>1, TakeStep
<1>3. stack \in Seq(Item) /\ Len(stack) \in Nat /\ Len(stack) > 0
  <2>1. stack \in Seq(Item)
    BY <1>1 DEF FunInv, TypeOK
  <2> QED
    BY <1>1, <2>1 DEF Top
<1>4. DEFINE m == Top - 1
<1>5. m \in Nat /\ m <= Len(stack) /\ m + 1 = Top
  BY <1>3 DEF Top
<1>6. stack' = SubSeq(stack, 1, m)
  BY <1>1
<1> HIDE DEF m
<1>7. /\ stack' \in Seq(Item) /\ Len(stack') = m
      /\ \A i \in 1 .. m : stack'[i] = stack[i]
  BY <1>3, <1>5, <1>6, SubSeqFacts
<1>8. ASSUME NEW g \in Fun
      PROVE  Args(g)' = Args(g)
  <2>1. IsOpen(g) /\ fun[g].arg_count # -1 => Behind(g) <= m + 1
    BY <1>1, <1>5, TakeBehind
  <2>2. m <= Len(stack') /\ fun'[g] = fun[g]
    BY <1>1, <1>5, <1>7
  <2> QED
    BY <1>1, <1>5, <1>7, <2>1, <2>2, SameArgs
<1>9. Opened' = Opened /\ Given' = Given
  BY <1>1, <1>8 DEF Opened, Given
<1>10. CallInv'
  <2>1. \A g \in Fun : IsOpen(g)' <=> IsOpen(g)
    BY <1>1 DEF IsOpen
  <2> QED
    BY <1>1, <1>2, <2>1 DEF CallInv
<1> QED
  BY <1>1, <1>9, <1>10, StutterMaps

\* A step that only ends the program is none for FunCalls.
LEMMA EndIsNothing ==
  ASSUME CallInv, stack' = stack, fun' = fun, called' = called,
         fault' \in {"none", "stopped", "no function"}
  PROVE  CallInv' /\ UNCHANGED Calls!vars
<1>1. FunInv'
  BY StutterStep DEF CallInv
<1>2. \A g \in Fun : /\ IsOpen(g)' <=> IsOpen(g)
                     /\ Behind(g)' = Behind(g)
  BY DEF IsOpen, Behind
<1>3. CallInv'
  BY <1>1, <1>2 DEF CallInv
<1>4. \A g \in Fun : Args(g)' = Args(g)
  BY <1>2 DEF Args
<1>5. Opened' = Opened /\ Given' = Given
  BY <1>4 DEF Opened, Given
<1> QED
  BY <1>3, <1>5, StutterMaps

----------------------------------------------------------------------------
(* The theorem.                                                            *)

\* A program that does not put, with aot_fun_put_top, the only value above a
\* function that was called sees of aot_fun the calls of FunCalls: every call
\* is one of the function that was opened, with what was put since the last call,
\* however many functions are open and whatever they return.
THEOREM CallsAreImplemented ==
  ASSUME ~TopAfterCall
  PROVE  Spec => ImplementsCalls
<1>1. Init => CallInv /\ Calls!Init
  <2>1. SUFFICES ASSUME Init
                 PROVE  CallInv /\ Calls!Init
    OBVIOUS
  <2>2. FunInv
    BY <2>1, FunInitially
  <2>3. \A f \in Fun : fun[f] = Closed
    BY <2>1 DEF Init
  <2>4. Closed.id = None /\ Closed.handle = 0 /\ ~(0 > 0)
    BY DEF Closed
  <2>5. \A f \in Fun : fun[f].id = None /\ fun[f].handle = 0
    BY <2>3, <2>4
  <2>6. \A f \in Fun : Args(f) = <<>>
    BY <2>4, <2>5, Zenon DEF Args, IsOpen
  <2>7. Opened = [f \in Fun |-> None] /\ Given = [f \in Fun |-> <<>>]
    BY <2>5, <2>6 DEF Opened, Given
  <2>8. called = None
    BY <2>1 DEF Init
  <2>9. Calls!Init
    BY <2>7, <2>8 DEF Calls!Init, Opened, Given, Args
  <2> QED
    BY <2>2, <2>3, <2>9 DEF CallInv
<1>2. CallInv /\ [Next]_vars => CallInv' /\ [Calls!Next]_(Calls!vars)
  <2>1. SUFFICES ASSUME CallInv, [Next]_vars
                 PROVE  CallInv' /\ (Calls!Next \/ UNCHANGED Calls!vars)
    OBVIOUS
  <2>2. fault \in {"none", "stopped", "no function"}
    BY <2>1 DEF CallInv, FunInv, TypeOK
  <2>3. ASSUME NEW f \in Fun, Open(f)
        PROVE  CallInv' /\ (Calls!Next \/ UNCHANGED Calls!vars)
    BY <2>1, <2>3, OpenIsOpen DEF Calls!Next
  <2>4. ASSUME NEW f \in Fun, Put(f)
        PROVE  CallInv' /\ (Calls!Next \/ UNCHANGED Calls!vars)
    BY <2>1, <2>4, PutIsPut DEF Calls!Next
  <2>5. ASSUME NEW f \in Fun, PutTop(f)
        PROVE  CallInv' /\ (Calls!Next \/ UNCHANGED Calls!vars)
    BY <2>1, <2>5, PutTopIsPut, PutTopIsNothing DEF Calls!Next
  <2>6. ASSUME NEW f \in Fun, Do(f)
        PROVE  CallInv' /\ (Calls!Next \/ UNCHANGED Calls!vars)
    BY <2>1, <2>6, DoIsCall DEF Calls!Next
  <2>7. ASSUME NEW f \in Fun, DoAgain(f)
        PROVE  CallInv' /\ (Calls!Next \/ UNCHANGED Calls!vars)
    <3>1. /\ stack' = stack /\ fun' = fun /\ called' = called
          /\ fault' = "no function"
      BY <2>7 DEF DoAgain
    <3> QED
      BY <2>1, <3>1, EndIsNothing
  <2>8. ASSUME NEW f \in Fun, Close(f)
        PROVE  CallInv' /\ (Calls!Next \/ UNCHANGED Calls!vars)
    BY <2>1, <2>8, CloseIsClose DEF Calls!Next
  <2>9. CASE Take
    BY <2>1, <2>9, TakeIsNothing
  <2>10. CASE UNCHANGED vars
    <3>1. /\ stack' = stack /\ fun' = fun /\ called' = called
          /\ fault' = fault
      BY <2>10 DEF vars
    <3> QED
      BY <2>1, <2>2, <3>1, EndIsNothing
  <2> QED
    BY <2>1, <2>3, <2>4, <2>5, <2>6, <2>7, <2>8, <2>9, <2>10 DEF Next, Over
<1> QED
  BY <1>1, <1>2, PTL DEF Spec, ImplementsCalls, Calls!Spec
=============================================================================
