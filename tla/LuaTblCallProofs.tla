-------------------------- MODULE LuaTblCallProofs --------------------------
(***************************************************************************)
(* What the calls of LuaTbl keep, restore and count, for every value of the *)
(* constants: no step moves the handle of a level that stays open, the      *)
(* array calls restore the level and the stack they started from and leave  *)
(* every other field alone, the levels a call has opened are counted, are   *)
(* linked to those above and account for the stack, and every step of a     *)
(* call brings its end closer.  All rest on HandleInv of LuaTblProofs.      *)
(***************************************************************************)
EXTENDS LuaTblProofs, FiniteSetTheorems

----------------------------------------------------------------------------
(* How the steps change the levels and the stack.                          *)

\* These steps change neither the levels nor the stack.
LEMMA QuietSteps ==
  ASSUME HandleInv,
         \/ \E t \in Tbl : \/ Open(t) \/ Close(t) \/ Reopen(t) \/ Array(t)
                           \/ TopOfNothing(t) \/ SetField(t)
         \/ OpenDone \/ Vector \/ MatrixRow \/ MatrixDone \/ CloseDone
         \/ OpenNoParent \/ ClosedTable \/ OutOfMemory
         \/ UNCHANGED vars
  PROVE  stack' = stack /\ levels' = levels
<1>1. ASSUME NEW t \in Tbl,
             Open(t) \/ Close(t) \/ Reopen(t) \/ Array(t) \/ TopOfNothing(t)
      PROVE  stack' = stack /\ levels' = levels
  BY <1>1 DEF Open, Close, Reopen, Array, SetArray, GetArray, TopOfNothing,
              Begin
<1>2. ASSUME NEW t \in Tbl, SetField(t)
      PROVE  stack' = stack /\ levels' = levels
  BY <1>2 DEF SetField
<1>3. CASE OpenDone \/ Vector \/ MatrixDone \/ CloseDone
  BY <1>3 DEF OpenDone, Vector, MatrixDone, CloseDone
<1>4. CASE MatrixRow
  BY <1>4, RowOutcome DEF MatrixRow
<1>5. CASE OpenNoParent \/ ClosedTable \/ OutOfMemory
  BY <1>5 DEF OpenNoParent, ClosedTable, OutOfMemory, Fault
<1>6. CASE UNCHANGED vars
  BY <1>6 DEF vars
<1> QED
  BY <1>1, <1>2, <1>3, <1>4, <1>5, <1>6

\* One level of call.tb is opened: the others are as they were, and the stack
\* is at most extended by the new table.
LEMMA OpenedLevel ==
  ASSUME HandleInv, OpenBelow \/ OpenGlobal
  PROVE  /\ call.tb \in Tbl
         /\ \A u \in Tbl \ {call.tb} : levels'[u] = levels[u]
         /\ Len(levels'[call.tb]) = Len(levels[call.tb]) + 1
         /\ DOMAIN levels'[call.tb] =
              DOMAIN levels[call.tb] \cup {Len(levels[call.tb]) + 1}
         /\ \A i \in DOMAIN levels[call.tb] :
              levels'[call.tb][i] = levels[call.tb][i]
         /\ Len(stack) \in Nat
         /\ \A n \in 1 .. Len(stack) : stack'[n] = stack[n]
         /\ \/ /\ levels'[call.tb][Len(levels[call.tb]) + 1] = 0
               /\ Len(stack') = Len(stack)
            \/ /\ levels'[call.tb][Len(levels[call.tb]) + 1] = Len(stack) + 1
               /\ Len(stack') = Len(stack) + 1
<1>1. /\ stack \in Seq(Slot) /\ Len(stack) \in Nat
      /\ levels \in [Tbl -> Seq(Nat)] /\ call.tb \in Tbl
  BY CallFacts DEF HandleInv, TypeOK, OpenBelow, OpenGlobal, Phases
<1>2. levels[call.tb] \in Seq(Nat)
  BY <1>1
<1>3. PICK h \in Nat :
        /\ \/ /\ h = Len(stack) + 1
              /\ \E x \in Ref : stack' = Append(stack, x)
           \/ h = 0 /\ stack' = stack
        /\ Descend(call.tb, h)
  BY OpenOutcome
<1>4. /\ \A u \in Tbl \ {call.tb} : levels'[u] = levels[u]
      /\ levels'[call.tb] = Append(levels[call.tb], h)
  BY <1>1, <1>3 DEF Descend
<1>5. /\ Len(levels'[call.tb]) = Len(levels[call.tb]) + 1
      /\ DOMAIN levels'[call.tb] =
           DOMAIN levels[call.tb] \cup {Len(levels[call.tb]) + 1}
      /\ \A i \in DOMAIN levels[call.tb] :
           levels'[call.tb][i] = levels[call.tb][i]
      /\ levels'[call.tb][Len(levels[call.tb]) + 1] = h
  BY <1>2, <1>4, AppendFacts
<1>6. CASE h = Len(stack) + 1 /\ \E x \in Ref : stack' = Append(stack, x)
  <2>1. PICK x \in Ref : stack' = Append(stack, x)
    BY <1>6
  <2>2. x \in Slot
    BY DEF Slot
  <2>3. /\ Len(stack') = Len(stack) + 1
        /\ \A n \in 1 .. Len(stack) : stack'[n] = stack[n]
    BY <1>1, <2>1, <2>2, AppendFacts
  <2> QED
    BY <1>1, <1>4, <1>5, <1>6, <2>3
<1>7. CASE h = 0 /\ stack' = stack
  BY <1>1, <1>4, <1>5, <1>7
<1> QED
  BY <1>3, <1>6, <1>7

\* One level of call.tb is closed: the others are as they were, and the stack
\* ends under the table of the closed one.
LEMMA ClosedLevel ==
  ASSUME HandleInv, CloseLevel
  PROVE  LET t == call.tb
             L == Len(levels[t])
             H == levels[t][L]
         IN  /\ t \in Tbl /\ L \in Nat /\ L > 0
             /\ L \in DOMAIN levels[t] /\ H \in Nat
             /\ \A u \in Tbl \ {t} : levels'[u] = levels[u]
             /\ Len(levels'[t]) = L - 1
             /\ DOMAIN levels'[t] = 1 .. L - 1
             /\ \A i \in 1 .. L - 1 : levels'[t][i] = levels[t][i]
             /\ Len(stack) \in Nat
             /\ \A n \in 1 .. Len(stack') : stack'[n] = stack[n]
             /\ Len(stack') = IF H > 0 THEN H - 1 ELSE Len(stack)
             /\ H <= Len(stack)
<1> DEFINE t == call.tb
           L == Len(levels[t])
           H == levels[t][L]
<1>1. /\ HandlesOK /\ stack \in Seq(Slot) /\ Len(stack) \in Nat
      /\ levels \in [Tbl -> Seq(Nat)] /\ t \in Tbl /\ levels[t] # <<>>
  BY CallFacts
     DEF HandleInv, TypeOK, HandlesOK, CloseLevel, CloseEnds, IsOpen, Phases
<1>2. /\ L \in Nat /\ L > 0 /\ L \in DOMAIN levels[t] /\ H \in Nat
      /\ Handle(t) = H /\ (H > 0 => H <= Len(stack))
  BY <1>1, CurrentHandle DEF IsOpen
<1>3. /\ \A u \in Tbl \ {t} : levels'[u] = levels[u]
      /\ levels'[t] = SubSeq(levels[t], 1, L - 1)
      /\ stack' = Closed(stack, H)
  BY <1>1, <1>2 DEF CloseLevel
<1>4. /\ Len(levels'[t]) = L - 1
      /\ DOMAIN levels'[t] = 1 .. L - 1
      /\ \A i \in 1 .. L - 1 : levels'[t][i] = levels[t][i]
  <2>1. levels[t] \in Seq(Nat)
    BY <1>1
  <2> QED
    BY <1>1, <1>3, <2>1, FrontFacts
<1>5. CASE H > 0
  <2>1. H - 1 \in 0 .. Len(stack) /\ stack' = SetTop(stack, H - 1)
    BY <1>1, <1>2, <1>3, <1>5 DEF Closed
  <2>2. /\ Len(stack') = H - 1
        /\ \A n \in 1 .. H - 1 : stack'[n] = stack[n]
    BY <1>1, <2>1, SetTopKeeps
  <2> QED
    BY <1>1, <1>2, <1>3, <1>4, <1>5, <2>2
<1>6. CASE H = 0
  <2>1. stack' = stack
    BY <1>3, <1>6 DEF Closed
  <2> QED
    BY <1>1, <1>2, <1>3, <1>4, <1>6, <2>1
<1> QED
  BY <1>2, <1>5, <1>6

----------------------------------------------------------------------------
(* No step moves the handle of a level that stays open.                    *)

\* Every handle is a position on the stack.
LEMMA HandleOnStack ==
  ASSUME HandleInv, NEW t \in Tbl, NEW i \in DOMAIN levels[t]
  PROVE  /\ levels[t][i] \in Nat
         /\ levels[t][i] > 0 => levels[t][i] \in 1 .. Len(stack)
<1>1. /\ levels[t] \in Seq(Nat) /\ args \in Nat
      /\ stack \in Seq(Slot)
  BY DEF HandleInv, TypeOK
<1>2. levels[t][i] \in Nat /\ Len(stack) \in Nat
  BY <1>1
<1>3. levels[t][i] > 0 => levels[t][i] \in args + 1 .. Len(stack)
  BY DEF HandleInv, HandlesValid
<1> QED
  BY <1>1, <1>2, <1>3

\* No step changes a handle of a level that stays open, or the slot it names:
\* closing cuts the stack above all of them.
LEMMA NextKeepsHandles == HandleInv /\ [Next]_vars => HandlesKept
<1> SUFFICES ASSUME HandleInv, [Next]_vars,
                    NEW t \in Tbl,
                    NEW i \in DOMAIN levels[t] \cap DOMAIN levels'[t]
             PROVE  /\ levels'[t][i] = levels[t][i]
                    /\ levels[t][i] > 0 =>
                         /\ levels[t][i] <= Len(stack')
                         /\ stack'[levels[t][i]] = stack[levels[t][i]]
  BY DEF HandlesKept
<1>1. /\ levels[t][i] \in Nat
      /\ levels[t][i] > 0 => levels[t][i] \in 1 .. Len(stack)
      /\ levels[t] \in Seq(Nat) /\ stack \in Seq(Slot)
      /\ Len(stack) \in Nat /\ i \in Nat
  <2>1. levels[t] \in Seq(Nat) /\ stack \in Seq(Slot)
    BY DEF HandleInv, TypeOK
  <2>2. Len(stack) \in Nat /\ i \in Nat
    BY <2>1, SeqDomain
  <2> QED
    BY <2>1, <2>2, HandleOnStack
<1>2. CASE stack' = stack /\ levels' = levels
  BY <1>1, <1>2
<1>3. CASE OpenBelow \/ OpenGlobal
  <2>1. /\ levels'[t][i] = levels[t][i]
        /\ \A n \in 1 .. Len(stack) : stack'[n] = stack[n]
        /\ Len(stack') = Len(stack) \/ Len(stack') = Len(stack) + 1
    BY <1>3, OpenedLevel
  <2> QED
    BY <1>1, <2>1
<1>4. CASE CloseLevel
  <2> DEFINE L == Len(levels[call.tb])
             H == levels[call.tb][L]
  <2>1. /\ call.tb \in Tbl /\ L \in Nat /\ L > 0
        /\ L \in DOMAIN levels[call.tb] /\ H \in Nat
        /\ \A u \in Tbl \ {call.tb} : levels'[u] = levels[u]
        /\ DOMAIN levels'[call.tb] = 1 .. L - 1
        /\ \A n \in 1 .. L - 1 : levels'[call.tb][n] = levels[call.tb][n]
        /\ \A n \in 1 .. Len(stack') : stack'[n] = stack[n]
        /\ Len(stack') = IF H > 0 THEN H - 1 ELSE Len(stack)
    BY <1>4, ClosedLevel
  <2> HIDE DEF L
  <2>2. levels'[t][i] = levels[t][i] /\ (t = call.tb => i < L)
    <3>1. CASE t = call.tb
      <4>1. i \in 1 .. L - 1
        BY <2>1, <3>1
      <4> QED
        BY <2>1, <3>1, <4>1
    <3>2. CASE t # call.tb
      BY <2>1, <3>2
    <3> QED
      BY <3>1, <3>2
  <2>3. (levels[t][i] > 0 /\ H > 0) => levels[t][i] < H
    <3>1. CASE t = call.tb
      <4>1. \/ levels[t][L] = 0
            \/ 0 < levels[t][i] /\ levels[t][i] < levels[t][L]
        BY <1>1, <2>1, <2>2, <3>1 DEF HandleInv, HandlesNested
      <4> QED
        BY <3>1, <4>1
    <3>2. CASE t # call.tb
      <4>1. call.mode \in Modes /\ call.lvls \in Int
        BY <1>4, CallFacts DEF HandleInv, CloseLevel, Phases
      <4>2. call.mode \in {"count", "both"} => call.lvls > 0
        BY <1>4, <4>1 DEF CloseLevel, CloseEnds
      <4>3. ToClose \in Int /\ ToClose > 0
        <5>1. CASE call.mode = "one"
          BY <5>1 DEF ToClose
        <5>2. CASE call.mode = "count"
          BY <4>1, <4>2, <5>2 DEF ToClose
        <5>3. CASE call.mode \in {"tree", "both"}
          BY <2>1, <5>3 DEF ToClose, L
        <5> QED
          BY <4>1, <5>1, <5>2, <5>3 DEF Modes
      <4>4. OnTop(call.tb, ToClose)
        BY <1>4 DEF HandleInv, ClosesOnTop, CloseLevel
      <4>5. L > Len(levels[call.tb]) - ToClose
        BY <2>1, <4>3 DEF L
      <4> QED
        BY <2>1, <3>2, <4>4, <4>5 DEF OnTop
    <3> QED
      BY <3>1, <3>2
  <2>4. levels[t][i] > 0 => levels[t][i] \in 1 .. Len(stack')
    BY <1>1, <2>1, <2>3
  <2> QED
    BY SMTT(30), <1>1, <2>1, <2>2, <2>4
<1>5. ASSUME NEW u \in Tbl, TopTable(u)
      PROVE  /\ levels'[t][i] = levels[t][i]
             /\ levels[t][i] > 0 =>
                  /\ levels[t][i] <= Len(stack')
                  /\ stack'[levels[t][i]] = stack[levels[t][i]]
  <2> DEFINE N    == Len(stack)
             rest == SubSeq(stack, 1, N - 1)
  <2>1. /\ stack # <<>> /\ levels[u] = <<>>
        /\ stack' = Pushed(rest, stack[N])
        /\ \E h : levels' = [levels EXCEPT ![u] = h]
    BY <1>5 DEF TopTable, IsOpen
  <2>2. t # u
    BY <2>1
  <2>3. levels'[t] = levels[t]
    BY <2>1, <2>2 DEF HandleInv, TypeOK
  <2>4. /\ rest \in Seq(Slot) /\ Len(rest) = N - 1
        /\ \A n \in 1 .. N - 1 : rest[n] = stack[n]
    BY <1>1, <2>1, FrontFacts
  <2>5. /\ \A n \in 1 .. N - 1 : stack'[n] = stack[n]
        /\ stack[N] \in Ref => Len(stack') = N /\ stack'[N] = stack[N]
        /\ Len(stack') = N \/ Len(stack') = N - 1
    <3>1. CASE stack[N] \in Ref
      <4>1. stack' = Append(rest, stack[N]) /\ stack[N] \in Slot
        BY <2>1, <3>1 DEF Pushed, Slot
      <4>2. /\ Len(stack') = Len(rest) + 1
            /\ \A n \in 1 .. Len(rest) : stack'[n] = rest[n]
            /\ stack'[Len(rest) + 1] = stack[N]
        BY <2>4, <4>1, AppendFacts
      <4>3. Len(rest) + 1 = N
        BY <1>1, <2>4
      <4> QED
        BY <1>1, <2>4, <4>2, <4>3
    <3>2. CASE stack[N] \notin Ref
      BY <2>1, <2>4, <3>2 DEF Pushed
    <3> QED
      BY <3>1, <3>2
  <2>6. levels[t][i] > 0 =>
          \/ levels[t][i] \in 1 .. N - 1
          \/ levels[t][i] = N /\ stack[N] \in Ref
    BY <1>1 DEF HandleInv, HandlesValid
  <2>7. N \in Nat
    BY <1>1
  <2> HIDE DEF N
  <2>8. ASSUME levels[t][i] > 0
        PROVE  /\ levels[t][i] <= Len(stack')
               /\ stack'[levels[t][i]] = stack[levels[t][i]]
    <3> DEFINE h == levels[t][i]
    <3> HIDE DEF h
    <3>1. CASE h \in 1 .. N - 1
      BY <2>5, <2>7, <3>1 DEF h
    <3>2. CASE h = N /\ stack[N] \in Ref
      BY <2>5, <2>7, <3>2 DEF h
    <3> QED
      BY <2>6, <2>8, <3>1, <3>2 DEF h
  <2> QED
    BY <2>3, <2>8
<1>6. CASE Run
  <2>1. levels' = levels /\ (stack' = stack \/ stack' = Append(stack, Message))
    BY <1>6 DEF Run
  <2>2. Message \in Slot
    BY DEF Slot
  <2>3. /\ \A n \in 1 .. Len(stack) : stack'[n] = stack[n]
        /\ Len(stack') = Len(stack) \/ Len(stack') = Len(stack) + 1
    BY <1>1, <2>1, <2>2, AppendFacts
  <2> QED
    BY <1>1, <2>1, <2>3
<1>7. CASE Step \/ Stopped \/ UNCHANGED vars
  BY <1>2, <1>3, <1>4, <1>7, QuietSteps DEF Step, Stopped
<1> QED
  BY <1>2, <1>5, <1>6, <1>7, QuietSteps DEF Next

\* Whatever the program, other table variables and scripts do, a level that
\* stays open keeps its handle and the table in the handle's slot.
THEOREM HandlesStay == Spec => HandlesStable
<1>1. HandleInv /\ [Next]_vars => [HandlesKept]_vars
  BY NextKeepsHandles
<1>2. Spec => []HandleInv
  BY HandlesAreSafe
<1> QED
  BY <1>1, <1>2, PTL DEF Spec, HandlesStable

----------------------------------------------------------------------------
(* An array call restores the level and the stack it started from.         *)

\* The types of the arguments, the stack and the levels of a running array
\* call; it counts its levels.
LEMMA ArrayCallFields ==
  ASSUME HandleInv, IsArrayCall
  PROVE  /\ call \in Call /\ call.tb \in Tbl
         /\ call.depth \in Nat /\ call.height \in Nat /\ call.lvls \in Int
         /\ call.mode = "count"
         /\ stack \in Seq(Slot) /\ Len(stack) \in Nat
         /\ levels[call.tb] \in Seq(Nat) /\ Len(levels[call.tb]) \in Nat
         /\ DOMAIN levels[call.tb] = 1 .. Len(levels[call.tb])
<1>1. /\ call \in Call /\ stack \in Seq(Slot) /\ levels \in [Tbl -> Seq(Nat)]
      /\ call.mode = "count"
  BY DEF HandleInv, TypeOK, IsArrayCall, ArrayCallOK
<1>2. /\ call.tb \in Tbl /\ call.depth \in Nat /\ call.height \in Nat
      /\ call.lvls \in Int
  BY <1>1 DEF Call
<1>3. levels[call.tb] \in Seq(Nat)
  BY <1>1, <1>2
<1> QED
  BY <1>1, <1>2, <1>3

\* An array call that starts has opened nothing.
LEMMA BeginFrame ==
  ASSUME HandleInv, NEW t \in Tbl,
         Open(t) \/ Close(t) \/ Reopen(t) \/ Array(t) \/ TopOfNothing(t)
  PROVE  ArrayFrame'
<1>1. CASE Array(t)
  <2>1. /\ levels' = levels /\ stack' = stack
        /\ call'.tb = t /\ call'.lvls = 0
        /\ call'.depth = Len(levels[t]) /\ call'.height = Len(stack)
    BY <1>1 DEF Array, SetArray, GetArray, Begin
  <2>2. /\ Len(stack) \in Nat /\ Len(levels[t]) \in Nat
        /\ DOMAIN levels[t] = 1 .. Len(levels[t])
    <3>1. stack \in Seq(Slot) /\ levels[t] \in Seq(Nat)
      BY DEF HandleInv, TypeOK
    <3> QED
      BY <3>1
  <2>3. /\ \A j \in DOMAIN levels[t] : ~(j > Len(levels[t]))
        /\ Len(stack) + 1 .. Len(stack) = {}
        /\ Len(levels[t]) = Len(levels[t]) + 0
    BY <2>2
  <2> QED
    BY <2>1, <2>2, <2>3 DEF ArrayFrame
<1>2. CASE Open(t) \/ Close(t) \/ Reopen(t) \/ TopOfNothing(t)
  <2>1. call'.op \in {"open", "close", "reopen", "top"}
    BY <1>2 DEF Open, Close, Reopen, TopOfNothing, Begin
  <2> QED
    BY <2>1 DEF ArrayFrame, IsArrayCall
<1> QED
  BY <1>1, <1>2

\* A level that an array call opens is counted, and the handle it pushes is
\* above everything the call found.
LEMMA OpenedFrame ==
  ASSUME HandleInv, ArrayFrame, OpenBelow \/ OpenGlobal, IsArrayCall
  PROVE  ArrayFrame'
<1> DEFINE L == Len(levels[call.tb])
<1>1. /\ call \in Call /\ call.tb \in Tbl
      /\ call.depth \in Nat /\ call.height \in Nat
      /\ Len(stack) \in Nat /\ L \in Nat
      /\ DOMAIN levels[call.tb] = 1 .. L
  BY ArrayCallFields
<1>2. /\ call'.tb = call.tb /\ call'.lvls = call.lvls + 1
      /\ call'.depth = call.depth /\ call'.height = call.height
  BY <1>1, CountedIsCall DEF OpenBelow, OpenGlobal
<1>3. /\ Len(levels'[call.tb]) = L + 1
      /\ DOMAIN levels'[call.tb] = DOMAIN levels[call.tb] \cup {L + 1}
      /\ \A i \in DOMAIN levels[call.tb] :
           levels'[call.tb][i] = levels[call.tb][i]
      /\ \/ levels'[call.tb][L + 1] = 0 /\ Len(stack') = Len(stack)
         \/ /\ levels'[call.tb][L + 1] = Len(stack) + 1
            /\ Len(stack') = Len(stack) + 1
  BY OpenedLevel
<1>4. /\ call.lvls \in Nat
      /\ L = call.depth + call.lvls
      /\ call.height <= Len(stack)
      /\ \A j \in DOMAIN levels[call.tb] :
           j > call.depth => (levels[call.tb][j] = 0
                              \/ levels[call.tb][j] > call.height)
      /\ \A n \in call.height + 1 .. Len(stack) :
           \E j \in DOMAIN levels[call.tb] :
             j > call.depth /\ levels[call.tb][j] = n
  BY DEF ArrayFrame
<1> HIDE DEF L
<1>5. /\ call.lvls + 1 \in Nat
      /\ L + 1 = call.depth + (call.lvls + 1)
      /\ call.height <= Len(stack')
      /\ L + 1 > call.depth
  BY SMTT(30), <1>1, <1>3, <1>4
<1>6. ASSUME NEW j \in DOMAIN levels'[call.tb], j > call.depth
      PROVE  levels'[call.tb][j] = 0 \/ levels'[call.tb][j] > call.height
  <2>1. CASE j \in DOMAIN levels[call.tb]
    BY <1>3, <1>4, <1>6, <2>1
  <2>2. CASE j = L + 1
    BY <1>1, <1>3, <1>4, <2>2
  <2> QED
    BY <1>3, <2>1, <2>2
<1>7. ASSUME NEW n \in call.height + 1 .. Len(stack')
      PROVE  \E j \in DOMAIN levels'[call.tb] :
               j > call.depth /\ levels'[call.tb][j] = n
  <2>1. CASE n \in call.height + 1 .. Len(stack)
    <3>1. PICK j \in DOMAIN levels[call.tb] :
            j > call.depth /\ levels[call.tb][j] = n
      BY <1>4, <2>1
    <3> QED
      BY <1>3, <3>1
  <2>2. CASE n \notin call.height + 1 .. Len(stack)
    <3>1. n = Len(stack) + 1 /\ Len(stack') = Len(stack) + 1
      BY <1>1, <1>3, <2>2
    <3>2. levels'[call.tb][L + 1] = n /\ L + 1 \in DOMAIN levels'[call.tb]
      BY <1>1, <1>3, <3>1
    <3> QED
      BY <1>5, <3>2
  <2> QED
    BY <2>1, <2>2
<1> QED
  BY <1>2, <1>3, <1>5, <1>6, <1>7 DEF ArrayFrame

\* Closing a level of an array call drops the slots from its handle on.
LEMMA ClosedFrame ==
  ASSUME HandleInv, ArrayFrame, CloseLevel, IsArrayCall
  PROVE  ArrayFrame'
<1> DEFINE L == Len(levels[call.tb])
           H == levels[call.tb][L]
<1>1. /\ call \in Call /\ call.tb \in Tbl /\ call.mode = "count"
      /\ call.depth \in Nat /\ call.height \in Nat /\ call.lvls \in Int
      /\ Len(stack) \in Nat /\ L \in Nat
      /\ DOMAIN levels[call.tb] = 1 .. L
  BY ArrayCallFields
<1>2. /\ call'.tb = call.tb /\ call'.lvls = call.lvls - 1
      /\ call'.depth = call.depth /\ call'.height = call.height
      /\ call.lvls > 0
  <2>1. call' = Discounted(call) /\ call.lvls > 0
    BY <1>1 DEF CloseLevel, CloseEnds
  <2> QED
    BY <1>1, <2>1 DEF Discounted, Call
<1>3. /\ L > 0 /\ L \in DOMAIN levels[call.tb] /\ H \in Nat
      /\ Len(levels'[call.tb]) = L - 1
      /\ DOMAIN levels'[call.tb] = 1 .. L - 1
      /\ \A i \in 1 .. L - 1 : levels'[call.tb][i] = levels[call.tb][i]
      /\ Len(stack') = IF H > 0 THEN H - 1 ELSE Len(stack)
      /\ H <= Len(stack)
  BY ClosedLevel
<1>4. /\ L = call.depth + call.lvls
      /\ call.height <= Len(stack)
      /\ \A j \in DOMAIN levels[call.tb] :
           j > call.depth => (levels[call.tb][j] = 0
                              \/ levels[call.tb][j] > call.height)
      /\ \A n \in call.height + 1 .. Len(stack) :
           \E j \in DOMAIN levels[call.tb] :
             j > call.depth /\ levels[call.tb][j] = n
  BY DEF ArrayFrame
<1>5. L > call.depth /\ (H = 0 \/ H > call.height)
  BY <1>1, <1>2, <1>3, <1>4
<1> HIDE DEF L, H
<1>6. /\ call.lvls - 1 \in Nat
      /\ L - 1 = call.depth + (call.lvls - 1)
      /\ Len(stack') \in Nat /\ Len(stack') <= Len(stack)
      /\ H > 0 => Len(stack') = H - 1
      /\ call.height <= Len(stack')
  BY SMTT(30), <1>1, <1>2, <1>3, <1>4, <1>5
<1>7. ASSUME NEW j \in DOMAIN levels'[call.tb], j > call.depth
      PROVE  levels'[call.tb][j] = 0 \/ levels'[call.tb][j] > call.height
  <2>1. j \in 1 .. L - 1 /\ j \in DOMAIN levels[call.tb]
    BY <1>1, <1>3
  <2> QED
    BY <1>3, <1>4, <1>7, <2>1
<1>8. ASSUME NEW n \in call.height + 1 .. Len(stack')
      PROVE  \E j \in DOMAIN levels'[call.tb] :
               j > call.depth /\ levels'[call.tb][j] = n
  <2>1. n \in call.height + 1 .. Len(stack) /\ n > 0
        /\ (H > 0 => n < H)
    BY <1>1, <1>3, <1>6
  <2>2. PICK j \in DOMAIN levels[call.tb] :
          j > call.depth /\ levels[call.tb][j] = n
    BY <1>4, <2>1
  <2>3. j # L
    BY <1>3, <2>1, <2>2 DEF H
  <2>4. j \in 1 .. L - 1
    BY <1>1, <2>2, <2>3
  <2> QED
    BY <1>3, <2>2, <2>4
<1>9. Len(levels'[call.tb]) = L - 1
  BY <1>3
<1> QED
  BY <1>2, <1>6, <1>7, <1>8, <1>9 DEF ArrayFrame

\* The frame of an array call, step by step.
LEMMA NextFrame == HandleInv /\ ArrayFrame /\ [Next]_vars => ArrayFrame'
<1> SUFFICES ASSUME HandleInv, ArrayFrame, [Next]_vars PROVE ArrayFrame'
  OBVIOUS
<1>1. ASSUME NEW t \in Tbl,
             Open(t) \/ Close(t) \/ Reopen(t) \/ Array(t) \/ TopOfNothing(t)
      PROVE  ArrayFrame'
  BY <1>1, BeginFrame
<1>2. ASSUME pc' = "idle"
      PROVE  ArrayFrame'
  BY <1>2 DEF ArrayFrame, IsArrayCall
<1>3. ASSUME stack' = stack, levels' = levels,
             call' = call \/ call' = NextRow(call), pc \in Phases
      PROVE  ArrayFrame'
  <2>1. call \in Call
    BY <1>3, CallFacts DEF HandleInv
  <2>2. /\ call'.op = call.op /\ call'.tb = call.tb /\ call'.lvls = call.lvls
        /\ call'.depth = call.depth /\ call'.height = call.height
    BY <1>3, <2>1 DEF NextRow, Call
  <2>3. CASE IsArrayCall'
    <3>1. IsArrayCall
      BY <1>3, <2>2, <2>3 DEF IsArrayCall, Phases
    <3> QED
      BY <1>3, <2>2, <3>1 DEF ArrayFrame
  <2>4. CASE ~IsArrayCall'
    BY <2>4 DEF ArrayFrame
  <2> QED
    BY <2>3, <2>4
<1>4. ASSUME NEW t \in Tbl, SetField(t) \/ TopTable(t)
      PROVE  ArrayFrame'
  BY <1>2, <1>4 DEF SetField, TopTable
<1>5. CASE Run
  BY <1>2, <1>5 DEF Run
<1>6. CASE OpenBelow \/ OpenGlobal
  <2>1. CASE IsArrayCall
    BY <1>6, <2>1, OpenedFrame
  <2>2. CASE ~IsArrayCall
    <3>1. call'.op = call.op /\ pc = "open" /\ pc' = "open"
      BY <1>6, CallFacts, CountedIsCall
         DEF HandleInv, OpenBelow, OpenGlobal, Phases
    <3> QED
      BY <2>2, <3>1 DEF ArrayFrame, IsArrayCall
  <2> QED
    BY <2>1, <2>2
<1>7. CASE OpenDone \/ Vector \/ MatrixRow \/ MatrixDone
  <2>1. stack' = stack /\ levels' = levels
    BY <1>7, QuietSteps
  <2>2. /\ pc \in Phases
        /\ pc' = "idle" \/ call' = call \/ call' = NextRow(call)
    BY <1>7 DEF OpenDone, Vector, MatrixRow, MatrixDone, Return, Phases
  <2> QED
    BY <1>2, <1>3, <2>1, <2>2
<1>8. CASE OpenNoParent \/ ClosedTable \/ OutOfMemory
  <2>1. stack' = stack /\ levels' = levels /\ call' = call /\ pc \in Phases
    BY <1>8 DEF OpenNoParent, ClosedTable, OutOfMemory, Fault, Phases
  <2> QED
    BY <1>3, <2>1
<1>9. CASE CloseLevel
  <2>1. CASE IsArrayCall
    BY <1>9, <2>1, ClosedFrame
  <2>2. CASE ~IsArrayCall
    <3>1. /\ call \in Call /\ pc = "close"
      BY <1>9, CallFacts DEF HandleInv, CloseLevel, Phases
    <3>2. \/ pc' = "idle"
          \/ call'.op = call.op
      BY <1>9, <3>1 DEF CloseLevel, AfterClose, Return, Discounted, Call
    <3> QED
      BY <1>2, <2>2, <3>1, <3>2 DEF ArrayFrame, IsArrayCall
  <2> QED
    BY <2>1, <2>2
<1>10. CASE CloseDone
  <2>1. call \in Call /\ pc = "close"
    BY <1>10, CallFacts DEF HandleInv, CloseDone, Phases
  <2>2. pc' = "idle" \/ call'.op = "reopen"
    BY <1>10, <2>1 DEF CloseDone, AfterClose, Return, Call
  <2> QED
    BY <1>2, <2>2 DEF ArrayFrame, IsArrayCall
<1>11. CASE Stopped \/ UNCHANGED vars
  BY <1>11 DEF Stopped, vars, ArrayFrame, IsArrayCall
<1> QED
  BY <1>1, <1>4, <1>5, <1>6, <1>7, <1>8, <1>9, <1>10, <1>11 DEF Next, Step

\* While it runs, an array call has added its own levels and their handles
\* to the table variable and the stack, and nothing else.
THEOREM ArrayFrameHolds == Spec => []ArrayFrame
<1>1. Init => ArrayFrame
  BY DEF Init, ArrayFrame, IsArrayCall
<1>2. HandleInv /\ ArrayFrame /\ [Next]_vars => ArrayFrame'
  BY NextFrame
<1> QED
  BY <1>1, <1>2, HandlesAreSafe, PTL DEF Spec

\* The step in which an array call returns.
LEMMA NextRestores == HandleInv /\ ArrayFrame /\ [Next]_vars => [CallRestores]_vars
<1> SUFFICES ASSUME HandleInv, ArrayFrame, Next,
                    call.op \in {"vector", "matrix"}, pc' = "idle"
             PROVE  /\ Len(levels'[call.tb]) = call.depth
                    /\ Len(stack') = call.height
  BY DEF CallRestores
<1>1. pc # "idle"
  BY DEF HandleInv, TypeOK, NoCall
<1>2. IsArrayCall
  BY <1>1 DEF IsArrayCall
<1>3. CloseLevel \/ CloseDone
  BY <1>1
     DEF Next, Step, Open, Close, Reopen, Array, SetArray, GetArray, Begin,
         SetField, TopTable, TopOfNothing, Run, OpenBelow, OpenGlobal,
         OpenNoParent, OpenDone, Vector, MatrixRow, MatrixDone, ClosedTable,
         OutOfMemory, Fault, Faults, Stopped, vars
<1>4. call.mode = "count"
  BY <1>2, ArrayCallFields
<1>5. CloseDone
  BY <1>3, <1>4 DEF CloseLevel
<1>6. /\ levels' = levels /\ stack' = stack
      /\ ~IsOpen(call.tb) \/ call.lvls <= 0
  BY <1>4, <1>5 DEF CloseDone, CloseEnds
<1>7. /\ Len(stack) \in Nat /\ call.depth \in Nat /\ call.height \in Nat
      /\ Len(levels[call.tb]) \in Nat
      /\ DOMAIN levels[call.tb] = 1 .. Len(levels[call.tb])
      /\ ~IsOpen(call.tb) => Len(levels[call.tb]) = 0
  BY <1>2, ArrayCallFields DEF IsOpen
<1>8. /\ call.lvls \in Nat
      /\ Len(levels[call.tb]) = call.depth + call.lvls
      /\ call.height <= Len(stack)
      /\ \A n \in call.height + 1 .. Len(stack) :
           \E j \in DOMAIN levels[call.tb] :
             j > call.depth /\ levels[call.tb][j] = n
  BY <1>2 DEF ArrayFrame
<1>9. Len(levels[call.tb]) = call.depth
  BY <1>6, <1>7, <1>8
<1>10. ~(call.height < Len(stack))
  <2> SUFFICES ASSUME call.height < Len(stack) PROVE FALSE
    OBVIOUS
  <2>1. Len(stack) \in call.height + 1 .. Len(stack)
    BY <1>7
  <2>2. PICK j \in DOMAIN levels[call.tb] : j > call.depth
    BY <1>8, <2>1
  <2> QED
    BY <1>7, <1>9, <2>2
<1> QED
  BY <1>6, <1>7, <1>8, <1>9, <1>10

\* lua_set and lua_get of an array under a name restore the level and the
\* stack, for every name, every heap and every table the names lead to.
THEOREM ArrayCallsRestore == Spec => ArrayCallRestores
<1>1. HandleInv /\ ArrayFrame /\ [Next]_vars => [CallRestores]_vars
  BY NextRestores
<1> QED
  BY <1>1, HandlesAreSafe, ArrayFrameHolds, PTL DEF Spec, ArrayCallRestores

----------------------------------------------------------------------------
(* An array call leaves alone what it found.                               *)

\* A level that an array call closes is one that it has opened.
LEMMA ClosesItsOwn ==
  ASSUME HandleInv, ArrayFrame, CloseLevel, IsArrayCall
  PROVE  /\ call.depth < Len(levels[call.tb])
         /\ call.height <= Len(stack')
<1> DEFINE L == Len(levels[call.tb])
           H == levels[call.tb][L]
<1>1. /\ call.mode = "count"
      /\ call.depth \in Nat /\ call.height \in Nat /\ call.lvls \in Int
      /\ Len(stack) \in Nat /\ L \in Nat
  BY ArrayCallFields
<1>2. call.lvls > 0
  BY <1>1 DEF CloseLevel, CloseEnds
<1>3. /\ L \in DOMAIN levels[call.tb] /\ H \in Nat
      /\ Len(stack') = IF H > 0 THEN H - 1 ELSE Len(stack)
  BY ClosedLevel
<1>4. /\ L = call.depth + call.lvls
      /\ call.height <= Len(stack)
      /\ L > call.depth => (H = 0 \/ H > call.height)
  BY <1>3 DEF ArrayFrame
<1> HIDE DEF L, H
<1>5. call.depth < L
  BY <1>1, <1>2, <1>4
<1>6. call.height <= Len(stack')
  BY <1>1, <1>3, <1>4, <1>5
<1> QED
  BY <1>5, <1>6 DEF L

\* A step of an array call opens a level above, closes one of its own, or
\* changes neither the levels nor the stack.
LEMMA NextKeepsCaller == HandleInv /\ ArrayFrame /\ [Next]_vars => ArrayCallKept
<1> SUFFICES ASSUME HandleInv, ArrayFrame, [Next]_vars, IsArrayCall
             PROVE  /\ \A n \in 1 .. call.height :
                         n <= Len(stack') /\ stack'[n] = stack[n]
                    /\ \A u \in Tbl : \A i \in DOMAIN levels[u] :
                         (u # call.tb \/ i <= call.depth) =>
                           i \in DOMAIN levels'[u] /\ levels'[u][i] = levels[u][i]
  BY DEF ArrayCallKept
<1>1. /\ call.tb \in Tbl /\ call.depth \in Nat /\ call.height \in Nat
      /\ Len(stack) \in Nat /\ Len(levels[call.tb]) \in Nat
      /\ DOMAIN levels[call.tb] = 1 .. Len(levels[call.tb])
      /\ call.height <= Len(stack)
  BY ArrayCallFields DEF ArrayFrame
<1>2. CASE stack' = stack /\ levels' = levels
  BY <1>1, <1>2
<1>3. CASE OpenBelow \/ OpenGlobal
  <2>1. /\ \A u \in Tbl \ {call.tb} : levels'[u] = levels[u]
        /\ DOMAIN levels[call.tb] \subseteq DOMAIN levels'[call.tb]
        /\ \A i \in DOMAIN levels[call.tb] :
             levels'[call.tb][i] = levels[call.tb][i]
        /\ \A n \in 1 .. Len(stack) : stack'[n] = stack[n]
        /\ Len(stack') = Len(stack) \/ Len(stack') = Len(stack) + 1
    BY <1>3, OpenedLevel
  <2>2. \A n \in 1 .. call.height : n \in 1 .. Len(stack) /\ n <= Len(stack')
    BY <1>1, <2>1
  <2> QED
    BY <2>1, <2>2
<1>4. CASE CloseLevel
  <2>1. /\ \A u \in Tbl \ {call.tb} : levels'[u] = levels[u]
        /\ DOMAIN levels'[call.tb] = 1 .. Len(levels[call.tb]) - 1
        /\ \A i \in 1 .. Len(levels[call.tb]) - 1 :
             levels'[call.tb][i] = levels[call.tb][i]
        /\ \A n \in 1 .. Len(stack') : stack'[n] = stack[n]
        /\ \/ Len(stack') = Len(stack)
           \/ Len(stack') = levels[call.tb][Len(levels[call.tb])] - 1
        /\ levels[call.tb][Len(levels[call.tb])] \in Nat
    BY <1>4, ClosedLevel
  <2>2. /\ call.depth < Len(levels[call.tb])
        /\ call.height <= Len(stack')
    BY <1>4, ClosesItsOwn
  <2>3. Len(stack') \in Int
    BY <1>1, <2>1
  <2>4. \A n \in 1 .. call.height : n \in 1 .. Len(stack') /\ n <= Len(stack')
    BY <1>1, <2>2, <2>3
  <2>5. \A i \in DOMAIN levels[call.tb] :
          i <= call.depth => i \in 1 .. Len(levels[call.tb]) - 1
    BY <1>1, <2>2
  <2> QED
    BY <2>1, <2>4, <2>5
<1>5. CASE Step \/ Stopped \/ UNCHANGED vars
  BY <1>2, <1>3, <1>4, <1>5, QuietSteps DEF Step, Stopped
<1>6. CASE ~(Step \/ Stopped \/ UNCHANGED vars)
  BY <1>6
     DEF Next, Open, Close, Reopen, Array, SetArray, GetArray, Begin,
         SetField, TopTable, TopOfNothing, Run, IsArrayCall
<1> QED
  BY <1>5, <1>6

\* Whatever is on the stack when an array call begins, and whatever levels are
\* open then, of its own variable or of others, is there at every step of it.
THEOREM ArrayCallsKeep == Spec => ArrayCallKeeps
<1>1. HandleInv /\ ArrayFrame /\ [Next]_vars => [ArrayCallKept]_vars
  BY NextKeepsCaller
<1> QED
  BY <1>1, HandlesAreSafe, ArrayFrameHolds, PTL DEF Spec, ArrayCallKeeps

----------------------------------------------------------------------------
(* The calls that open levels count them, and start from a level.          *)

\* A lua_close_open that counts.
Recounts == call.op = "reopen" /\ call.mode = "count"

\* A lua_open counts its levels and closes none; whatever opens levels has at
\* least those that it started from; a lua_close_open has a count to close, and
\* begins to open with count 0 unless its close met the end of the levels.
OpenFrame ==
  /\ call.op = "open" =>
       pc # "close" /\ Len(levels[call.tb]) = call.depth + call.lvls
  /\ pc \in {"open", "vector", "matrix"} =>
       call.depth <= Len(levels[call.tb])
  /\ pc = "close" /\ Recounts => call.lvls \in Nat
  /\ pc = "open" /\ Recounts /\ call.depth > 0 =>
       Len(levels[call.tb]) = call.depth + call.lvls

\* The arguments of a running call, and its levels.
LEMMA RunningFacts ==
  ASSUME HandleInv, pc \in Phases
  PROVE  /\ call \in Call /\ call.tb \in Tbl /\ call.depth \in Nat
         /\ call.lvls \in Int /\ Len(levels[call.tb]) \in Nat
         /\ ~IsOpen(call.tb) => Len(levels[call.tb]) = 0
<1>1. call \in Call /\ levels \in [Tbl -> Seq(Nat)]
  BY CallFacts DEF HandleInv, TypeOK
<1>2. call.tb \in Tbl /\ call.depth \in Nat /\ call.lvls \in Int
  BY <1>1 DEF Call
<1>3. levels[call.tb] \in Seq(Nat)
  BY <1>1, <1>2
<1> QED
  BY <1>1, <1>2, <1>3 DEF IsOpen

\* A call that starts is at the level it starts from.
LEMMA BeginOpens ==
  ASSUME HandleInv, NEW t \in Tbl,
         Open(t) \/ Close(t) \/ Reopen(t) \/ Array(t) \/ TopOfNothing(t)
  PROVE  OpenFrame'
<1>1. /\ levels' = levels /\ call'.tb = t /\ call'.depth = Len(levels[t])
      /\ call'.op = "open" => pc' = "open" /\ call'.lvls = 0
      /\ call'.op = "reopen" => pc' = "close" /\ call'.lvls \in Nat
  <2>1. CASE Open(t)
    BY <2>1 DEF Open, Begin
  <2>2. CASE Close(t)
    BY <2>2 DEF Close, Begin
  <2>3. CASE Reopen(t)
    <3>1. 0 .. MaxLvls \subseteq Nat /\ 0 \in Nat
      BY TblAssumption
    <3> QED
      BY <2>3, <3>1 DEF Reopen, Begin
  <2>4. CASE Array(t)
    BY <2>4 DEF Array, SetArray, GetArray, Begin
  <2>5. CASE TopOfNothing(t)
    BY <2>5 DEF TopOfNothing, Begin
  <2> QED
    BY <2>1, <2>2, <2>3, <2>4, <2>5
<1>2. Len(levels[t]) \in Nat
  <2>1. levels[t] \in Seq(Nat)
    BY DEF HandleInv, TypeOK
  <2> QED
    BY <2>1
<1>3. Len(levels'[call'.tb]) = call'.depth /\ call'.depth \in Nat
  BY <1>1, <1>2
<1>4. ASSUME call'.op = "open"
      PROVE  pc' # "close" /\ Len(levels'[call'.tb]) = call'.depth + call'.lvls
  <2>1. pc' = "open" /\ call'.lvls = 0
    BY <1>1, <1>4
  <2>2. \A n \in Nat : n = n + 0
    OBVIOUS
  <2> QED
    BY <1>3, <2>1, <2>2
<1>5. call'.depth <= Len(levels'[call'.tb])
  BY <1>3
<1> QED
  BY <1>1, <1>4, <1>5 DEF OpenFrame, Recounts

\* A level that is opened is counted.
LEMMA OpenedOpens ==
  ASSUME HandleInv, OpenFrame, OpenBelow \/ OpenGlobal
  PROVE  OpenFrame'
<1>1. pc = "open" /\ pc' = "open" /\ call' = Counted(call) /\ pc \in Phases
  BY DEF OpenBelow, OpenGlobal, Phases
<1>2. /\ call \in Call /\ call.tb \in Tbl /\ call.depth \in Nat
      /\ call.lvls \in Int /\ Len(levels[call.tb]) \in Nat
  BY <1>1, RunningFacts
<1>3. /\ call'.op = call.op /\ call'.tb = call.tb /\ call'.mode = call.mode
      /\ call'.lvls = call.lvls + 1 /\ call'.depth = call.depth
  BY <1>1, <1>2, CountedIsCall
<1>4. Len(levels'[call.tb]) = Len(levels[call.tb]) + 1
  BY OpenedLevel
<1>5. /\ call.op = "open" => Len(levels[call.tb]) = call.depth + call.lvls
      /\ Recounts /\ call.depth > 0 =>
           Len(levels[call.tb]) = call.depth + call.lvls
      /\ call.depth <= Len(levels[call.tb])
  BY <1>1 DEF OpenFrame
<1>6. DEFINE l == Len(levels[call.tb])
             d == call.depth
             v == call.lvls
<1>7. /\ l \in Nat /\ d \in Nat /\ v \in Int /\ d <= l
      /\ call.op = "open" => l = d + v
      /\ Recounts /\ d > 0 => l = d + v
  BY <1>2, <1>5
<1> HIDE DEF l, d, v
<1>8. /\ d <= l + 1
      /\ l = d + v => l + 1 = d + (v + 1)
  BY <1>7
<1>9. /\ call.op = "open" => l + 1 = d + (v + 1)
      /\ Recounts /\ d > 0 => l + 1 = d + (v + 1)
  BY <1>7, <1>8
<1>10. Recounts' = Recounts
  BY <1>3 DEF Recounts
<1> QED
  BY <1>1, <1>3, <1>4, <1>8, <1>9, <1>10 DEF OpenFrame, l, d, v

\* What follows a close starts from the level it got to.
LEMMA ClosedOpens ==
  ASSUME HandleInv, HandleInv', OpenFrame, CloseLevel \/ CloseDone
  PROVE  OpenFrame'
<1>1. /\ pc = "close" /\ pc \in Phases /\ call.op # "open"
      /\ \/ AfterClose
         \/ CloseLevel /\ pc' = pc /\ call' = Discounted(call)
  BY DEF CloseLevel, CloseDone, OpenFrame, Phases
<1>2. call \in Call
  BY <1>1, RunningFacts
<1>3. CASE CloseLevel /\ pc' = pc /\ call' = Discounted(call)
  <2>1. call'.op = call.op
    BY <1>2, <1>3 DEF Discounted, Call
  <2>2. ASSUME Recounts' PROVE call'.lvls \in Nat
    <3>1. call.mode = "count" /\ call'.lvls = call.lvls - 1
      BY <1>2, <1>3, <2>1, <2>2 DEF Recounts, Discounted, Call
    <3>2. call.lvls \in Nat
      BY <1>1, <2>1, <2>2, <3>1 DEF OpenFrame, Recounts
    <3>3. ~(call.lvls <= 0)
      BY <1>3, <3>1 DEF CloseLevel, CloseEnds
    <3> QED
      BY <3>1, <3>2, <3>3
  <2> QED
    BY <1>1, <1>3, <2>1, <2>2 DEF OpenFrame
<1>4. CASE AfterClose /\ call.op = "reopen"
  <2>1. /\ pc' = "open" /\ call'.op = "reopen" /\ call'.tb = call.tb
        /\ call'.depth = Len(levels'[call.tb])
        /\ call'.mode = call.mode /\ call'.lvls = call.lvls
    BY <1>2, <1>4 DEF AfterClose, Call
  <2>2. Len(levels'[call.tb]) \in Nat
    <3>1. levels' \in [Tbl -> Seq(Nat)] /\ call.tb \in Tbl
      BY <1>1, RunningFacts DEF HandleInv, TypeOK
    <3>2. levels'[call.tb] \in Seq(Nat)
      BY <3>1
    <3> QED
      BY <3>2
  <2>3. Len(levels'[call.tb]) <= Len(levels'[call.tb])
    BY <2>2
  <2>4. ASSUME Recounts', call'.depth > 0
        PROVE  Len(levels'[call'.tb]) = call'.depth + call'.lvls
    <3>1. call.mode = "count" /\ Recounts
      BY <1>4, <2>1, <2>4 DEF Recounts
    <3>2. CloseDone /\ levels' = levels
      BY <1>1, <2>1, <3>1 DEF CloseLevel, CloseDone
    <3>3. IsOpen(call.tb)
      BY <1>1, <2>1, <2>2, <2>4, <3>2, RunningFacts
    <3>4. call.lvls \in Nat /\ call.lvls <= 0
      BY <1>1, <3>1, <3>2, <3>3 DEF CloseDone, CloseEnds, OpenFrame
    <3>5. call'.lvls = 0
      BY <2>1, <3>4
    <3>6. \A n \in Nat : n = n + 0
      OBVIOUS
    <3> QED
      BY <2>1, <2>2, <3>5, <3>6
  <2> QED
    BY <2>1, <2>3, <2>4 DEF OpenFrame
<1>5. CASE AfterClose /\ call.op # "reopen"
  <2>1. pc' = "idle" /\ call' = NoCall
    BY <1>5 DEF AfterClose, Return
  <2> QED
    BY <2>1 DEF OpenFrame, NoCall
<1> QED
  BY <1>1, <1>3, <1>4, <1>5

\* Every step keeps the counts.
LEMMA NextOpens == HandleInv /\ OpenFrame /\ [Next]_vars => OpenFrame'
<1> SUFFICES ASSUME HandleInv, OpenFrame, [Next]_vars PROVE OpenFrame'
  OBVIOUS
<1>1. HandleInv'
  BY NextHandles
<1>2. ASSUME NEW t \in Tbl,
             Open(t) \/ Close(t) \/ Reopen(t) \/ Array(t) \/ TopOfNothing(t)
      PROVE  OpenFrame'
  BY <1>2, BeginOpens
<1>3. ASSUME pc' = "idle"
      PROVE  OpenFrame'
  <2>1. call'.op = "none"
    BY <1>1, <1>3 DEF HandleInv, TypeOK, NoCall
  <2> QED
    BY <1>3, <2>1 DEF OpenFrame
<1>4. ASSUME NEW t \in Tbl, SetField(t) \/ TopTable(t)
      PROVE  OpenFrame'
  BY <1>3, <1>4 DEF SetField, TopTable
<1>5. CASE Run
  BY <1>3, <1>5 DEF Run
<1>6. CASE OpenBelow \/ OpenGlobal
  BY <1>6, OpenedOpens
<1>7. CASE OpenDone \/ Vector \/ MatrixRow \/ MatrixDone
  <2>1. levels' = levels
    BY <1>7, QuietSteps
  <2>2. /\ pc \in {"open", "vector", "matrix"} /\ pc \in Phases
        /\ pc' = "idle" \/ call' = call \/ call' = NextRow(call)
        /\ pc' = "close" => pc \in {"vector", "matrix"}
    BY <1>7 DEF OpenDone, Vector, MatrixRow, MatrixDone, Return, Phases
  <2>3. pc \in {"vector", "matrix"} => call.op # "open"
    BY DEF HandleInv, ArrayCallOK, IsArrayCall
  <2>4. CASE call' = call \/ call' = NextRow(call)
    <3>1. call \in Call
      BY <2>2, RunningFacts
    <3>2. /\ call'.op = call.op /\ call'.tb = call.tb
          /\ call'.mode = call.mode
          /\ call'.lvls = call.lvls /\ call'.depth = call.depth
      BY <2>4, <3>1 DEF NextRow, Call
    <3>3. pc' \in {"idle", "vector", "matrix", "close"}
      BY <1>7 DEF OpenDone, Vector, MatrixRow, MatrixDone, Return
    <3>4. pc' = "close" => call.op # "reopen"
      BY <2>2 DEF HandleInv, ArrayCallOK, IsArrayCall
    <3> QED
      BY <2>1, <2>2, <2>3, <3>2, <3>3, <3>4 DEF OpenFrame, Recounts
  <2> QED
    BY <1>3, <2>2, <2>4
<1>8. CASE OpenNoParent \/ ClosedTable \/ OutOfMemory
  <2>1. levels' = levels /\ call' = call /\ pc' \in Faults
    BY <1>8 DEF OpenNoParent, ClosedTable, OutOfMemory, Fault, Faults
  <2>2. pc' \notin {"open", "vector", "matrix", "close"}
    BY <2>1 DEF Faults
  <2> QED
    BY <2>1, <2>2 DEF OpenFrame
<1>9. CASE CloseLevel \/ CloseDone
  BY <1>1, <1>9, ClosedOpens
<1>10. CASE Stopped \/ UNCHANGED vars
  BY <1>10 DEF Stopped, vars, OpenFrame, Recounts
<1> QED
  BY <1>2, <1>4, <1>5, <1>6, <1>7, <1>8, <1>9, <1>10 DEF Next, Step

\* In every reachable state the counts are right.
LEMMA OpenFrameHolds == Spec => []OpenFrame
<1>1. Init => OpenFrame
  BY DEF Init, OpenFrame, NoCall
<1> QED
  BY <1>1, NextOpens, HandlesAreSafe, PTL DEF Spec

\* tbl_open_ and the array calls count in lvls every level they open, for
\* every name and whatever its keys lead to; so does lua_close_open, when its
\* close has used up lvls.
THEOREM LevelsAreCounted == Spec => []LevelsCounted
<1>1. HandleInv /\ OpenFrame /\ ArrayFrame => LevelsCounted
  <2> SUFFICES ASSUME HandleInv, OpenFrame, ArrayFrame PROVE LevelsCounted
    OBVIOUS
  <2>1. pc = "idle" => call.op = "none"
    BY DEF HandleInv, TypeOK, NoCall
  <2> QED
    BY <2>1 DEF OpenFrame, Recounts, ArrayFrame, IsArrayCall, LevelsCounted
<1> QED
  BY <1>1, HandlesAreSafe, OpenFrameHolds, ArrayFrameHolds, PTL

\* A call that starts from an open table never meets a closed one.
THEOREM OpenTablesAreSafe == Spec => []OpenTableIsSafe
<1>1. Init => OpenTableIsSafe
  BY DEF Init, OpenTableIsSafe
<1>2. HandleInv /\ OpenFrame /\ OpenTableIsSafe /\ [Next]_vars
        => OpenTableIsSafe'
  <2> SUFFICES ASSUME HandleInv, OpenFrame, OpenTableIsSafe, [Next]_vars
               PROVE  OpenTableIsSafe'
    OBVIOUS
  <2>1. CASE OpenNoParent \/ ClosedTable
    <3>1. /\ call' = call /\ ~IsOpen(call.tb) /\ pc \in Phases
          /\ pc \in {"open", "vector", "matrix"}
      BY <2>1 DEF OpenNoParent, ClosedTable, Fault, Phases
    <3>2. /\ call.depth \in Nat /\ Len(levels[call.tb]) = 0
      BY <3>1, RunningFacts
    <3>3. call.depth <= Len(levels[call.tb])
      BY <3>1 DEF OpenFrame
    <3>4. call.depth = 0
      BY <3>2, <3>3
    <3> QED
      BY <3>1, <3>4 DEF OpenTableIsSafe
  <2>2. CASE UNCHANGED vars
    BY <2>2 DEF vars, OpenTableIsSafe
  <2>3. CASE Next /\ ~(OpenNoParent \/ ClosedTable) /\ ~UNCHANGED vars
    <3>1. pc' \notin {"no parent", "closed table"}
      <4>1. CASE ~Step
        <5>1. ASSUME NEW t \in Tbl,
                     Open(t) \/ Close(t) \/ Reopen(t) \/ Array(t)
                       \/ TopOfNothing(t)
              PROVE  pc' \in {"open", "close", "underflow"}
          BY <5>1 DEF Open, Close, Reopen, Array, SetArray, GetArray,
                      TopOfNothing, Begin
        <5>2. ASSUME NEW t \in Tbl, SetField(t) \/ TopTable(t)
              PROVE  pc' = "idle"
          BY <5>2 DEF SetField, TopTable
        <5>3. CASE Run
          BY <5>3 DEF Run
        <5> QED
          BY <2>3, <4>1, <5>1, <5>2, <5>3 DEF Next, Stopped
      <4>2. CASE OpenBelow \/ OpenGlobal \/ OpenDone
        BY <4>2 DEF OpenBelow, OpenGlobal, OpenDone, Return
      <4>3. CASE Vector \/ MatrixRow \/ MatrixDone
        BY <4>3 DEF Vector, MatrixRow, MatrixDone
      <4>4. CASE CloseLevel \/ CloseDone \/ OutOfMemory
        BY <4>4 DEF CloseLevel, CloseDone, AfterClose, Return, OutOfMemory,
                    Fault
      <4> QED
        BY <2>3, <4>1, <4>2, <4>3, <4>4 DEF Step
    <3> QED
      BY <3>1 DEF OpenTableIsSafe
  <2> QED
    BY <2>1, <2>2, <2>3
<1> QED
  BY <1>1, <1>2, HandlesAreSafe, OpenFrameHolds, PTL DEF Spec

----------------------------------------------------------------------------
(* Every call ends.                                                        *)

\* StepsLeft, from where a call of op is, the length of its name, its row and
\* the number of levels of its variable.
Rest(p, op, n, r, l) ==
  IF p = "open"
  THEN IF op \in {"vector", "matrix"}
       THEN 2 * (n + 1) + Extent + 1 + (l + 1)
       ELSE n + 1
  ELSE IF p \in {"vector", "matrix"}
  THEN (IF r > Extent THEN 1 ELSE Extent + 2 - r) + (l + 1)
  ELSE IF p = "close"
  THEN IF op = "reopen" THEN (l + 1) + (n + 1) ELSE l + 1
  ELSE 0

\* A call that runs has a step left.
LEMMA RestIsLeft ==
  ASSUME NEW p, NEW op, NEW n \in Nat, NEW r \in Nat \ {0}, NEW l \in Nat
  PROVE  /\ Rest(p, op, n, r, l) \in Nat
         /\ p \in Phases => Rest(p, op, n, r, l) > 0
  BY VMAssumption DEF Rest, Phases

\* What opening a level, a row, closing a level, and going on to the next
\* phase take away.
LEMMA RestFalls ==
  ASSUME NEW op, NEW n \in Nat, NEW r \in Nat \ {0}, NEW l \in Nat
  PROVE  /\ \A m \in Nat : m < n =>
              Rest("open", op, m, r, l + 1) < Rest("open", op, n, r, l)
         /\ op \in {"vector", "matrix"} =>
              Rest(op, op, n, r, l) < Rest("open", op, n, r, l)
         /\ r <= Extent =>
              Rest("matrix", op, n, r + 1, l) < Rest("matrix", op, n, r, l)
         /\ op \in {"vector", "matrix"} => \A p \in {"vector", "matrix"} :
              Rest("close", op, n, r, l) < Rest(p, op, n, r, l)
         /\ l > 0 => Rest("close", op, n, r, l - 1) < Rest("close", op, n, r, l)
         /\ op = "reopen" => \A m \in Nat :
              Rest("open", op, n, r, m) < Rest("close", op, n, r, l)
<1>1. Extent \in Nat
  BY VMAssumption
<1>2. \A m \in Nat : m < n =>
        Rest("open", op, m, r, l + 1) < Rest("open", op, n, r, l)
  BY <1>1 DEF Rest
<1>3. op \in {"vector", "matrix"} =>
        Rest(op, op, n, r, l) < Rest("open", op, n, r, l)
  BY <1>1 DEF Rest
<1>4. r <= Extent =>
        Rest("matrix", op, n, r + 1, l) < Rest("matrix", op, n, r, l)
  BY <1>1 DEF Rest
<1>5. op \in {"vector", "matrix"} => \A p \in {"vector", "matrix"} :
        Rest("close", op, n, r, l) < Rest(p, op, n, r, l)
  BY <1>1 DEF Rest
<1>6. l > 0 => Rest("close", op, n, r, l - 1) < Rest("close", op, n, r, l)
  BY <1>1 DEF Rest
<1>7. op = "reopen" => \A m \in Nat :
        Rest("open", op, n, r, m) < Rest("close", op, n, r, l)
  BY <1>1 DEF Rest
<1> QED
  BY <1>2, <1>3, <1>4, <1>5, <1>6, <1>7

\* The recursive call of tbl_open_ has a shorter name.
LEMMA NameShortens ==
  ASSUME NEW S, NEW nm \in Seq(S), nm # <<>>
  PROVE  Len(AfterDot(nm)) \in Nat /\ Len(AfterDot(nm)) < Len(nm)
<1>1. Len(nm) \in Nat /\ Len(nm) > 0
  OBVIOUS
<1>2. CASE Len(nm) >= 2
  <2>1. Len(nm) - 2 \in Nat
    BY <1>1, <1>2
  <2>2. Len(AfterDot(nm)) = Len(nm) - 2
    BY <2>1 DEF AfterDot
  <2> QED
    BY <1>1, <2>1, <2>2
<1>3. CASE Len(nm) < 2
  <2>1. 1 .. Len(nm) - 2 = 1 .. 0
    BY <1>1, <1>3
  <2>2. AfterDot(nm) = [i \in 1 .. 0 |-> nm[i + 2]]
    BY <2>1, Zenon DEF AfterDot
  <2>3. Len([i \in 1 .. 0 |-> nm[i + 2]]) = 0
    OBVIOUS
  <2> QED
    BY <1>1, <2>2, <2>3
<1> QED
  BY <1>1, <1>2, <1>3

\* StepsLeft in numbers.
LEMMA StepsAreRest ==
  ASSUME HandleInv, pc \in Phases
  PROVE  /\ StepsLeft = Rest(pc, call.op, Len(call.name), call.row,
                             Len(levels[call.tb]))
         /\ Len(call.name) \in Nat /\ call.row \in Nat \ {0}
         /\ Len(levels[call.tb]) \in Nat
         /\ StepsLeft \in Nat /\ StepsLeft > 0
<1>1. /\ call \in Call /\ call.name \in Seq(Name \cup {Dot})
      /\ call.row \in Nat \ {0}
  BY CallFacts DEF HandleInv
<1>2. Len(call.name) \in Nat /\ Len(levels[call.tb]) \in Nat
  BY <1>1, RunningFacts
<1>3. StepsLeft = Rest(pc, call.op, Len(call.name), call.row,
                       Len(levels[call.tb]))
  BY DEF StepsLeft, Rest, IsArrayCall, Phases
<1> QED
  BY <1>1, <1>2, <1>3, RestIsLeft

\* What a step leaves, of a call that goes on.
LEMMA StepsFallTo ==
  ASSUME HandleInv, HandleInv', pc \in Phases, pc' \in Phases,
         LET r == Rest(pc', call'.op, Len(call'.name), call'.row,
                       Len(levels'[call'.tb]))
         IN  r < Rest(pc, call.op, Len(call.name), call.row,
                      Len(levels[call.tb]))
  PROVE  StepsLeft' \in 0 .. StepsLeft - 1
<1>1. /\ call' \in Call /\ levels' \in [Tbl -> Seq(Nat)]
  BY DEF HandleInv, TypeOK, Phases
<1>2. /\ call'.name \in Seq(Name \cup {Dot}) /\ call'.row \in Nat \ {0}
      /\ levels'[call'.tb] \in Seq(Nat)
  BY <1>1 DEF Call
<1>3. Len(call'.name) \in Nat /\ Len(levels'[call'.tb]) \in Nat
  BY <1>2
<1>4. StepsLeft' = Rest(pc', call'.op, Len(call'.name), call'.row,
                        Len(levels'[call'.tb]))
  BY DEF StepsLeft, Rest, IsArrayCall, Phases
<1>5. StepsLeft' \in Nat
  BY <1>2, <1>3, <1>4, RestIsLeft
<1>6. StepsLeft' < StepsLeft
  BY <1>4, StepsAreRest
<1> QED
  BY <1>5, <1>6, StepsAreRest

\* Each step of a running call takes one of its steps, or ends it.
LEMMA NextFalls == HandleInv /\ [Next]_vars => [StepsFall]_vars
<1> SUFFICES ASSUME HandleInv, Next, pc \in Phases
             PROVE  StepsLeft' \in 0 .. StepsLeft - 1
  BY DEF StepsFall
<1>1. /\ call \in Call /\ call.tb \in Tbl
      /\ call.name \in Seq(Name \cup {Dot}) /\ call.row \in Nat \ {0}
      /\ Len(call.name) \in Nat /\ Len(levels[call.tb]) \in Nat
      /\ StepsLeft = Rest(pc, call.op, Len(call.name), call.row,
                          Len(levels[call.tb]))
      /\ StepsLeft \in Nat /\ StepsLeft > 0
      /\ HandleInv'
  BY CallFacts, StepsAreRest, NextHandles DEF HandleInv
<1>2. ASSUME pc' \notin Phases
      PROVE  StepsLeft' \in 0 .. StepsLeft - 1
  <2>1. StepsLeft' = 0
    BY <1>2 DEF StepsLeft, Phases
  <2> QED
    BY <1>1, <2>1
<1>3. Step
  BY DEF Next, Open, Close, Reopen, Array, SetArray, GetArray, Begin,
         SetField, TopTable, TopOfNothing, Run, Stopped, Phases, Faults
<1>4. CASE OpenBelow \/ OpenGlobal
  <2>1. /\ pc = "open" /\ pc' = "open" /\ call.name # <<>>
        /\ call' = Counted(call)
    BY <1>4 DEF OpenBelow, OpenGlobal, NameEnds
  <2>2. /\ call'.name = AfterDot(call.name) /\ call'.op = call.op
        /\ call'.row = call.row /\ call'.tb = call.tb
    BY <1>1, <2>1 DEF Counted, Call
  <2>3. Len(levels'[call.tb]) = Len(levels[call.tb]) + 1
    BY <1>4, OpenedLevel
  <2>4. Len(AfterDot(call.name)) \in Nat
        /\ Len(AfterDot(call.name)) < Len(call.name)
    BY <1>1, <2>1, NameShortens
  <2> QED
    BY <1>1, <2>1, <2>2, <2>3, <2>4, RestFalls, StepsFallTo DEF Phases
<1>5. CASE OpenDone
  <2>1. /\ pc = "open" /\ levels' = levels
        /\ \/ pc' = "idle"
           \/ /\ pc' = call.op /\ call' = call
              /\ call.op \in {"vector", "matrix"}
    BY <1>5 DEF OpenDone, Return
  <2>2. CASE pc' = "idle"
    BY <1>2, <2>2 DEF Phases
  <2>3. CASE pc' = call.op /\ call' = call /\ call.op \in {"vector", "matrix"}
    BY <1>1, <2>1, <2>3, RestFalls, StepsFallTo DEF Phases
  <2> QED
    BY <2>1, <2>2, <2>3
<1>6. CASE Vector \/ MatrixDone
  <2>1. /\ pc \in {"vector", "matrix"} /\ pc' = "close"
        /\ levels' = levels /\ call' = call
    BY <1>6 DEF Vector, MatrixDone
  <2>2. call.op \in {"vector", "matrix"}
    BY <2>1 DEF HandleInv, ArrayCallOK, IsArrayCall
  <2> QED
    BY <1>1, <2>1, <2>2, RestFalls, StepsFallTo DEF Phases
<1>7. CASE MatrixRow
  <2>1. /\ pc = "matrix" /\ pc' = "matrix" /\ call.row <= Extent
        /\ levels' = levels /\ call' = NextRow(call)
    BY <1>7 DEF MatrixRow
  <2>2. /\ call'.name = call.name /\ call'.op = call.op
        /\ call'.row = call.row + 1 /\ call'.tb = call.tb
    BY <1>1, <2>1 DEF NextRow, Call
  <2> QED
    BY <1>1, <2>1, <2>2, RestFalls, StepsFallTo DEF Phases
<1>8. CASE CloseLevel /\ pc' = "close"
  <2>1. pc = "close" /\ call' = Discounted(call)
    BY <1>8 DEF CloseLevel, AfterClose, Return
  <2>2. /\ call'.name = call.name /\ call'.op = call.op
        /\ call'.row = call.row /\ call'.tb = call.tb
    BY <1>1, <2>1 DEF Discounted, Call
  <2>3. /\ Len(levels[call.tb]) > 0
        /\ Len(levels'[call.tb]) = Len(levels[call.tb]) - 1
    BY <1>8, ClosedLevel
  <2>4. Rest("close", call.op, Len(call.name), call.row,
             Len(levels[call.tb]) - 1)
          < Rest("close", call.op, Len(call.name), call.row,
                 Len(levels[call.tb]))
    BY <1>1, <2>3, RestFalls
  <2> QED
    BY <1>1, <1>8, <2>1, <2>2, <2>3, <2>4, StepsFallTo DEF Phases
<1>9. CASE (CloseLevel \/ CloseDone) /\ pc' # "close"
  <2>1. /\ pc = "close" /\ AfterClose
    BY <1>9 DEF CloseLevel, CloseDone
  <2>2. CASE call.op = "reopen"
    <3>1. /\ pc' = "open" /\ call'.name = call.name /\ call'.op = call.op
          /\ call'.row = call.row /\ call'.tb = call.tb
      BY <1>1, <2>1, <2>2 DEF AfterClose, Call
    <3>2. Len(levels'[call.tb]) \in Nat
      <4>1. levels' \in [Tbl -> Seq(Nat)]
        BY <1>1 DEF HandleInv, TypeOK
      <4>2. levels'[call.tb] \in Seq(Nat)
        BY <1>1, <4>1
      <4> QED
        BY <4>2
    <3> QED
      BY <1>1, <2>1, <2>2, <3>1, <3>2, RestFalls, StepsFallTo DEF Phases
  <2>3. CASE call.op # "reopen"
    <3>1. pc' = "idle"
      BY <2>1, <2>3 DEF AfterClose, Return
    <3> QED
      BY <1>2, <3>1 DEF Phases
  <2> QED
    BY <2>2, <2>3
<1>10. CASE OpenNoParent \/ ClosedTable \/ OutOfMemory
  <2>1. pc' \in Faults
    BY <1>10 DEF OpenNoParent, ClosedTable, OutOfMemory, Fault, Faults
  <2> QED
    BY <1>2, <2>1 DEF Phases, Faults
<1>11. CASE CloseDone /\ pc' = "close"
  BY <1>11 DEF CloseDone, AfterClose, Return
<1> QED
  BY <1>3, <1>4, <1>5, <1>6, <1>7, <1>8, <1>9, <1>10, <1>11 DEF Step

\* The recursion of tbl_open_ and of tbl_close_ and the loop over the rows of a
\* matrix are finite, for every name, count and heap: no call takes more steps
\* than StepsLeft says when it begins.
THEOREM CallsTerminate == Spec => CallsEnd
<1>1. HandleInv /\ [Next]_vars => [StepsFall]_vars
  BY NextFalls
<1> QED
  BY <1>1, HandlesAreSafe, PTL DEF Spec, CallsEnd

----------------------------------------------------------------------------
(* Reading changes no value.                                               *)

\* Opening a field changes no field that has a value, of any table in use.
LEMMA ResolvePreserves ==
  ASSUME NEW s \in Seq(Slot), NEW hp \in Heap, NEW th \in Nat,
         th > 0 => th <= Len(s) /\ s[th] \in Ref,
         NEW j \in Key, NEW o \in Resolve(s, hp, th, j),
         NEW r \in Ref \ Fresh(s, hp), NEW k \in Key, hp[r][k] # Nil
  PROVE  o.heap[r][k] = hp[r][k]
<1>1. CASE Field(s, hp, th, j) = Nil /\ th > 0
  <2>1. PICK q \in Fresh(s, hp) :
          o = [stack  |-> Append(s, q), heap |-> Attached(s, hp, th, j, q),
               handle |-> Len(s) + 1]
    BY <1>1 DEF Resolve
  <2>2. o.heap = Attached(s, hp, th, j, q) /\ r # q
    BY <2>1
  <2>3. hp[s[th]][j] = Nil /\ hp[r] \in [Key -> Value]
    BY <1>1 DEF Field, Heap, Table
  <2>4. o.heap[r] = IF r = s[th] THEN [hp[r] EXCEPT ![j] = q] ELSE hp[r]
    BY <2>2 DEF Attached
  <2>5. CASE r = s[th]
    <3>1. k # j
      BY <2>3, <2>5
    <3> QED
      BY <2>3, <2>4, <2>5, <3>1
  <2> QED
    BY <2>4, <2>5
<1>2. CASE ~(Field(s, hp, th, j) = Nil /\ th > 0)
  <2>1. o = Found(s, hp, Field(s, hp, th, j))
    BY <1>2 DEF Resolve
  <2>2. o.heap = hp
    BY <2>1 DEF Found
  <2> QED
    BY <2>2
<1> QED
  BY <1>1, <1>2

\* The action of ReadsPreserve.
ReadPreserves ==
  (call.op \in {"vector", "matrix"} /\ ~call.write) =>
    \A r \in Ref \ Fresh(stack, heap), k \in Key :
      heap[r][k] # Nil => heap'[r][k] = heap[r][k]

\* The steps of an array call that reads.
LEMMA NextReads == HandleInv /\ [Next]_vars => [ReadPreserves]_vars
<1> SUFFICES ASSUME HandleInv, Next, call.op \in {"vector", "matrix"},
                    ~call.write, NEW r \in Ref \ Fresh(stack, heap),
                    NEW k \in Key, heap[r][k] # Nil
             PROVE  heap'[r][k] = heap[r][k]
  BY DEF ReadPreserves
<1>1. pc # "idle"
  BY DEF HandleInv, TypeOK, NoCall
<1>2. /\ HandlesOK /\ TypeOK /\ stack \in Seq(Slot) /\ heap \in Heap
  BY DEF HandleInv, TypeOK, HandlesOK
<1>3. \/ OpenBelow \/ MatrixRow
      \/ heap' = heap
  BY <1>1
     DEF Next, Step, Open, Close, Reopen, Array, SetArray, GetArray, Begin,
         SetField, TopTable, TopOfNothing, Run, OpenGlobal, OpenNoParent,
         OpenDone, Vector, MatrixDone, ClosedTable, CloseLevel, CloseDone,
         OutOfMemory, Fault, Stopped, vars
<1>4. ASSUME IsOpen(call.tb), pc \in Phases, NEW j \in Key,
             NEW o \in Resolve(stack, heap, Handle(call.tb), j),
             heap' = o.heap
      PROVE  heap'[r][k] = heap[r][k]
  <2>1. call.tb \in Tbl
    BY <1>2, <1>4, CallFacts
  <2>2. /\ Handle(call.tb) \in Nat
        /\ Handle(call.tb) > 0 => /\ Handle(call.tb) <= Len(stack)
                                  /\ stack[Handle(call.tb)] \in Ref
    BY <1>2, <1>4, <2>1, CurrentHandle
  <2> QED
    BY <1>2, <1>4, <2>2, ResolvePreserves
<1>5. CASE OpenBelow
  <2>1. IsOpen(call.tb) /\ pc \in Phases /\ ~NameEnds
    BY <1>5 DEF OpenBelow, Phases
  <2>2. call.name[1] \in Key
    BY <1>2, <2>1, CallFacts
  <2>3. PICK o \in Resolve(stack, heap, Handle(call.tb), call.name[1]) :
          heap' = o.heap
    BY <1>5 DEF OpenBelow
  <2> QED
    BY <1>4, <2>1, <2>2, <2>3
<1>6. CASE MatrixRow
  <2>1. IsOpen(call.tb) /\ pc \in Phases /\ call.row <= Extent
    BY <1>6 DEF MatrixRow, Phases
  <2>2. call.row \in Nat \ {0}
    BY <1>2, <2>1, CallFacts
  <2>3. call.row \in Key
    BY <2>1, <2>2, VMAssumption DEF Key, Pos
  <2>4. PICK o \in Resolve(stack, heap, Handle(call.tb), call.row) :
          heap' = o.heap
    BY <1>6 DEF MatrixRow
  <2> QED
    BY <1>4, <2>1, <2>3, <2>4
<1> QED
  BY <1>3, <1>5, <1>6

\* lua_get of an array overwrites nothing, although it may create the tables
\* that its name or its rows lead through.
THEOREM ReadsAreHarmless == Spec => ReadsPreserve
  BY NextReads, HandlesAreSafe, PTL DEF Spec, ReadsPreserve, ReadPreserves

----------------------------------------------------------------------------
(* What a call opens is linked to what it was opened from.                 *)

\* The named fields of the tables in use that hold a table go on holding it.
LinksKept ==
  \A q \in Ref \ Fresh(stack, heap), k \in Name :
    heap[q][k] # Nil => heap'[q][k] = heap[q][k]

\* Storing an array in a table changes none of its named fields.
LEMMA StoredKeepsNames ==
  ASSUME NEW s, NEW hp \in Heap, NEW th, NEW f \in [Pos -> Scalar],
         NEW q \in Ref, NEW k \in Name
  PROVE  Stored(s, hp, th, f)[q][k] = hp[q][k]
<1>1. k \in Key /\ k \notin Pos /\ DOMAIN f = Pos
  BY VMAssumption DEF Key
<1>2. hp \in [Ref -> Table] /\ hp[q] \in [Key -> Value]
  BY DEF Heap, Table
<1>3. CASE th > 0 /\ q = s[th]
  <2>1. Stored(s, hp, th, f)[q] =
          [i \in Key |-> IF i \in DOMAIN f THEN f[i] ELSE hp[q][i]]
    BY <1>2, <1>3 DEF Stored
  <2> QED
    BY <1>1, <2>1
<1>4. CASE ~(th > 0 /\ q = s[th])
  BY <1>2, <1>4 DEF Stored
<1> QED
  BY <1>3, <1>4

\* The steps of a running call take no table out of a named field: where a
\* table is created the field was empty, and arrays have no named fields.
LEMMA StepKeepsLinks ==
  ASSUME HandleInv, Step
  PROVE  LinksKept
<1> SUFFICES ASSUME NEW q \in Ref \ Fresh(stack, heap), NEW k \in Name,
                    heap[q][k] # Nil
             PROVE  heap'[q][k] = heap[q][k]
  BY DEF LinksKept
<1>1. /\ HandlesOK /\ TypeOK /\ stack \in Seq(Slot) /\ heap \in Heap
      /\ k \in Key
  BY DEF HandleInv, TypeOK, HandlesOK, Key
<1>2. ASSUME IsOpen(call.tb), pc \in Phases, NEW j \in Key,
             NEW o \in Resolve(stack, heap, Handle(call.tb), j)
      PROVE  o.heap[q][k] = heap[q][k] /\ o.heap \in Heap
  <2>1. call.tb \in Tbl
    BY <1>1, <1>2, CallFacts
  <2>2. /\ Handle(call.tb) \in Nat
        /\ Handle(call.tb) > 0 => /\ Handle(call.tb) <= Len(stack)
                                  /\ stack[Handle(call.tb)] \in Ref
    BY <1>1, <1>2, <2>1, CurrentHandle
  <2>3. o.heap \in Heap
    BY <1>1, <1>2, <2>2, ResolveOutcome
  <2> QED
    BY <1>1, <1>2, <2>2, <2>3, ResolvePreserves
<1>3. CASE OpenBelow
  <2>1. IsOpen(call.tb) /\ pc \in Phases /\ ~NameEnds
    BY <1>3 DEF OpenBelow, Phases
  <2>2. call.name[1] \in Key
    BY <1>1, <2>1, CallFacts
  <2>3. PICK o \in Resolve(stack, heap, Handle(call.tb), call.name[1]) :
          heap' = o.heap
    BY <1>3 DEF OpenBelow
  <2> QED
    BY <1>2, <2>1, <2>2, <2>3
<1>4. CASE MatrixRow
  <2>1. IsOpen(call.tb) /\ pc \in Phases /\ call.row <= Extent
    BY <1>4 DEF MatrixRow, Phases
  <2>2. call.row \in Nat \ {0}
    BY <1>1, <2>1, CallFacts
  <2>3. call.row \in Key
    BY <2>1, <2>2, VMAssumption DEF Key, Pos
  <2>4. PICK o \in Resolve(stack, heap, Handle(call.tb), call.row) :
          \/ heap' = o.heap
          \/ \E f \in [Pos -> Scalar] :
               heap' = Stored(o.stack, o.heap, o.handle, f)
    BY <1>4 DEF MatrixRow
  <2>5. o.heap[q][k] = heap[q][k] /\ o.heap \in Heap
    BY <1>2, <2>1, <2>3
  <2> QED
    BY <2>4, <2>5, StoredKeepsNames
<1>5. CASE Vector
  <2>1. \/ heap' = heap
        \/ \E f \in [Pos -> Scalar] :
             heap' = Stored(stack, heap, Handle(call.tb), f)
    BY <1>5 DEF Vector
  <2> QED
    BY <1>1, <2>1, StoredKeepsNames
<1>6. CASE Step /\ ~(OpenBelow \/ MatrixRow \/ Vector)
  <2>1. heap' = heap
    BY <1>6
       DEF Step, OpenGlobal, OpenNoParent, OpenDone, MatrixDone, ClosedTable,
           CloseLevel, CloseDone, OutOfMemory, Fault
  <2> QED
    BY <2>1
<1> QED
  BY <1>3, <1>4, <1>5, <1>6

\* The table in which a level that has a table was looked up is in use.
LEMMA AboveFacts ==
  ASSUME HandleInv, NEW t \in Tbl, NEW j \in DOMAIN levels[t],
         levels[t][j] > 0
  PROVE  /\ Above(t, j) \in Ref \ Fresh(stack, heap)
         /\ stack[levels[t][j]] \in Ref
         /\ j # 1 => j - 1 \in DOMAIN levels[t] /\ levels[t][j - 1] > 0
<1>1. /\ levels[t] \in Seq(Nat) /\ stack \in Seq(Slot) /\ args \in Nat
  BY DEF HandleInv, TypeOK
<1>2. /\ DOMAIN levels[t] = 1 .. Len(levels[t]) /\ j \in Nat /\ j > 0
      /\ Len(levels[t]) \in Nat /\ Len(stack) \in Nat
      /\ DOMAIN stack = 1 .. Len(stack)
  BY <1>1, SeqDomain
<1>3. \A i \in DOMAIN levels[t] :
        levels[t][i] > 0 => /\ levels[t][i] \in DOMAIN stack
                            /\ stack[levels[t][i]] \in Ref
  <2>1. \A i \in DOMAIN levels[t] :
          levels[t][i] > 0 => levels[t][i] \in 1 .. Len(stack)
    BY HandleOnStack
  <2>2. \A i \in DOMAIN levels[t] :
          levels[t][i] > 0 => stack[levels[t][i]] \in Ref
    BY DEF HandleInv, HandlesValid
  <2> QED
    BY <1>2, <2>1, <2>2
<1>4. CASE j = 1
  BY <1>3, <1>4, VMAssumption DEF Above, Fresh
<1>5. CASE j # 1
  <2>1. j - 1 \in DOMAIN levels[t] /\ j - 1 < j
    BY <1>2, <1>5
  <2>2. levels[t][j - 1] > 0
    BY <2>1 DEF HandleInv, HandlesNested
  <2>3. /\ levels[t][j - 1] \in DOMAIN stack
        /\ stack[levels[t][j - 1]] \in Ref
    BY <1>3, <2>1, <2>2
  <2>4. Above(t, j) = stack[levels[t][j - 1]]
    BY <1>5 DEF Above
  <2> QED
    BY <1>3, <2>1, <2>2, <2>3, <2>4 DEF Fresh
<1> QED
  BY <1>4, <1>5

\* A level of the running call that stays open stays linked.
LEMMA LevelStaysLinked ==
  ASSUME HandleInv, OpenedLinked, [Next]_vars, Step, pc # "idle",
         call.tb \in Tbl,
         NEW j \in DOMAIN levels[call.tb] \cap DOMAIN levels'[call.tb],
         j > call.depth, levels'[call.tb][j] > 0,
         DOMAIN levels'[call.tb] = 1 .. Len(levels'[call.tb]),
         Len(levels'[call.tb]) \in Nat
  PROVE  \E k \in Name :
           heap'[IF j = 1 THEN Globals ELSE stack'[levels'[call.tb][j - 1]]][k]
             = stack'[levels'[call.tb][j]]
<1>1. HandlesKept /\ LinksKept
  BY NextKeepsHandles, StepKeepsLinks DEF HandlesKept, vars
<1>2. /\ levels'[call.tb][j] = levels[call.tb][j] /\ levels[call.tb][j] > 0
      /\ stack'[levels[call.tb][j]] = stack[levels[call.tb][j]]
  BY <1>1 DEF HandlesKept
<1>3. /\ Above(call.tb, j) \in Ref \ Fresh(stack, heap)
      /\ stack[levels[call.tb][j]] \in Ref
      /\ j # 1 => /\ j - 1 \in DOMAIN levels[call.tb]
                  /\ levels[call.tb][j - 1] > 0
  BY <1>2, AboveFacts
<1>4. PICK k \in Name :
        heap[Above(call.tb, j)][k] = stack[levels[call.tb][j]]
  BY <1>2 DEF OpenedLinked
<1>5. heap'[Above(call.tb, j)][k] = stack[levels[call.tb][j]]
  <2>1. heap[Above(call.tb, j)][k] # Nil
    BY <1>3, <1>4, VMAssumption
  <2> QED
    BY <1>1, <1>3, <1>4, <2>1 DEF LinksKept
<1>6. Above(call.tb, j)
        = IF j = 1 THEN Globals ELSE stack'[levels'[call.tb][j - 1]]
  <2>1. CASE j = 1
    BY <2>1 DEF Above
  <2>2. CASE j # 1
    <3>1. levels[call.tb] \in Seq(Nat)
      BY DEF HandleInv, TypeOK
    <3>2. j \in Nat /\ j > 0
      BY <3>1, SeqDomain
    <3>3. j - 1 \in DOMAIN levels[call.tb] \cap DOMAIN levels'[call.tb]
      BY <1>3, <2>2, <3>2
    <3> QED
      BY <1>1, <1>3, <2>2, <3>3 DEF Above, HandlesKept
  <2> QED
    BY <2>1, <2>2
<1> QED
  BY <1>2, <1>5, <1>6

\* A level that is opened is a named field of the level above, if it has a
\* table.
LEMMA OpenedIsLinked ==
  ASSUME HandleInv, OpenBelow \/ OpenGlobal
  PROVE  LET L == Len(levels[call.tb])
             h == levels'[call.tb][L + 1]
         IN  h > 0 =>
               heap'[IF L = 0 THEN Globals ELSE stack[levels[call.tb][L]]]
                    [call.name[1]] = stack'[h]
<1>1. /\ HandlesOK /\ TypeOK /\ stack \in Seq(Slot) /\ heap \in Heap
      /\ pc = "open" /\ pc \in Phases /\ ~NameEnds
      /\ levels \in [Tbl -> Seq(Nat)] /\ call.tb \in Tbl
      /\ call.name[1] \in Key
  BY CallFacts
     DEF HandleInv, TypeOK, HandlesOK, OpenBelow, OpenGlobal, Phases
<1> DEFINE L == Len(levels[call.tb])
           k == call.name[1]
<1>2. levels[call.tb] \in Seq(Nat)
  BY <1>1
<1>3. ASSUME NEW h \in Nat, Descend(call.tb, h)
      PROVE  levels'[call.tb][L + 1] = h
  <2>1. levels'[call.tb] = Append(levels[call.tb], h)
    BY <1>1, <1>3 DEF Descend
  <2> QED
    BY <1>2, <2>1, AppendFacts
<1>4. \A x \in Ref : Append(stack, x)[Len(stack) + 1] = x
  BY <1>1, AppendFacts DEF Slot
<1>5. Len(stack) + 1 \in Nat /\ 0 \in Nat
  BY <1>1
<1>6. ASSUME NEW v, NEW o, o = Found(stack, heap, v),
             stack' = o.stack, heap' = o.heap, Descend(call.tb, o.handle)
      PROVE  /\ heap' = heap
             /\ levels'[call.tb][L + 1] > 0 =>
                  stack'[levels'[call.tb][L + 1]] = v
  <2>1. heap' = heap /\ stack' = Pushed(stack, v)
        /\ Descend(call.tb, HandleOf(stack, v))
    BY <1>6 DEF Found
  <2>2. CASE v \in Ref
    <3>1. stack' = Append(stack, v) /\ Descend(call.tb, Len(stack) + 1)
      BY <2>1, <2>2 DEF Pushed, HandleOf
    <3>2. levels'[call.tb][L + 1] = Len(stack) + 1
      BY <1>3, <1>5, <3>1
    <3> QED
      BY <1>4, <2>1, <2>2, <3>1, <3>2
  <2>3. CASE v \notin Ref
    <3>1. Descend(call.tb, 0)
      BY <2>1, <2>3 DEF HandleOf
    <3>2. levels'[call.tb][L + 1] = 0
      BY <1>3, <1>5, <3>1
    <3> QED
      BY <2>1, <3>2
  <2> QED
    BY <2>2, <2>3
<1>7. CASE OpenGlobal
  <2>1. L = 0
    BY <1>7 DEF OpenGlobal, IsOpen
  <2>2. LET o == Found(stack, heap, heap[Globals][k])
        IN  stack' = o.stack /\ heap' = o.heap /\ Descend(call.tb, o.handle)
    BY <1>7 DEF OpenGlobal, Found
  <2>3. heap' = heap /\ (levels'[call.tb][L + 1] > 0 =>
          stack'[levels'[call.tb][L + 1]] = heap[Globals][k])
    BY <1>6, <2>2
  <2> QED
    BY <2>1, <2>3
<1>8. CASE OpenBelow
  <2> DEFINE th == levels[call.tb][L]
  <2>1. /\ L \in Nat /\ L > 0 /\ Handle(call.tb) = th /\ th \in Nat
        /\ th > 0 => th <= Len(stack) /\ stack[th] \in Ref
    BY <1>1, <1>8, CurrentHandle DEF OpenBelow
  <2>2. PICK o \in Resolve(stack, heap, th, k) :
          stack' = o.stack /\ heap' = o.heap /\ Descend(call.tb, o.handle)
    BY <1>8, <2>1 DEF OpenBelow
  <2>3. CASE Field(stack, heap, th, k) = Nil /\ th > 0
    <3>1. PICK r \in Fresh(stack, heap) :
            o = [stack  |-> Append(stack, r),
                 heap   |-> Attached(stack, heap, th, k, r),
                 handle |-> Len(stack) + 1]
      BY <2>2, <2>3 DEF Resolve
    <3>2. /\ stack' = Append(stack, r)
          /\ heap' = Attached(stack, heap, th, k, r)
          /\ Descend(call.tb, Len(stack) + 1) /\ r \in Ref
      BY <2>2, <3>1 DEF Fresh
    <3>3. th \in DOMAIN stack
      BY <1>1, <2>1, <2>3
    <3>4. stack[th] # r /\ stack[th] \in Ref
      BY <2>1, <2>3, <3>1, <3>3 DEF Fresh
    <3>5. heap'[stack[th]] = [heap[stack[th]] EXCEPT ![k] = r]
      BY <3>2, <3>4 DEF Attached
    <3>6. heap[stack[th]] \in [Key -> Value]
      BY <1>1, <3>4 DEF Heap, Table
    <3>7. heap'[stack[th]][k] = r
      BY <1>1, <3>5, <3>6
    <3>8. levels'[call.tb][L + 1] = Len(stack) + 1
      BY <1>3, <1>5, <3>2
    <3>9. stack'[Len(stack) + 1] = r
      BY <1>4, <3>2
    <3>10. heap'[stack[th]][k] = stack'[levels'[call.tb][L + 1]] /\ L # 0
      BY <2>1, <3>7, <3>8, <3>9
    <3> QED
      BY <2>1, <3>10
  <2>4. CASE ~(Field(stack, heap, th, k) = Nil /\ th > 0)
    <3>1. o = Found(stack, heap, Field(stack, heap, th, k))
      BY <2>2, <2>4 DEF Resolve
    <3>2. heap' = heap /\ (levels'[call.tb][L + 1] > 0 =>
            stack'[levels'[call.tb][L + 1]] = Field(stack, heap, th, k))
      BY <1>6, <2>2, <3>1
    <3>3. CASE th = 0
      <4>1. o.handle = 0
        BY <3>1, <3>3, VMAssumption DEF Found, HandleOf, Field
      <4>2. levels'[call.tb][L + 1] = 0
        BY <1>3, <1>5, <2>2, <4>1
      <4> QED
        BY <4>2
    <3>4. CASE th # 0
      BY <2>1, <3>2, <3>4 DEF Field
    <3> QED
      BY <3>3, <3>4
  <2> QED
    BY <2>3, <2>4
<1> QED
  BY <1>7, <1>8

\* Every step keeps what the running call has opened linked.
LEMMA NextLinked == HandleInv /\ OpenedLinked /\ [Next]_vars => OpenedLinked'
<1> SUFFICES ASSUME HandleInv, OpenedLinked, [Next]_vars PROVE OpenedLinked'
  OBVIOUS
<1>1. HandleInv'
  BY NextHandles
<1>2. ASSUME pc' = "idle"
      PROVE  OpenedLinked'
  BY <1>2 DEF OpenedLinked
<1>3. ASSUME call'.tb \in Tbl, call'.depth = Len(levels'[call'.tb])
      PROVE  OpenedLinked'
  <2>1. levels'[call'.tb] \in Seq(Nat)
    BY <1>1, <1>3 DEF HandleInv, TypeOK
  <2>2. \A j \in DOMAIN levels'[call'.tb] : ~(j > call'.depth)
    <3>1. /\ DOMAIN levels'[call'.tb] = 1 .. Len(levels'[call'.tb])
          /\ Len(levels'[call'.tb]) \in Nat
      BY <2>1, SeqDomain
    <3> QED
      BY <1>3, <3>1
  <2> QED
    BY <2>2 DEF OpenedLinked
<1>4. ASSUME NEW t \in Tbl,
             Open(t) \/ Close(t) \/ Reopen(t) \/ Array(t) \/ TopOfNothing(t)
      PROVE  OpenedLinked'
  <2>1. /\ levels' = levels /\ call'.tb = t /\ call'.depth = Len(levels[t])
    BY <1>4 DEF Open, Close, Reopen, Array, SetArray, GetArray, TopOfNothing,
                Begin
  <2> QED
    BY <1>3, <2>1
<1>5. ASSUME NEW t \in Tbl, SetField(t) \/ TopTable(t)
      PROVE  OpenedLinked'
  BY <1>2, <1>5 DEF SetField, TopTable
<1>6. CASE Run
  BY <1>2, <1>6 DEF Run
<1>7. CASE Stopped \/ UNCHANGED vars
  <2>1. /\ stack' = stack /\ heap' = heap /\ levels' = levels /\ pc' = pc
        /\ call' = call
    BY <1>7 DEF Stopped, vars
  <2> QED
    BY <2>1 DEF OpenedLinked, Above
<1>8. CASE Step
  <2>1. /\ pc \in Phases /\ pc # "idle" /\ call \in Call /\ call.tb \in Tbl
        /\ call.depth \in Nat /\ Len(levels[call.tb]) \in Nat
    <3>1. pc \in Phases
      BY <1>8
         DEF Step, OpenBelow, OpenGlobal, OpenNoParent, OpenDone, Vector,
             MatrixRow, MatrixDone, ClosedTable, CloseLevel, CloseDone,
             OutOfMemory, Phases
    <3> QED
      BY <3>1, RunningFacts DEF Phases
  <2>2. ASSUME call'.tb = call.tb, call'.depth = call.depth,
               \A j \in DOMAIN levels'[call.tb] :
                 (/\ j \notin DOMAIN levels[call.tb]
                  /\ j > call.depth /\ levels'[call.tb][j] > 0) =>
                     \E k \in Name :
                       heap'[IF j = 1 THEN Globals
                             ELSE stack'[levels'[call.tb][j - 1]]][k]
                         = stack'[levels'[call.tb][j]]
        PROVE  OpenedLinked'
    <3>1. levels'[call.tb] \in Seq(Nat)
      BY <1>1, <2>1 DEF HandleInv, TypeOK
    <3>2. /\ DOMAIN levels'[call.tb] = 1 .. Len(levels'[call.tb])
          /\ Len(levels'[call.tb]) \in Nat
      BY <3>1, SeqDomain
    <3>3. ASSUME NEW j \in DOMAIN levels'[call.tb],
                 j > call.depth, levels'[call.tb][j] > 0
          PROVE  \E k \in Name :
                   heap'[IF j = 1 THEN Globals
                         ELSE stack'[levels'[call.tb][j - 1]]][k]
                     = stack'[levels'[call.tb][j]]
      <4>1. CASE j \in DOMAIN levels[call.tb]
        BY <1>8, <2>1, <3>2, <3>3, <4>1, LevelStaysLinked
      <4>2. CASE j \notin DOMAIN levels[call.tb]
        BY <2>2, <3>3, <4>2
      <4> QED
        BY <4>1, <4>2
    <3> QED
      BY <2>2, <3>3 DEF OpenedLinked, Above
  <2>3. CASE OpenBelow \/ OpenGlobal
    <3> DEFINE L == Len(levels[call.tb])
    <3>1. call'.tb = call.tb /\ call'.depth = call.depth
      BY <2>1, <2>3, CountedIsCall DEF OpenBelow, OpenGlobal
    <3>2. /\ DOMAIN levels'[call.tb] = DOMAIN levels[call.tb] \cup {L + 1}
          /\ \A i \in DOMAIN levels[call.tb] :
               levels'[call.tb][i] = levels[call.tb][i]
          /\ \A n \in 1 .. Len(stack) : stack'[n] = stack[n]
      BY <2>3, OpenedLevel
    <3>3. call.name[1] \in Name
      <4>1. call.name # <<>> /\ call.name[1] # Dot
        BY <2>3 DEF OpenBelow, OpenGlobal, NameEnds
      <4>2. call.name \in Seq(Name \cup {Dot})
        BY <2>1 DEF Call
      <4>3. 1 \in DOMAIN call.name
        BY <4>1, <4>2
      <4> QED
        BY <4>1, <4>2, <4>3
    <3>4. ASSUME levels'[call.tb][L + 1] > 0
          PROVE  heap'[IF L + 1 = 1 THEN Globals
                       ELSE stack'[levels'[call.tb][(L + 1) - 1]]]
                      [call.name[1]] = stack'[levels'[call.tb][L + 1]]
      <4>1. heap'[IF L = 0 THEN Globals ELSE stack[levels[call.tb][L]]]
                 [call.name[1]] = stack'[levels'[call.tb][L + 1]]
        BY <2>3, <3>4, OpenedIsLinked
      <4>2. CASE L = 0
        BY <4>1, <4>2
      <4>3. CASE L # 0
        <5>1. levels[call.tb] \in Seq(Nat)
          BY <2>1 DEF HandleInv, TypeOK
        <5>2. L \in DOMAIN levels[call.tb] /\ L + 1 \in DOMAIN levels'[call.tb]
          BY <2>1, <3>2, <4>3, <5>1
        <5>3. L < L + 1 /\ (L + 1) - 1 = L /\ L + 1 # 1
          BY <2>1, <4>3
        <5>4. levels'[call.tb][L] > 0
          <6>1. /\ L \in DOMAIN levels'[call.tb]
                /\ HandlesNested'
            BY <1>1, <3>2, <5>2 DEF HandleInv
          <6> QED
            BY <2>1, <3>4, <5>2, <5>3, <6>1 DEF HandlesNested
        <5>5. levels[call.tb][L] > 0 /\ levels'[call.tb][L] = levels[call.tb][L]
          BY <3>2, <5>2, <5>4
        <5>6. levels[call.tb][L] \in 1 .. Len(stack)
          BY <2>1, <5>2, <5>5, HandleOnStack
        <5>7. stack'[levels'[call.tb][L]] = stack[levels[call.tb][L]]
          BY <3>2, <5>5, <5>6
        <5> QED
          BY <4>1, <4>3, <5>3, <5>7
      <4> QED
        BY <4>2, <4>3
    <3> QED
      BY SMTT(30), <2>2, <3>1, <3>2, <3>3, <3>4
  <2>4. ASSUME call' = call \/ call' = NextRow(call) \/ call' = Discounted(call),
               levels' = levels \/ CloseLevel
        PROVE  OpenedLinked'
    <3>1. call'.tb = call.tb /\ call'.depth = call.depth
      BY <2>1, <2>4 DEF NextRow, Discounted, Call
    <3>2. DOMAIN levels'[call.tb] \subseteq DOMAIN levels[call.tb]
      <4>1. CASE levels' = levels
        BY <4>1
      <4>2. CASE CloseLevel
        <5>1. /\ DOMAIN levels'[call.tb] = 1 .. Len(levels[call.tb]) - 1
          BY <4>2, ClosedLevel
        <5>2. levels[call.tb] \in Seq(Nat)
          BY <2>1 DEF HandleInv, TypeOK
        <5>3. DOMAIN levels[call.tb] = 1 .. Len(levels[call.tb])
          BY <5>2, SeqDomain
        <5> QED
          BY <2>1, <5>1, <5>3
      <4> QED
        BY <2>4, <4>1, <4>2
    <3> QED
      BY <2>2, <3>1, <3>2
  <2>5. CASE OpenDone \/ Vector \/ MatrixRow \/ MatrixDone
    <3>1. levels' = levels
      BY <2>5, QuietSteps
    <3>2. pc' = "idle" \/ call' = call \/ call' = NextRow(call)
      BY <2>5 DEF OpenDone, Vector, MatrixRow, MatrixDone, Return
    <3> QED
      BY <1>2, <2>4, <3>1, <3>2
  <2>6. CASE OpenNoParent \/ ClosedTable \/ OutOfMemory
    <3>1. levels' = levels /\ call' = call
      BY <2>6 DEF OpenNoParent, ClosedTable, OutOfMemory, Fault
    <3> QED
      BY <2>4, <3>1
  <2>7. CASE CloseLevel \/ CloseDone
    <3>1. AfterClose \/ (CloseLevel /\ call' = Discounted(call))
      BY <2>7 DEF CloseLevel, CloseDone
    <3>2. ASSUME AfterClose
          PROVE  OpenedLinked'
      <4>1. CASE call.op = "reopen"
        <5>1. /\ call'.tb = call.tb
              /\ call'.depth = Len(levels'[call.tb])
          BY <2>1, <3>2, <4>1 DEF AfterClose, Call
        <5> QED
          BY <1>3, <2>1, <5>1
      <4>2. CASE call.op # "reopen"
        BY <1>2, <3>2, <4>2 DEF AfterClose, Return
      <4> QED
        BY <4>1, <4>2
    <3> QED
      BY <2>4, <3>1, <3>2
  <2> QED
    BY <1>8, <2>3, <2>5, <2>6, <2>7 DEF Step
<1> QED
  BY <1>4, <1>5, <1>6, <1>7, <1>8 DEF Next

\* What lua_open and the array calls open, by a name of any length and through
\* tables that exist or not, can be reached again under the keys of the name.
THEOREM OpenedStaysLinked == Spec => []OpenedLinked
<1>1. Init => OpenedLinked
  BY DEF Init, OpenedLinked
<1> QED
  BY <1>1, NextLinked, HandlesAreSafe, PTL DEF Spec

----------------------------------------------------------------------------
(* What the stack costs.                                                   *)

\* A part of a finite set and the rest of it make up the set.
LEMMA PartAndRest ==
  ASSUME NEW S, IsFiniteSet(S), NEW M \in SUBSET S
  PROVE  /\ IsFiniteSet(S \ M) /\ IsFiniteSet(M)
         /\ Cardinality(M) \in Nat /\ Cardinality(S \ M) \in Nat
         /\ Cardinality(S) = Cardinality(S \ M) + Cardinality(M)
<1>1. /\ IsFiniteSet(S \ M) /\ IsFiniteSet(M)
  <2>1. S \ M \in SUBSET S
    OBVIOUS
  <2> QED
    BY <2>1, FS_Subset
<1>2. Cardinality(M) \in Nat /\ Cardinality(S \ M) \in Nat
  BY <1>1, FS_CardinalityType
<1>3. (S \ M) \cup M = S /\ (S \ M) \cap M = {}
  OBVIOUS
<1>4. Cardinality((S \ M) \cup M) =
        Cardinality(S \ M) + Cardinality(M) - Cardinality((S \ M) \cap M)
  BY <1>1, FS_Union
<1>5. Cardinality({}) = 0
  BY FS_EmptySet
<1>6. Cardinality(S) = Cardinality(S \ M) + Cardinality(M) - 0
  BY <1>3, <1>4, <1>5
<1> QED
  BY <1>1, <1>2, <1>6

\* A pair is a level with a table.
LEMMA InTableLevels ==
  \A p : p \in TableLevels <=>
    \E t \in Tbl : \E i \in DOMAIN levels[t] :
      p = <<t, i>> /\ levels[t][i] > 0
  BY DEF TableLevels

\* There are finitely many of them.
LEMMA FiniteTableLevels ==
  ASSUME HandleInv
  PROVE  IsFiniteSet(TableLevels)
<1> DEFINE on(t) == {j \in DOMAIN levels[t] : levels[t][j] > 0}
           g == [t \in Tbl |-> {<<t, i>> : i \in on(t)}]
           S == {{<<t, i>> : i \in on(t)} : t \in Tbl}
<1>1. ASSUME NEW t \in Tbl
      PROVE  IsFiniteSet({<<t, i>> : i \in on(t)})
  <2> DEFINE f == [i \in on(t) |-> <<t, i>>]
             P == {<<t, i>> : i \in on(t)}
  <2>1. levels[t] \in Seq(Nat)
    BY DEF HandleInv, TypeOK
  <2>2. Len(levels[t]) \in Int /\ DOMAIN levels[t] = 1 .. Len(levels[t])
    BY <2>1
  <2>3. IsFiniteSet(1 .. Len(levels[t]))
    BY <2>2, FS_Interval
  <2>4. on(t) \in SUBSET (1 .. Len(levels[t]))
    BY <2>2
  <2>5. IsFiniteSet(on(t))
    BY <2>3, <2>4, FS_Subset
  <2>6. f \in Surjection(on(t), P)
    BY Zenon DEF Surjection
  <2> QED
    BY <2>5, <2>6, FS_Surjection
<1>2. g \in Surjection(Tbl, S)
  BY Zenon DEF Surjection
<1>3. IsFiniteSet(S)
  BY <1>2, TblAssumption, FS_Surjection
<1>4. \A P \in S : IsFiniteSet(P)
  BY <1>1
<1>5. TableLevels = UNION S
  BY DEF TableLevels
<1> HIDE DEF S
<1> QED
  BY <1>3, <1>4, <1>5, FS_UNION

\* Every slot that is no message is the handle of a level with a table, so
\* there are no more of them than of those levels; and as many if no two
\* levels have the same handle, which only levels of different variables do.
LEMMA LevelsAreSlots ==
  ASSUME HandleInv, IsFiniteSet(args + 1 .. Len(stack))
  PROVE  LET T == (args + 1 .. Len(stack)) \ MessageSlots
         IN  /\ Cardinality(T) <= Cardinality(TableLevels)
             /\ Cardinality(T) = Cardinality(TableLevels) <=> HandlesDisjoint
<1> DEFINE T == (args + 1 .. Len(stack)) \ MessageSlots
           f == [p \in TableLevels |-> levels[p[1]][p[2]]]
<1>1. /\ levels \in [Tbl -> Seq(Nat)] /\ args \in Nat
      /\ stack \in Seq(Slot)
  BY DEF HandleInv, TypeOK
<1>2. IsFiniteSet(T)
  <2>1. T \in SUBSET (args + 1 .. Len(stack))
    OBVIOUS
  <2> QED
    BY <2>1, FS_Subset
<1>3. \A t \in Tbl : \A i \in DOMAIN levels[t] :
        levels[t][i] \in Nat /\ i \in Nat
  <2> SUFFICES ASSUME NEW t \in Tbl, NEW i \in DOMAIN levels[t]
               PROVE  levels[t][i] \in Nat /\ i \in Nat
    OBVIOUS
  <2>1. levels[t] \in Seq(Nat)
    BY <1>1
  <2> QED
    BY <2>1, SeqDomain
<1>4. ASSUME NEW t \in Tbl, NEW i \in DOMAIN levels[t], levels[t][i] > 0
      PROVE  levels[t][i] \in T
  <2>1. /\ levels[t][i] \in args + 1 .. Len(stack)
        /\ stack[levels[t][i]] \in Ref
    BY <1>4 DEF HandleInv, HandlesValid
  <2>2. stack[levels[t][i]] # Message
    BY <2>1, VMAssumption
  <2> QED
    BY <2>1, <2>2 DEF MessageSlots
<1>5. f \in [TableLevels -> T]
  <2>1. ASSUME NEW p \in TableLevels
        PROVE  levels[p[1]][p[2]] \in T
    <3>1. PICK t \in Tbl :
            \E i \in DOMAIN levels[t] : p = <<t, i>> /\ levels[t][i] > 0
      BY <2>1, InTableLevels
    <3>2. PICK i \in DOMAIN levels[t] : p = <<t, i>> /\ levels[t][i] > 0
      BY <3>1
    <3>3. p[1] = t /\ p[2] = i
      BY <3>2
    <3> QED
      BY <1>4, <3>2, <3>3
  <2> QED
    BY <2>1
<1>6. ASSUME HandlesDisjoint,
             NEW p \in TableLevels, NEW q \in TableLevels, f[p] = f[q]
      PROVE  p = q
  <2>1. PICK t \in Tbl :
          \E i \in DOMAIN levels[t] : p = <<t, i>> /\ levels[t][i] > 0
    BY InTableLevels
  <2>2. PICK u \in Tbl :
          \E j \in DOMAIN levels[u] : q = <<u, j>> /\ levels[u][j] > 0
    BY InTableLevels
  <2>3. PICK i \in DOMAIN levels[t] : p = <<t, i>> /\ levels[t][i] > 0
    BY <2>1
  <2>4. PICK j \in DOMAIN levels[u] : q = <<u, j>> /\ levels[u][j] > 0
    BY <2>2
  <2>5. levels[t][i] = levels[u][j]
    <3>1. f[p] = levels[t][i]
      BY <2>3
    <3>2. f[q] = levels[u][j]
      BY <2>4
    <3> QED
      BY <1>6, <3>1, <3>2
  <2>6. t = u
    <3>1. ASSUME t # u PROVE FALSE
      <4>1. levels[t][i] \in Handles(t) \cap Handles(u)
        BY <2>5 DEF Handles
      <4>2. levels[t][i] \in {0}
        BY <1>6, <3>1, <4>1 DEF HandlesDisjoint
      <4> QED
        BY <1>3, <2>3, <4>2
    <3> QED
      BY <3>1
  <2>7. i = j
    <3>1. i \in Nat /\ j \in Nat /\ levels[t][i] \in Nat
      BY <1>3, <2>6
    <3>2. ~(i < j) /\ ~(j < i)
      BY <2>3, <2>4, <2>5, <2>6, <3>1 DEF HandleInv, HandlesNested
    <3> QED
      BY <3>1, <3>2
  <2> QED
    BY <2>3, <2>4, <2>6, <2>7
<1>7. ASSUME NEW n \in T
      PROVE  \E p \in TableLevels : f[p] = n
  <2>1. n \in args + 1 .. Len(stack) /\ stack[n] # Message
    BY DEF MessageSlots
  <2>2. PICK t \in Tbl : n \in Handles(t)
    BY <2>1 DEF HandleInv, SlotsOwned
  <2>3. PICK i \in DOMAIN levels[t] : levels[t][i] = n
    BY <2>2 DEF Handles
  <2>4. n > 0
    BY <1>1, <2>1
  <2>5. <<t, i>> \in TableLevels
    BY <2>3, <2>4, InTableLevels
  <2>6. f[<<t, i>>] = n
    BY <2>3, <2>5
  <2> QED
    BY <2>5, <2>6
<1>8. ASSUME \A p, q \in TableLevels : f[p] = f[q] => p = q
      PROVE  HandlesDisjoint
  <2> SUFFICES ASSUME NEW t \in Tbl, NEW u \in Tbl, t # u,
                      NEW i \in DOMAIN levels[t], NEW j \in DOMAIN levels[u],
                      levels[t][i] = levels[u][j]
               PROVE  levels[t][i] = 0
    BY DEF HandlesDisjoint, Handles
  <2>1. SUFFICES ASSUME levels[t][i] > 0 PROVE FALSE
    BY <1>3
  <2>2. <<t, i>> \in TableLevels /\ <<u, j>> \in TableLevels
    BY <2>1, InTableLevels
  <2>3. f[<<t, i>>] = levels[t][i] /\ f[<<u, j>>] = levels[u][j]
    BY <2>2
  <2>4. <<t, i>> = <<u, j>>
    BY <1>8, <2>2, <2>3
  <2> QED
    BY <2>4
<1> HIDE DEF T, f
<1>9. f \in Surjection(TableLevels, T)
  BY <1>5, <1>7 DEF Surjection
<1>10. f \in Injection(TableLevels, T) <=> HandlesDisjoint
  <2>1. DOMAIN f = TableLevels
    BY <1>5
  <2> QED
    BY <1>5, <1>6, <1>8, <2>1 DEF Injection, IsInjective
<1>11. /\ Cardinality(T) <= Cardinality(TableLevels)
       /\ Cardinality(T) = Cardinality(TableLevels)
            <=> f \in Injection(TableLevels, T)
  BY <1>9, FiniteTableLevels, FS_Surjection
<1> QED
  BY <1>10, <1>11 DEF T

\* The stack, in arguments, levels and messages.
LEMMA StackIsSum ==
  ASSUME HandleInv
  PROVE  /\ LET sum == args + Cardinality(TableLevels)
                          + Cardinality(MessageSlots)
            IN  IF HandlesDisjoint THEN Len(stack) = sum ELSE Len(stack) < sum
         /\ IsFiniteSet(MessageSlots) /\ Cardinality(MessageSlots) \in Nat
<1>1. args \in Nat /\ args <= Len(stack) /\ Len(stack) \in Nat
  BY DEF HandleInv, TypeOK
<1> DEFINE S == args + 1 .. Len(stack)
           c == Cardinality(S \ MessageSlots)
           m == Cardinality(MessageSlots)
<1>2. args + 1 \in Int /\ Len(stack) \in Int
  BY <1>1
<1>3. /\ IsFiniteSet(S)
      /\ Cardinality(S) = IF args + 1 > Len(stack) THEN 0
                          ELSE Len(stack) - (args + 1) + 1
  BY <1>2, FS_Interval
<1>4. Cardinality(S) = Len(stack) - args
  BY <1>1, <1>3
<1>5. MessageSlots \in SUBSET S
  BY DEF MessageSlots
<1>6. /\ IsFiniteSet(MessageSlots) /\ m \in Nat /\ c \in Nat
      /\ Cardinality(S) = c + m
  BY <1>3, <1>5, PartAndRest
<1> DEFINE l == Cardinality(TableLevels)
<1>7. l \in Nat /\ c <= l /\ (c = l <=> HandlesDisjoint)
  BY <1>3, FiniteTableLevels, FS_CardinalityType, LevelsAreSlots
<1> HIDE DEF S, c, m, l
<1>8. Len(stack) = args + c + m
  BY <1>1, <1>4, <1>6
<1>9. IF HandlesDisjoint THEN Len(stack) = args + l + m
      ELSE Len(stack) < args + l + m
  BY <1>1, <1>6, <1>7, <1>8
<1> QED
  BY <1>6, <1>9 DEF m, l

\* A slot above the arguments that is left when the top one was dropped, or
\* replaced, was there before, also if the top one was an argument.
LEMMA SlotUnderTop ==
  ASSUME NEW a \in Nat, NEW b \in Nat, NEW N \in Nat, NEW M,
         b = a \/ b = N - 1, M = N \/ M = N - 1,
         NEW n \in b + 1 .. M, M = N => n # N
  PROVE  n \in 1 .. N - 1 /\ n \in a + 1 .. N
  OBVIOUS

\* Only a script that fails leaves a message, and it leaves one.
LEMMA MessagesGrow ==
  ASSUME HandleInv, [Next]_vars
  PROVE  \/ MessageSlots' \subseteq MessageSlots /\ runs' = runs
         \/ /\ MessageSlots' \subseteq MessageSlots \cup {Len(stack) + 1}
            /\ runs' = runs + 1
<1>1. /\ stack \in Seq(Slot) /\ Len(stack) \in Nat /\ args \in Nat
      /\ args <= Len(stack)
  BY DEF HandleInv, TypeOK
<1>2. ASSUME args' = args, \A n \in 1 .. Len(stack) : stack'[n] = stack[n],
             \/ Len(stack') = Len(stack)
             \/ /\ Len(stack') = Len(stack) + 1
                /\ stack'[Len(stack) + 1] # Message
      PROVE  MessageSlots' \subseteq MessageSlots
  <2> SUFFICES ASSUME NEW n \in args + 1 .. Len(stack'), stack'[n] = Message
               PROVE  n \in MessageSlots
    BY <1>2 DEF MessageSlots
  <2>1. n \in args + 1 .. Len(stack) /\ n \in 1 .. Len(stack)
    BY <1>1, <1>2
  <2> QED
    BY <1>2, <2>1 DEF MessageSlots
<1>3. CASE OpenBelow \/ OpenGlobal
  <2>1. runs' = runs /\ args' = args
    BY <1>3 DEF OpenBelow, OpenGlobal
  <2>2. PICK h \in Nat :
          \/ \E x \in Ref : stack' = Append(stack, x)
          \/ stack' = stack
    BY <1>3, OpenOutcome
  <2>3. CASE stack' = stack
    BY <1>2, <2>1, <2>3
  <2>4. ASSUME NEW x \in Ref, stack' = Append(stack, x)
        PROVE  MessageSlots' \subseteq MessageSlots
    <3>1. x \in Slot /\ x # Message
      BY VMAssumption DEF Slot
    <3> QED
      BY <1>1, <1>2, <2>1, <2>4, <3>1, AppendFacts
  <2> QED
    BY <2>1, <2>2, <2>3, <2>4
<1>4. CASE CloseLevel
  <2>1. runs' = runs /\ args' = args
    BY <1>4 DEF CloseLevel
  <2>2. /\ \A n \in 1 .. Len(stack') : stack'[n] = stack[n]
        /\ Len(stack') <= Len(stack) /\ Len(stack') \in Int
    BY <1>1, <1>4, ClosedLevel
  <2>3. ASSUME NEW n \in args + 1 .. Len(stack'), stack'[n] = Message
        PROVE  n \in MessageSlots
    <3>1. n \in args + 1 .. Len(stack) /\ n \in 1 .. Len(stack')
      BY <1>1, <2>2
    <3> QED
      BY <2>2, <2>3, <3>1 DEF MessageSlots
  <2> QED
    BY <2>1, <2>3 DEF MessageSlots
<1>5. ASSUME NEW t \in Tbl, TopTable(t)
      PROVE  MessageSlots' \subseteq MessageSlots /\ runs' = runs
  <2> DEFINE N    == Len(stack)
             rest == SubSeq(stack, 1, N - 1)
  <2>1. /\ stack # <<>> /\ stack' = Pushed(rest, stack[N])
        /\ args' = (IF args = N THEN args - 1 ELSE args) /\ runs' = runs
    BY <1>5 DEF TopTable
  <2>2. /\ rest \in Seq(Slot) /\ Len(rest) = N - 1
        /\ \A n \in 1 .. N - 1 : rest[n] = stack[n]
    BY <1>1, <2>1, FrontFacts
  <2>3. /\ \A n \in 1 .. N - 1 : stack'[n] = stack[n]
        /\ \/ Len(stack') = N /\ stack'[N] # Message
           \/ Len(stack') = N - 1
    <3>1. CASE stack[N] \in Ref
      <4>1. /\ stack' = Append(rest, stack[N]) /\ stack[N] \in Slot
            /\ stack[N] # Message
        BY <2>1, <3>1, VMAssumption DEF Pushed, Slot
      <4>2. /\ Len(stack') = Len(rest) + 1
            /\ \A n \in 1 .. Len(rest) : stack'[n] = rest[n]
            /\ stack'[Len(rest) + 1] = stack[N]
        BY <2>2, <4>1, AppendFacts
      <4>3. Len(rest) + 1 = N
        BY <1>1, <2>2
      <4> QED
        BY <2>2, <4>1, <4>2, <4>3
    <3>2. CASE stack[N] \notin Ref
      BY <2>1, <2>2, <3>2 DEF Pushed
    <3> QED
      BY <3>1, <3>2
  <2>4. /\ N \in Nat /\ N > 0 /\ args <= N
        /\ args' \in Nat /\ (args' = args \/ args' = N - 1)
    BY <1>1, <2>1
  <2>5. MessageSlots = {n \in args + 1 .. N : stack[n] = Message}
    BY DEF MessageSlots
  <2> HIDE DEF N
  <2>6. ASSUME NEW n \in args' + 1 .. Len(stack'), stack'[n] = Message
        PROVE  n \in MessageSlots
    <3>1. Len(stack') = N \/ Len(stack') = N - 1
      BY <2>3
    <3>2. Len(stack') = N => n # N
      BY <2>3, <2>6
    <3>3. n \in args' + 1 .. Len(stack')
      OBVIOUS
    <3>4. n \in 1 .. N - 1 /\ n \in args + 1 .. N
      BY <1>1, <2>4, <3>1, <3>2, <3>3, SlotUnderTop
    <3> QED
      BY <2>3, <2>5, <2>6, <3>4
  <2> QED
    BY <2>1, <2>6 DEF MessageSlots
<1>6. CASE Run
  <2>1. /\ runs' = runs + 1 /\ args' = args
        /\ stack' = stack \/ stack' = Append(stack, Message)
    BY <1>6 DEF Run
  <2>2. Message \in Slot
    BY DEF Slot
  <2>3. /\ \A n \in 1 .. Len(stack) : stack'[n] = stack[n]
        /\ Len(stack') = Len(stack) \/ Len(stack') = Len(stack) + 1
    BY <1>1, <2>1, <2>2, AppendFacts
  <2>4. ASSUME NEW n \in args + 1 .. Len(stack'), stack'[n] = Message,
               n # Len(stack) + 1
        PROVE  n \in MessageSlots
    <3>1. n \in args + 1 .. Len(stack) /\ n \in 1 .. Len(stack)
      BY <1>1, <2>3, <2>4
    <3> QED
      BY <2>3, <2>4, <3>1 DEF MessageSlots
  <2> QED
    BY <2>1, <2>4 DEF MessageSlots
<1>7. CASE stack' = stack /\ args' = args /\ runs' = runs
  BY <1>7 DEF MessageSlots
<1>8. ASSUME NEW t \in Tbl,
             \/ Open(t) \/ Close(t) \/ Reopen(t) \/ Array(t)
             \/ TopOfNothing(t) \/ SetField(t)
      PROVE  stack' = stack /\ args' = args /\ runs' = runs
  BY <1>8 DEF Open, Close, Reopen, Array, SetArray, GetArray, TopOfNothing,
              Begin, SetField
<1>9. CASE MatrixRow
  BY <1>7, <1>9, RowOutcome DEF MatrixRow
<1>10. CASE \/ OpenDone \/ Vector \/ MatrixDone \/ CloseDone
            \/ OpenNoParent \/ ClosedTable \/ OutOfMemory
            \/ Stopped \/ UNCHANGED vars
  <2>1. stack' = stack /\ args' = args /\ runs' = runs
    BY <1>10
       DEF OpenDone, Vector, MatrixDone, CloseDone, OpenNoParent, ClosedTable,
           OutOfMemory, Fault, Stopped, vars
  <2> QED
    BY <1>7, <2>1
<1> QED
  BY <1>3, <1>4, <1>5, <1>6, <1>7, <1>8, <1>9, <1>10 DEF Next, Step

\* There are no more messages than scripts have run.
MessagesCounted == Cardinality(MessageSlots) <= runs

LEMMA NextMessages ==
  HandleInv /\ MessagesCounted /\ [Next]_vars => MessagesCounted'
<1> SUFFICES ASSUME HandleInv, MessagesCounted, [Next]_vars
             PROVE  MessagesCounted'
  OBVIOUS
<1>1. /\ IsFiniteSet(MessageSlots) /\ Cardinality(MessageSlots) \in Nat
      /\ runs \in Int
  BY StackIsSum DEF HandleInv, TypeOK
<1>2. Cardinality(MessageSlots) <= runs
  BY DEF MessagesCounted
<1>3. ASSUME NEW M, IsFiniteSet(M), MessageSlots' \subseteq M
      PROVE  /\ Cardinality(MessageSlots') <= Cardinality(M)
             /\ Cardinality(MessageSlots') \in Nat
  BY <1>3, FS_Subset, FS_CardinalityType
<1>4. CASE MessageSlots' \subseteq MessageSlots /\ runs' = runs
  <2>1. /\ Cardinality(MessageSlots') <= Cardinality(MessageSlots)
        /\ Cardinality(MessageSlots') \in Nat
    BY <1>1, <1>3, <1>4
  <2>2. Cardinality(MessageSlots') <= runs
    BY <1>1, <1>2, <2>1
  <2> QED
    BY <1>4, <2>2 DEF MessagesCounted
<1>5. CASE /\ MessageSlots' \subseteq MessageSlots \cup {Len(stack) + 1}
           /\ runs' = runs + 1
  <2> DEFINE M == MessageSlots \cup {Len(stack) + 1}
  <2>1. /\ IsFiniteSet(M) /\ Cardinality(M) \in Nat
        /\ Cardinality(M) <= Cardinality(MessageSlots) + 1
    <3>1. /\ IsFiniteSet(M)
          /\ \/ Cardinality(M) = Cardinality(MessageSlots)
             \/ Cardinality(M) = Cardinality(MessageSlots) + 1
      BY <1>1, FS_AddElement
    <3> QED
      BY <1>1, <3>1
  <2>2. /\ Cardinality(MessageSlots') <= Cardinality(M)
        /\ Cardinality(MessageSlots') \in Nat
    BY <1>3, <1>5, <2>1
  <2> HIDE DEF M
  <2>3. Cardinality(MessageSlots') <= runs + 1
    BY <1>1, <1>2, <2>1, <2>2
  <2> QED
    BY <1>5, <2>3 DEF MessagesCounted
<1> QED
  BY <1>4, <1>5, MessagesGrow

\* The frame uses as many slots of the API stack as it has arguments and open
\* tables, fewer only if lua_table(lua) made two variables share one, and one
\* more for each script that failed: calls that open and close, read and write
\* use none for longer than they run.
THEOREM StackIsAccounted == Spec => []StackAccounted
<1>1. Init => MessagesCounted
  <2> SUFFICES ASSUME Init PROVE MessagesCounted
    OBVIOUS
  <2>1. /\ stack \in Seq(Ref \cup Scalar) /\ args = Len(stack) /\ runs = 0
    BY TblAssumption DEF Init
  <2>2. MessageSlots = {}
    BY <2>1 DEF MessageSlots
  <2> QED
    BY <2>1, <2>2, FS_EmptySet DEF MessagesCounted
<1>2. HandleInv /\ MessagesCounted => StackAccounted
  BY StackIsSum DEF MessagesCounted, StackAccounted
<1> QED
  BY <1>1, <1>2, NextMessages, HandlesAreSafe, PTL DEF Spec
=============================================================================
