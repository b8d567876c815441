---------------------------- MODULE LuaStateProofs ----------------------------
(***************************************************************************)
(* Proofs about LuaState, for every number of VMs and every depth of nested  *)
(* scripts and functions: no VM is closed under a script or under another    *)
(* luaState, none is lost by its owner, no failure goes unnoticed, and       *)
(* LuaState implements the life of a VM.                                    *)
(***************************************************************************)
EXTENDS LuaState, SeqLemmas

\* A variable in its default state.
LEMMA DefaultVariable == Default \in Variable
  BY DEF Default, Variable

\* At the start there are no VMs and no scripts.
LEMMA InitStates == Init => StateInv
<1> SUFFICES ASSUME Init PROVE StateInv
  OBVIOUS
<1> USE StateAssumption DEF Init
<1>1. Default \in Variable
  BY DefaultVariable
<1>2. \A d \in Level : lua[d] = Default
  OBVIOUS
<1>3. runs = <<>> /\ Len(runs) = 0 /\ runs \in Seq(Running) /\ DOMAIN runs = {}
  OBVIOUS
<1>4. TypeOK
  BY <1>1, <1>3 DEF TypeOK, Level
<1>5. VariablesOpen /\ OwnersApart /\ FlagsRight /\ NoneLeft
  BY <1>2 DEF VariablesOpen, OwnersApart, FlagsRight, NoneLeft, Default
<1>6. ScriptsHaveLibs /\ ScriptsHaveVM /\ ScriptsLeft
  BY <1>3 DEF ScriptsHaveLibs, ScriptsHaveVM, ScriptsLeft
<1> QED
  BY <1>4, <1>5, <1>6 DEF StateInv

\* Levels are ordered as numbers are.
LEMMA LevelOrder ==
  ASSUME NEW c \in Level, NEW d \in Level
  PROVE  c < d => c # d /\ ~(d < c)
  BY StateAssumption DEF Level

\* The number of a script but the last.
LEMMA Smaller ==
  ASSUME NEW a \in Nat, NEW b \in Nat, a <= b - 1
  PROVE  a # b
  OBVIOUS

\* The level that runs, and the types of what it refers to.
LEMMA HereFacts ==
  ASSUME StateInv, pc \notin Faults
  PROVE  /\ Here \in Level /\ Here \in Nat
         /\ lua \in [Level -> Variable]
         /\ lua[Here] \in Variable
         /\ runs \in Seq(Running)
         /\ Len(runs) \in Nat
         /\ DOMAIN runs = 1 .. Len(runs)
         /\ \A i \in DOMAIN runs : runs[i] \in Running
         /\ pc \in {"fortran", "new"} => Here = Len(runs)
         /\ pc \in {"load", "script", "next"} =>
              Here = Len(runs) - 1 /\ Len(runs) \in DOMAIN runs
<1> USE StateAssumption DEF StateInv, TypeOK
<1>1. /\ runs \in Seq(Running) /\ Len(runs) \in Nat
      /\ DOMAIN runs = 1 .. Len(runs)
      /\ \A i \in DOMAIN runs : runs[i] \in Running
  BY SeqDomain
<1>2. CASE pc \in {"fortran", "new"}
  BY <1>1, <1>2 DEF Here, Level
<1>3. CASE pc \in {"load", "script", "next"}
  <2>1. Len(runs) > 0 /\ Len(runs) <= MaxCalls + 1
    BY <1>1, <1>3
  <2>2. Here = Len(runs) - 1
    BY <1>3 DEF Here
  <2>3. Here \in Level /\ Here \in Nat /\ Len(runs) \in DOMAIN runs
    BY <1>1, <2>1, <2>2 DEF Level
  <2>4. pc \notin {"fortran", "new"}
    BY <1>3
  <2> QED
    BY <1>1, <2>2, <2>3, <2>4
<1> QED
  BY <1>2, <1>3

\* A variable that owns no VM after the step, and refers to none, to the one
\* that its function was called from, or to what it did before; what it owned
\* has been closed, or it owned nothing.
LEMMA VariableKeeps ==
  ASSUME StateInv, pc = "fortran", pc' \in {"fortran", "new"},
         runs' = runs, libs' = libs,
         NEW v \in Variable, lua' = [lua EXCEPT ![Here] = v],
         ~v.initialized, v.opened_libs /\ v.L # Null => v.L \in libs,
         \/ v.L = Null
         \/ runs # <<>> /\ v.L = runs[Here].vm
         \/ v.L = lua[Here].L /\ life' = life,
         \/ life' = life
         \/ /\ lua[Here].initialized /\ lua[Here].L # Null
            /\ life' = [life EXCEPT ![lua[Here].L] = "closed"]
  PROVE  StateInv'
<1> USE StateAssumption
<1>1. /\ Here \in Level /\ Here = Len(runs) /\ lua \in [Level -> Variable]
      /\ lua[Here] \in Variable /\ runs \in Seq(Running)
      /\ Len(runs) \in Nat /\ DOMAIN runs = 1 .. Len(runs)
      /\ \A i \in DOMAIN runs : runs[i] \in Running
  BY HereFacts DEF Faults
<1>2. Here' = Here /\ Last' = Last
  BY <1>1 DEF Here, Last
<1>3. /\ lua' \in [Level -> Variable] /\ lua'[Here] = v
      /\ \A d \in Level : d # Here => lua'[d] = lua[d]
  BY <1>1
<1>4. /\ life' \in [VM -> {"none", "open", "closed"}]
      /\ \A m \in VM : life'[m] = life[m]
                       \/ (lua[Here].initialized /\ m = lua[Here].L)
  BY <1>1 DEF StateInv, TypeOK, Variable
<1>5. TypeOK'
  BY <1>1, <1>2, <1>3, <1>4 DEF StateInv, TypeOK, Faults
<1>6. \A i \in DOMAIN runs : runs[i].vm # Null /\ life'[runs[i].vm] = "open"
  <2> SUFFICES ASSUME NEW i \in DOMAIN runs
               PROVE  runs[i].vm # Null /\ life'[runs[i].vm] = "open"
    OBVIOUS
  <2>1. runs[i].vm # Null /\ life[runs[i].vm] = "open"
    BY DEF StateInv, ScriptsHaveVM, Faults
  <2>2. i <= Here
    BY <1>1
  <2>3. lua[Here].initialized /\ lua[Here].L # Null
          => runs[i].vm # lua[Here].L
    BY <1>1, <2>2 DEF StateInv, OwnersApart
  <2>4. runs[i].vm \in VM
    BY <1>1, <2>1 DEF Running
  <2> QED
    BY <2>1, <2>3, <2>4, <1>4
<1>7. v.L # Null => life'[v.L] = "open"
  <2>1. runs # <<>> => Here \in DOMAIN runs
    BY <1>1
  <2>2. CASE v.L = lua[Here].L /\ life' = life
    BY <1>1, <2>2 DEF StateInv, VariablesOpen
  <2> QED
    BY <1>6, <2>1, <2>2
<1>8. \A d \in Level : d > Here => lua[d] = Default
  BY DEF StateInv, NoneLeft, Faults
<1>9. VariablesOpen'
  <2> SUFFICES ASSUME NEW d \in Level, lua'[d].L # Null
               PROVE  life'[lua'[d].L] = "open"
    BY DEF VariablesOpen
  <2>1. CASE d = Here
    BY <1>3, <1>7, <2>1
  <2>2. CASE d # Here
    <3>1. lua'[d] = lua[d] /\ lua[d].L \in VM
      BY <1>1, <1>3, <2>2 DEF Variable
    <3>2. life[lua[d].L] = "open"
      BY <3>1 DEF StateInv, VariablesOpen
    <3>3. d < Here
      BY <1>1, <1>8, <2>2, <3>1 DEF Level, Default
    <3>4. lua[Here].initialized => lua[d].L # lua[Here].L
      BY <1>1, <3>1, <3>3 DEF StateInv, OwnersApart
    <3> QED
      BY <1>4, <3>1, <3>2, <3>4
  <2> QED
    BY <2>1, <2>2
<1>10. OwnersApart'
  <2> SUFFICES ASSUME NEW d \in Level, lua'[d].initialized, lua'[d].L # Null
               PROVE  /\ \A c \in Level : c < d => lua'[c].L # lua'[d].L
                      /\ \A i \in DOMAIN runs' : i <= d =>
                           runs'[i].vm # lua'[d].L
    BY DEF OwnersApart
  <2>1. d # Here /\ lua'[d] = lua[d]
    BY <1>3
  <2>2. ~(Here < d)
    BY <1>8, <2>1 DEF Default
  <2>3. \A c \in Level : c < d => lua'[c] = lua[c]
    BY <1>3, <2>2
  <2> QED
    BY <2>1, <2>3 DEF StateInv, OwnersApart
<1>11. FlagsRight'
  BY <1>3 DEF StateInv, FlagsRight
<1>12. ScriptsHaveLibs'
  BY DEF StateInv, ScriptsHaveLibs
<1>13. ScriptsHaveVM'
  BY <1>2, <1>6 DEF ScriptsHaveVM
<1>14. ScriptsLeft'
  BY <1>2 DEF StateInv, ScriptsLeft, Faults
<1>15. NoneLeft'
  <2> SUFFICES ASSUME NEW d \in Level, d > Here
               PROVE  lua'[d] = Default
    BY <1>2 DEF NoneLeft
  <2>1. d # Here
    BY <1>1, LevelOrder
  <2> QED
    BY <2>1, <1>3, <1>8
<1> QED
  BY <1>5, <1>9, <1>10, <1>11, <1>12, <1>13, <1>14, <1>15 DEF StateInv

\* A new VM, or none, becomes the VM of the variable.
LEMMA NewStateKeeps ==
  ASSUME StateInv, pc \in {"new", "load"}, runs' = runs, libs' = libs,
         \/ pc = "new" /\ pc' = "fortran"
         \/ pc = "load" /\ pc' \in {"load", "no memory"},
         NEW m \in VM \cup {Null}, Created(m),
         NEW v \in Variable, lua' = [lua EXCEPT ![Here] = v],
         v.L = m, ~v.opened_libs
  PROVE  StateInv'
<1> USE StateAssumption
<1>1. /\ Here \in Level /\ lua \in [Level -> Variable]
      /\ lua[Here] \in Variable /\ runs \in Seq(Running)
      /\ Len(runs) \in Nat /\ DOMAIN runs = 1 .. Len(runs)
      /\ \A i \in DOMAIN runs : runs[i] \in Running
      /\ pc = "load" => Here = Len(runs) - 1
  BY HereFacts DEF Faults
<1>2. /\ pc' \notin Faults => Here' = Here
      /\ Last' = Last
  BY <1>1 DEF Here, Last, Faults
<1>3. /\ lua' \in [Level -> Variable] /\ lua'[Here] = v
      /\ \A d \in Level : d # Here => lua'[d] = lua[d]
  BY <1>1
<1>4. /\ life \in [VM -> {"none", "open", "closed"}]
      /\ life' \in [VM -> {"none", "open", "closed"}]
      /\ \A q \in VM : life[q] = "open" => life'[q] = "open" /\ q # m
      /\ m # Null => life'[m] = "open"
  BY DEF StateInv, TypeOK, Created
<1>5. TypeOK'
  BY <1>1, <1>2, <1>3, <1>4 DEF StateInv, TypeOK, Faults
<1>6. \A d \in Level : lua[d].L # Null =>
        life[lua[d].L] = "open" /\ lua[d].L \in VM /\ lua[d].L # m
  BY <1>1, <1>4 DEF StateInv, VariablesOpen, Variable
<1>7. VariablesOpen'
  BY <1>3, <1>4, <1>6 DEF VariablesOpen
<1>8. \A i \in DOMAIN runs : i <= Here => runs[i].vm # m
  <2> SUFFICES ASSUME NEW i \in DOMAIN runs, i <= Here
               PROVE  runs[i].vm # m
    OBVIOUS
  <2>1. ~(i = Last /\ pc \in {"load", "next"})
    <3>1. CASE pc = "new"
      BY <3>1
    <3>2. CASE pc = "load"
      <4>1. Here = Len(runs) - 1
        BY <1>1, <3>2
      <4>2. i \in Nat
        BY <1>1, SeqDomain
      <4>3. Last = Len(runs)
        BY DEF Last
      <4>4. Len(runs) \in Nat /\ i <= Len(runs) - 1
        BY <1>1, <4>1
      <4>5. i # Len(runs)
        BY <4>2, <4>4, Smaller
      <4> QED
        BY <4>3, <4>5
    <3> QED
      BY <3>1, <3>2
  <2>2. pc \notin Faults
    BY DEF Faults
  <2>3. runs[i].vm # Null /\ life[runs[i].vm] = "open"
    BY <2>1, <2>2 DEF StateInv, ScriptsHaveVM
  <2>4. runs[i].vm \in VM
    BY <1>1, <2>3 DEF Running
  <2> QED
    BY <1>4, <2>3, <2>4
<1>9. OwnersApart'
  <2> SUFFICES ASSUME NEW d \in Level, lua'[d].initialized, lua'[d].L # Null
               PROVE  /\ \A c \in Level : c < d => lua'[c].L # lua'[d].L
                      /\ \A i \in DOMAIN runs' : i <= d =>
                           runs'[i].vm # lua'[d].L
    BY DEF OwnersApart
  <2>1. CASE d = Here
    <3>1. lua'[d].L = m /\ m # Null
      BY <1>3, <2>1
    <3>2. \A c \in Level : c < d => lua'[c].L # m
      <4> SUFFICES ASSUME NEW c \in Level, c < d PROVE lua'[c].L # m
        OBVIOUS
      <4>1. c # Here
        BY <2>1, LevelOrder
      <4> QED
        BY <1>3, <1>6, <3>1, <4>1
    <3>3. \A i \in DOMAIN runs' : i <= d => runs'[i].vm # m
      BY <1>8, <2>1
    <3> QED
      BY <3>1, <3>2, <3>3
  <2>2. CASE d # Here
    <3>1. lua'[d] = lua[d] /\ lua[d].L # m
      BY <1>3, <1>6, <2>2
    <3>2. \A c \in Level : c < d => lua'[c].L # lua[d].L
      BY <1>3, <3>1 DEF StateInv, OwnersApart
    <3>3. \A i \in DOMAIN runs' : i <= d => runs'[i].vm # lua[d].L
      BY <3>1 DEF StateInv, OwnersApart
    <3> QED
      BY <3>1, <3>2, <3>3
  <2> QED
    BY <2>1, <2>2
<1>10. FlagsRight'
  BY <1>3 DEF StateInv, FlagsRight
<1>11. ScriptsHaveLibs'
  BY DEF StateInv, ScriptsHaveLibs
<1>12. ScriptsHaveVM'
  <2> SUFFICES ASSUME NEW i \in DOMAIN runs
               PROVE  IF i = Last /\ pc' \in {"load", "next"}
                      THEN runs[i].vm = Null
                      ELSE pc' \in Faults
                           \/ (runs[i].vm # Null /\ life'[runs[i].vm] = "open")
    BY <1>2 DEF ScriptsHaveVM
  <2>1. IF i = Last /\ pc \in {"load", "next"}
        THEN runs[i].vm = Null
        ELSE runs[i].vm # Null /\ life[runs[i].vm] = "open"
    BY DEF StateInv, ScriptsHaveVM, Faults
  <2>2. runs[i].vm # Null => runs[i].vm \in VM
    BY <1>1 DEF Running
  <2> QED
    BY <1>4, <2>1, <2>2 DEF Faults
<1>13. ScriptsLeft'
  BY <1>2 DEF StateInv, ScriptsLeft, Faults
<1>14. NoneLeft'
  <2> SUFFICES ASSUME pc' \notin Faults, NEW d \in Level, d > Here
               PROVE  lua'[d] = Default
    BY <1>2 DEF NoneLeft
  <2>1. d # Here
    BY <1>1, LevelOrder
  <2> QED
    BY <2>1, <1>3 DEF StateInv, NoneLeft, Faults
<1> QED
  BY <1>5, <1>7, <1>9, <1>10, <1>11, <1>12, <1>13, <1>14 DEF StateInv

\* What is left to show of a step that creates and closes no VM and gives no
\* variable another: that a script it starts runs on a VM that no level above
\* it owns.
LEMMA RunsKeep ==
  ASSUME StateInv, life' = life,
         TypeOK', NoneLeft', ScriptsHaveVM', FlagsRight', ScriptsHaveLibs',
         ScriptsLeft',
         \A d \in Level : lua'[d].L \in {lua[d].L, Null},
         \A d \in Level : lua'[d].initialized => lua[d].initialized,
         \A i \in DOMAIN runs' :
           \/ i \in DOMAIN runs /\ runs'[i].vm = runs[i].vm
           \/ runs'[i].vm = Null
           \/ \A d \in Level : d >= i => ~lua'[d].initialized
  PROVE  StateInv'
<1>1. VariablesOpen'
  BY DEF StateInv, VariablesOpen
<1>2. OwnersApart'
  <2> SUFFICES ASSUME NEW d \in Level, lua'[d].initialized, lua'[d].L # Null
               PROVE  /\ \A c \in Level : c < d => lua'[c].L # lua'[d].L
                      /\ \A i \in DOMAIN runs' : i <= d =>
                           runs'[i].vm # lua'[d].L
    BY DEF OwnersApart
  <2>1. lua[d].initialized /\ lua'[d].L = lua[d].L
    OBVIOUS
  <2>2. \A c \in Level : c < d => lua'[c].L # lua'[d].L
    BY <2>1 DEF StateInv, OwnersApart
  <2>3. ASSUME NEW i \in DOMAIN runs', i <= d
        PROVE  runs'[i].vm # lua'[d].L
    <3>1. CASE i \in DOMAIN runs /\ runs'[i].vm = runs[i].vm
      BY <2>1, <2>3, <3>1 DEF StateInv, OwnersApart
    <3>2. CASE runs'[i].vm = Null
      BY <3>2
    <3>3. CASE \A c \in Level : c >= i => ~lua'[c].initialized
      <4>1. runs' \in Seq(Running)
        BY DEF TypeOK
      <4>2. d \in Int /\ i \in Nat
        BY <4>1, SeqDomain, StateAssumption DEF Level
      <4> QED
        BY <2>3, <3>3, <4>2
    <3> QED
      BY <3>1, <3>2, <3>3
  <2> QED
    BY <2>2, <2>3
<1> QED
  BY <1>1, <1>2 DEF StateInv

\* What a call of lua_run is after one of its scripts: it has no VM, one script
\* less, and the other calls are as they were.
LEMMA HandledFacts ==
  ASSUME StateInv, runs # <<>>, runs[Last].left > 0,
         NEW f \in BOOLEAN, Handled(f)
  PROVE  /\ runs' \in Seq(Running)
         /\ Last' = Last /\ Len(runs') = Len(runs)
         /\ DOMAIN runs' = DOMAIN runs
         /\ \A i \in DOMAIN runs : i # Last => runs'[i] = runs[i]
         /\ runs'[Last].vm = Null
<1> DEFINE r == runs[Len(runs)]
           x == [vm |-> Null, left |-> r.left - 1, report |-> r.report,
                 error |-> f, failed |-> r.failed \/ f]
<1>1. /\ runs \in Seq(Running) /\ Len(runs) \in Nat
      /\ DOMAIN runs = 1 .. Len(runs)
      /\ \A i \in DOMAIN runs : runs[i] \in Running
  BY SeqDomain DEF StateInv, TypeOK
<1>2. Len(runs) \in DOMAIN runs
  BY <1>1
<1>3. r \in Running
  BY <1>1, <1>2
<1>4. x \in Running
  <2>1. r.left \in 0 .. 2 /\ r.left > 0 /\ r.report \in BOOLEAN
        /\ r.failed \in BOOLEAN
    BY <1>3 DEF Running, Last
  <2>2. r.left - 1 \in 0 .. 2
    BY <2>1
  <2>3. (r.failed \/ f) \in BOOLEAN
    BY <2>1
  <2> QED
    BY <2>1, <2>2, <2>3 DEF Running
<1>5. runs' = [runs EXCEPT ![Len(runs)] = x]
  BY <1>1, <1>2, <1>3 DEF Handled, Last, Running
<1>6. x.vm = Null
  OBVIOUS
<1> HIDE DEF x
<1> QED
  BY <1>1, <1>4, <1>5, <1>6, AmendFacts DEF Last

\* A script ends, fails or cannot be loaded, or the function it called raises
\* an error and leaves.
LEMMA HandledKeeps ==
  ASSUME StateInv, runs # <<>>, NEW f \in BOOLEAN, Handled(f),
         life' = life, libs' = libs,
         \/ pc \in {"load", "script"} /\ lua' = lua
         \/ pc = "fortran" /\ Left
  PROVE  StateInv'
<1> USE StateAssumption
<1>0. pc \notin Faults
  BY DEF Faults
<1>1. /\ Here \in Level /\ Here \in Nat /\ lua \in [Level -> Variable]
      /\ runs \in Seq(Running)
      /\ Len(runs) \in Nat /\ DOMAIN runs = 1 .. Len(runs)
      /\ pc = "fortran" => Here = Len(runs)
      /\ pc \in {"load", "script"} => Here = Len(runs) - 1
  BY <1>0, HereFacts
<1>2. Last \in DOMAIN runs /\ Last = Len(runs)
  BY <1>1, LastFacts DEF Last
<1>3. runs[Last].left > 0
  BY <1>2 DEF StateInv, ScriptsLeft, Faults
<1>4. /\ runs' \in Seq(Running)
      /\ Last' = Last /\ Len(runs') = Len(runs)
      /\ DOMAIN runs' = DOMAIN runs
      /\ \A i \in DOMAIN runs : i # Last => runs'[i] = runs[i]
      /\ runs'[Last].vm = Null
  BY <1>3, HandledFacts
<1>5. pc' \in {"stopped", "next"} /\ runs' # <<>>
  BY <1>1, <1>4 DEF Handled
<1>6. \A d \in Level : lua'[d] \in {lua[d], Default}
  BY <1>1 DEF Left
<1>7. lua' \in [Level -> Variable]
  BY <1>1, DefaultVariable DEF Left
<1>8. TypeOK'
  BY <1>4, <1>5, <1>7 DEF StateInv, TypeOK, Faults
<1>9. NoneLeft'
  <2> SUFFICES ASSUME pc' = "next", NEW d \in Level, d > Len(runs) - 1
               PROVE  lua'[d] = Default
    BY <1>4, <1>5 DEF NoneLeft, Here, Faults
  <2>1. \A c \in Level : c > Here => lua[c] = Default
    BY DEF StateInv, NoneLeft, Faults
  <2>2. CASE pc = "fortran"
    <3>1. d = Here \/ d > Here
      BY <1>1, <2>2 DEF Level
    <3> QED
      BY <1>1, <2>1, <2>2, <3>1 DEF Left
  <2>3. CASE pc \in {"load", "script"}
    BY <1>1, <2>1, <2>3
  <2> QED
    BY <2>2, <2>3
<1>10. ScriptsHaveVM'
  <2> SUFFICES ASSUME NEW i \in DOMAIN runs, pc' \notin Faults
               PROVE  IF i = Last THEN runs'[i].vm = Null
                      ELSE runs'[i].vm # Null /\ life[runs'[i].vm] = "open"
    BY <1>4, <1>5 DEF ScriptsHaveVM, Faults
  <2> QED
    BY <1>4 DEF StateInv, ScriptsHaveVM, Faults
<1>11. FlagsRight'
  BY <1>6 DEF StateInv, FlagsRight, Default
<1>12. ScriptsHaveLibs'
  BY <1>4 DEF StateInv, ScriptsHaveLibs
<1>13. ScriptsLeft'
  BY <1>4, <1>5 DEF StateInv, ScriptsLeft, Faults
<1>14. /\ \A d \in Level : lua'[d].L \in {lua[d].L, Null}
       /\ \A d \in Level : lua'[d].initialized => lua[d].initialized
  BY <1>6 DEF Default
<1>15. \A i \in DOMAIN runs' :
         (i \in DOMAIN runs /\ runs'[i].vm = runs[i].vm) \/ runs'[i].vm = Null
  BY <1>4
<1> QED
  BY <1>8, <1>9, <1>10, <1>11, <1>12, <1>13, <1>14, <1>15, RunsKeep

\* A call of lua_run begins.
LEMMA RunKeeps == ASSUME StateInv, Run PROVE StateInv'
<1> USE StateAssumption
<1>0. pc = "fortran" /\ pc \notin Faults
  BY DEF Run, Faults
<1>1. /\ Here = Len(runs) /\ runs \in Seq(Running) /\ Len(runs) \in Nat
      /\ DOMAIN runs = 1 .. Len(runs)
  BY <1>0, HereFacts
<1> DEFINE x(n, r) == [vm |-> Null, left |-> n, report |-> r,
                       error |-> FALSE, failed |-> FALSE]
<1>2. PICK n \in 1 .. 2, r \in BOOLEAN : runs' = Append(runs, x(n, r))
  BY DEF Run
<1>3. x(n, r) \in Running /\ x(n, r).vm = Null /\ x(n, r).left > 0
  BY DEF Running
<1> HIDE DEF x
<1>4. /\ runs' \in Seq(Running)
      /\ Len(runs') = Len(runs) + 1
      /\ DOMAIN runs' = DOMAIN runs \cup {Len(runs) + 1}
      /\ \A i \in DOMAIN runs : runs'[i] = runs[i]
      /\ runs'[Len(runs) + 1] = x(n, r)
  BY <1>1, <1>2, <1>3, AppendFacts
<1>5. /\ Last' = Len(runs) + 1 /\ pc' = "load" /\ pc' \notin Faults
      /\ \A i \in DOMAIN runs : i # Len(runs) + 1
      /\ life' = life /\ libs' = libs /\ lua' = lua
  BY <1>1, <1>4 DEF Last, Run, Faults
<1>6. Here' = Here
  <2>1. Here' = Len(runs') - 1
    BY <1>5 DEF Here
  <2> QED
    BY <1>1, <1>4, <2>1
<1>7. TypeOK'
  <2>1. Len(runs) <= MaxCalls
    BY <1>0 DEF StateInv, TypeOK, Level
  <2>2. Len(runs') <= MaxCalls + 1 /\ runs' # <<>>
    BY <1>1, <1>4, <2>1
  <2> QED
    BY <1>4, <1>5, <2>2 DEF StateInv, TypeOK, Faults
<1>8. NoneLeft'
  BY <1>0, <1>5, <1>6 DEF StateInv, NoneLeft
<1>9. ScriptsHaveVM'
  BY <1>0, <1>3, <1>4, <1>5 DEF StateInv, ScriptsHaveVM
<1>10. FlagsRight'
  BY <1>5 DEF StateInv, FlagsRight
<1>11. ScriptsHaveLibs'
  BY <1>3, <1>4, <1>5 DEF StateInv, ScriptsHaveLibs
<1>12. ScriptsLeft'
  BY <1>0, <1>3, <1>4, <1>5 DEF StateInv, ScriptsLeft
<1>13. \A i \in DOMAIN runs' :
         (i \in DOMAIN runs /\ runs'[i].vm = runs[i].vm) \/ runs'[i].vm = Null
  BY <1>3, <1>4
<1> QED
  BY <1>5, <1>7, <1>8, <1>9, <1>10, <1>11, <1>12, <1>13, RunsKeep

\* A script of the call starts on the VM of the caller's variable.
LEMMA StartKeeps == ASSUME StateInv, Start PROVE StateInv'
<1> USE StateAssumption
<1>0. /\ pc = "load" /\ pc' = "script" /\ pc \notin Faults /\ pc' \notin Faults
      /\ lua[Here].L # Null /\ life' = life
  BY DEF Start, Faults
<1>1. /\ Here \in Level /\ Here \in Nat /\ Here = Len(runs) - 1
      /\ runs \in Seq(Running)
      /\ Len(runs) \in Nat /\ DOMAIN runs = 1 .. Len(runs)
      /\ \A i \in DOMAIN runs : runs[i] \in Running
      /\ lua \in [Level -> Variable] /\ lua[Here] \in Variable
      /\ Len(runs) \in DOMAIN runs /\ runs # <<>>
  BY <1>0, HereFacts DEF StateInv, TypeOK
<1> DEFINE m == lua[Here].L
           x == [runs[Len(runs)] EXCEPT !.vm = m, !.error = FALSE]
<1>2. m \in VM /\ life[m] = "open"
  BY <1>0, <1>1 DEF StateInv, VariablesOpen, Variable
<1>3. x \in Running /\ x.vm = m /\ x.left = runs[Len(runs)].left
  BY <1>1, <1>2 DEF Running
<1>4. runs' = [runs EXCEPT ![Len(runs)] = x]
  BY <1>1 DEF Start, Last
<1>5. /\ m \in libs' /\ libs \subseteq libs' /\ libs' \in SUBSET VM
  <2>1. lua[Here].opened_libs => m \in libs
    BY <1>0, <1>1 DEF StateInv, FlagsRight
  <2> QED
    BY <1>2, <2>1 DEF Start, StateInv, TypeOK
<1>6. /\ lua' \in [Level -> Variable]
      /\ \A d \in Level : d # Here => lua'[d] = lua[d]
      /\ lua'[Here].L = m /\ lua'[Here].initialized = lua[Here].initialized
  BY <1>1 DEF Start, Variable
<1> HIDE DEF m, x
<1>7. /\ runs' \in Seq(Running)
      /\ Len(runs') = Len(runs)
      /\ DOMAIN runs' = DOMAIN runs
      /\ \A i \in DOMAIN runs : i # Len(runs) => runs'[i] = runs[i]
      /\ runs'[Len(runs)] = x
  BY <1>1, <1>3, <1>4, AmendFacts
<1>8. Last' = Last /\ Last = Len(runs)
  BY <1>7 DEF Last
<1>9. Here' = Here
  BY <1>0, <1>7 DEF Here
<1>10. TypeOK'
  <2>1. runs' # <<>> /\ Len(runs') <= MaxCalls + 1
    BY <1>1, <1>7 DEF StateInv, TypeOK
  <2> QED
    BY <1>0, <1>5, <1>6, <1>7, <2>1 DEF StateInv, TypeOK, Faults
<1>11. NoneLeft'
  <2> SUFFICES ASSUME NEW d \in Level, d > Here PROVE lua'[d] = Default
    BY <1>9 DEF NoneLeft
  <2>1. d # Here
    BY <1>1, LevelOrder
  <2> QED
    BY <1>0, <1>6, <2>1 DEF StateInv, NoneLeft
<1>12. ScriptsHaveVM'
  <2> SUFFICES ASSUME NEW i \in DOMAIN runs
               PROVE  runs'[i].vm # Null /\ life[runs'[i].vm] = "open"
    BY <1>0, <1>7 DEF ScriptsHaveVM
  <2>1. CASE i = Len(runs)
    BY <1>2, <1>3, <1>7, <2>1
  <2>2. CASE i # Len(runs)
    BY <1>0, <1>7, <1>8, <2>2 DEF StateInv, ScriptsHaveVM
  <2> QED
    BY <2>1, <2>2
<1>13. FlagsRight'
  <2> SUFFICES ASSUME NEW d \in Level, lua'[d].opened_libs, lua'[d].L # Null
               PROVE  lua'[d].L \in libs'
    BY DEF FlagsRight
  <2>1. CASE d = Here
    BY <1>5, <1>6, <2>1
  <2>2. CASE d # Here
    BY <1>5, <1>6, <2>2 DEF StateInv, FlagsRight
  <2> QED
    BY <2>1, <2>2
<1>14. ScriptsHaveLibs'
  BY <1>3, <1>5, <1>7 DEF StateInv, ScriptsHaveLibs
<1>15. ScriptsLeft'
  <2> SUFFICES ASSUME NEW i \in DOMAIN runs PROVE runs'[i].left > 0
    BY <1>7 DEF ScriptsLeft
  <2>1. runs[i].left > 0
    BY <1>0 DEF StateInv, ScriptsLeft
  <2> QED
    BY <1>3, <1>7, <2>1
<1>16. /\ \A d \in Level : lua'[d].L \in {lua[d].L, Null}
       /\ \A d \in Level : lua'[d].initialized => lua[d].initialized
  BY <1>6 DEF m
<1>17. \A d \in Level : d >= Len(runs) => ~lua'[d].initialized
  <2> SUFFICES ASSUME NEW d \in Level, d >= Len(runs)
               PROVE  ~lua'[d].initialized
    OBVIOUS
  <2>1. d > Here
    BY <1>1 DEF Level
  <2> QED
    BY <1>0, <1>9, <1>11, <2>1 DEF NoneLeft, Default
<1>18. \A i \in DOMAIN runs' :
         \/ i \in DOMAIN runs /\ runs'[i].vm = runs[i].vm
         \/ runs'[i].vm = Null
         \/ \A d \in Level : d >= i => ~lua'[d].initialized
  BY <1>7, <1>17
<1> QED
  BY <1>0, <1>10, <1>11, <1>12, <1>13, <1>14, <1>15, <1>16, <1>18, RunsKeep

\* A call of lua_run goes on to its code, or returns.
LEMMA ContinueKeeps == ASSUME StateInv, Continue PROVE StateInv'
<1> USE StateAssumption
<1>0. /\ pc = "next" /\ pc \notin Faults /\ pc' \in {"load", "fortran"}
      /\ life' = life /\ libs' = libs /\ lua' = lua
  BY DEF Continue, Faults
<1>1. /\ runs \in Seq(Running) /\ Len(runs) \in Nat /\ runs # <<>>
      /\ DOMAIN runs = 1 .. Len(runs) /\ Len(runs) <= MaxCalls + 1
  BY <1>0, SeqDomain DEF StateInv, TypeOK
<1>2. Here = Len(runs) - 1
  BY <1>0 DEF Here
<1>3. Len(runs) > 0
  BY <1>1, LastFacts
<1>4. CASE runs[Last].left > 0
  <2>1. pc' = "load" /\ runs' = runs /\ Last' = Last
    BY <1>4 DEF Continue, Last
  <2>2. Here' = Here
    BY <1>0, <2>1 DEF Here
  <2>3. TypeOK' /\ NoneLeft'
    BY <1>0, <1>1, <2>1, <2>2 DEF StateInv, TypeOK, NoneLeft, Faults
  <2>4. ScriptsHaveVM' /\ ScriptsLeft'
    BY <1>0, <1>4, <2>1 DEF StateInv, ScriptsHaveVM, ScriptsLeft, Faults
  <2>5. FlagsRight' /\ ScriptsHaveLibs'
    BY <1>0, <2>1 DEF StateInv, FlagsRight, ScriptsHaveLibs
  <2> QED
    BY <1>0, <2>1, <2>3, <2>4, <2>5, RunsKeep
<1>5. CASE ~(runs[Last].left > 0)
  <2>1. pc' = "fortran" /\ runs' = SubSeq(runs, 1, Len(runs) - 1)
    BY <1>5 DEF Continue, Last
  <2>2. /\ runs' \in Seq(Running)
        /\ Len(runs') = Len(runs) - 1
        /\ DOMAIN runs' = 1 .. Len(runs) - 1
        /\ \A i \in 1 .. Len(runs) - 1 : runs'[i] = runs[i]
    BY <1>1, <2>1, FrontFacts
  <2>3. /\ DOMAIN runs' \subseteq DOMAIN runs
        /\ \A i \in DOMAIN runs' : i # Len(runs)
    BY <1>1, <2>2
  <2>4. \A i \in DOMAIN runs' :
          i \in DOMAIN runs /\ i # Last /\ runs'[i] = runs[i]
    BY <2>2, <2>3 DEF Last
  <2>5. pc' \notin {"load", "script", "next", "new"} /\ pc' \notin Faults
    BY <2>1 DEF Faults
  <2>6. Here' = Here
    BY <1>2, <2>1, <2>2 DEF Here
  <2>7. Len(runs') \in Level /\ Len(runs') <= MaxCalls + 1
    BY <1>1, <1>3, <2>2 DEF Level
  <2>8. TypeOK' /\ NoneLeft'
    <3>1. TypeOK'
      BY <1>0, <2>1, <2>2, <2>5, <2>7 DEF StateInv, TypeOK
    <3>2. NoneLeft'
      BY <1>0, <2>6 DEF StateInv, NoneLeft
    <3> QED
      BY <3>1, <3>2
  <2>9. ScriptsHaveVM' /\ ScriptsLeft'
    BY <1>0, <2>4, <2>5 DEF StateInv, ScriptsHaveVM, ScriptsLeft
  <2>10. FlagsRight' /\ ScriptsHaveLibs'
    BY <1>0, <2>4 DEF StateInv, FlagsRight, ScriptsHaveLibs
  <2> QED
    BY <1>0, <2>4, <2>8, <2>9, <2>10, RunsKeep
<1> QED
  BY <1>4, <1>5

\* A script calls a function, or the function returns to it.
LEMMA CallReturnKeeps == ASSUME StateInv, Call \/ Return PROVE StateInv'
<1> USE StateAssumption
<1>0. /\ life' = life /\ libs' = libs /\ runs' = runs /\ Last' = Last
      /\ \/ pc = "script" /\ pc' = "fortran" /\ lua' = lua /\ Last <= MaxCalls
         \/ pc = "fortran" /\ pc' = "script" /\ runs # <<>> /\ Left
  BY DEF Call, Return, Last
<1>1. pc \notin Faults /\ pc' \notin Faults
  BY <1>0 DEF Faults
<1>2. /\ Here \in Level /\ Here \in Nat /\ lua \in [Level -> Variable]
      /\ runs \in Seq(Running) /\ Len(runs) \in Nat
      /\ pc = "fortran" => Here = Len(runs)
      /\ pc = "script" => Here = Len(runs) - 1
  BY <1>1, HereFacts
<1>3. \A d \in Level : lua'[d] \in {lua[d], Default}
  BY <1>0, <1>2 DEF Left
<1>4. lua' \in [Level -> Variable]
  BY <1>0, <1>2, DefaultVariable DEF Left
<1>5. \A d \in Level : d > Here => lua[d] = Default
  BY <1>1 DEF StateInv, NoneLeft
<1>6. ASSUME pc = "script" PROVE TypeOK' /\ NoneLeft'
  <2>1. pc' = "fortran" /\ Len(runs) <= MaxCalls /\ lua' = lua
    BY <1>0, <1>6 DEF Last
  <2>2. Len(runs) \in Level
    BY <1>2, <2>1 DEF Level
  <2>3. TypeOK'
    BY <1>0, <1>2, <1>4, <2>1, <2>2 DEF StateInv, TypeOK
  <2>4. Here' = Len(runs)
    BY <1>0, <2>1 DEF Here
  <2>5. NoneLeft'
    <3> SUFFICES ASSUME NEW d \in Level, d > Len(runs)
                 PROVE  lua[d] = Default
      BY <2>1, <2>4 DEF NoneLeft
    <3>1. d > Here
      BY <1>2, <1>6 DEF Level
    <3> QED
      BY <1>5, <3>1
  <2> QED
    BY <2>3, <2>5
<1>7. ASSUME pc = "fortran" PROVE TypeOK' /\ NoneLeft'
  <2>1. pc' = "script" /\ runs # <<>> /\ Left
    BY <1>0, <1>7
  <2>2. TypeOK'
    BY <1>0, <1>2, <1>4, <2>1 DEF StateInv, TypeOK
  <2>3. Here' = Len(runs) - 1
    BY <1>0, <2>1 DEF Here
  <2>4. NoneLeft'
    <3> SUFFICES ASSUME NEW d \in Level, d > Len(runs) - 1
                 PROVE  lua'[d] = Default
      BY <2>3 DEF NoneLeft
    <3>1. d = Here \/ d > Here
      BY <1>2, <1>7 DEF Level
    <3> QED
      BY <1>2, <1>3, <1>5, <2>1, <3>1 DEF Left
  <2> QED
    BY <2>2, <2>4
<1>8. TypeOK' /\ NoneLeft'
  BY <1>0, <1>6, <1>7
<1>9. ScriptsHaveVM' /\ ScriptsLeft'
  <2>1. pc \notin {"load", "next"} /\ pc' \notin {"load", "next"}
    BY <1>0
  <2> QED
    BY <1>0, <1>1, <2>1 DEF StateInv, ScriptsHaveVM, ScriptsLeft
<1>10. FlagsRight' /\ ScriptsHaveLibs'
  BY <1>0, <1>3 DEF StateInv, FlagsRight, ScriptsHaveLibs, Default
<1>11. /\ \A d \in Level : lua'[d].L \in {lua[d].L, Null}
       /\ \A d \in Level : lua'[d].initialized => lua[d].initialized
  BY <1>3 DEF Default
<1> QED
  BY <1>0, <1>8, <1>9, <1>10, <1>11, RunsKeep

\* lua_close gives up with a null pointer.
LEMMA CloseNullKeeps == ASSUME StateInv, CloseNull PROVE StateInv'
<1>1. /\ pc' \in Faults /\ pc' \notin {"fortran", "new", "load", "script", "next"}
      /\ pc = "fortran"
      /\ life' = life /\ libs' = libs /\ lua' = lua /\ runs' = runs
      /\ Last' = Last
  BY DEF CloseNull, Faults, Last
<1>2. TypeOK'
  BY <1>1 DEF StateInv, TypeOK
<1>3. VariablesOpen' /\ OwnersApart' /\ ScriptsHaveLibs' /\ FlagsRight'
  BY <1>1 DEF StateInv, VariablesOpen, OwnersApart, ScriptsHaveLibs, FlagsRight
<1>4. ScriptsHaveVM' /\ ScriptsLeft' /\ NoneLeft'
  BY <1>1 DEF StateInv, ScriptsHaveVM, ScriptsLeft, NoneLeft
<1> QED
  BY <1>2, <1>3, <1>4 DEF StateInv

\* lua_close, the two lua_init, and the VMs they and lua_run open.
LEMMA LifeKeeps ==
  ASSUME StateInv, Close \/ InitState \/ Attach \/ NewOwned \/ OpenForRun
  PROVE  StateInv'
<1>1. CASE pc = "fortran" /\ (Close \/ InitState \/ Attach)
  <2>1. /\ Here \in Level /\ Here = Len(runs)
        /\ lua \in [Level -> Variable] /\ lua[Here] \in Variable
        /\ runs \in Seq(Running) /\ DOMAIN runs = 1 .. Len(runs)
        /\ \A i \in DOMAIN runs : runs[i] \in Running
    BY <1>1, HereFacts DEF Faults
  <2>2. /\ runs' = runs /\ libs' = libs /\ pc' \in {"fortran", "new"}
        /\ CloseState(Here) \/ (runs # <<>> /\ AttachState(Here))
    BY <1>1 DEF Close, InitState, Attach
  <2>3. CASE CloseState(Here)
    <3>1. CASE lua[Here].initialized
      <4> DEFINE v == Emptied(lua[Here])
      <4>1. v \in Variable /\ v.L = Null /\ ~v.initialized
        BY <2>1 DEF Emptied, Variable
      <4>2. /\ lua[Here].L # Null
            /\ life' = [life EXCEPT ![lua[Here].L] = "closed"]
            /\ lua' = [lua EXCEPT ![Here] = v]
        BY <2>3, <3>1 DEF CloseState
      <4> HIDE DEF v
      <4> QED
        BY <1>1, <2>2, <3>1, <4>1, <4>2, VariableKeeps
    <3>2. CASE ~lua[Here].initialized
      <4> DEFINE v == lua[Here]
      <4>1. life' = life /\ lua' = lua
        BY <2>3, <3>2 DEF CloseState
      <4>2. lua' = [lua EXCEPT ![Here] = v]
        BY <2>1, <4>1
      <4>3. v.opened_libs /\ v.L # Null => v.L \in libs
        BY <2>1 DEF StateInv, FlagsRight
      <4>4. v \in Variable /\ ~v.initialized /\ v.L = lua[Here].L
        BY <2>1, <3>2
      <4> HIDE DEF v
      <4> QED
        BY <1>1, <2>2, <4>1, <4>2, <4>3, <4>4, VariableKeeps
    <3> QED
      BY <3>1, <3>2
  <2>4. CASE runs # <<>> /\ AttachState(Here)
    <3>1. runs[Here].vm \in VM \cup {Null}
      <4>1. Here \in DOMAIN runs
        BY <2>1, <2>4, LastFacts
      <4> QED
        BY <2>1, <4>1 DEF Running
    <3>2. CASE lua[Here].initialized
      <4> DEFINE v == NewState(Emptied(lua[Here]), runs[Here].vm)
      <4>1. /\ v \in Variable /\ v.L = runs[Here].vm
            /\ ~v.initialized /\ ~v.opened_libs
        BY <2>1, <3>1 DEF Emptied, NewState, Variable
      <4>2. /\ lua[Here].L # Null
            /\ life' = [life EXCEPT ![lua[Here].L] = "closed"]
            /\ lua' = [lua EXCEPT ![Here] = v]
        BY <2>1, <2>4, <3>2 DEF AttachState
      <4> HIDE DEF v
      <4> QED
        BY <1>1, <2>2, <2>4, <3>2, <4>1, <4>2, VariableKeeps
    <3>3. CASE ~lua[Here].initialized
      <4> DEFINE v == NewState(lua[Here], runs[Here].vm)
      <4>1. /\ v \in Variable /\ v.L = runs[Here].vm
            /\ ~v.initialized /\ ~v.opened_libs
        BY <2>1, <3>1, <3>3 DEF NewState, Variable
      <4>2. life' = life /\ lua' = [lua EXCEPT ![Here] = v]
        BY <2>1, <2>4, <3>3 DEF AttachState
      <4> HIDE DEF v
      <4> QED
        BY <1>1, <2>2, <2>4, <4>1, <4>2, VariableKeeps
    <3> QED
      BY <3>2, <3>3
  <2> QED
    BY <2>2, <2>3, <2>4
<1>2. CASE NewOwned
  <2>1. Here \in Level /\ lua \in [Level -> Variable] /\ lua[Here] \in Variable
    BY <1>2, HereFacts DEF NewOwned, Faults
  <2>2. PICK m \in VM \cup {Null} :
          /\ Created(m)
          /\ lua' = [lua EXCEPT ![Here] =
                       [NewState(@, m) EXCEPT !.initialized = TRUE]]
    BY <1>2 DEF NewOwned
  <2> DEFINE v == [NewState(lua[Here], m) EXCEPT !.initialized = TRUE]
  <2>3. v \in Variable /\ v.L = m /\ ~v.opened_libs
    BY <2>1 DEF NewState, Variable
  <2>4. lua' = [lua EXCEPT ![Here] = v]
    BY <2>1, <2>2
  <2>5. /\ pc = "new" /\ pc' = "fortran" /\ runs' = runs /\ libs' = libs
        /\ pc \in {"new", "load"}
    BY <1>2 DEF NewOwned
  <2> HIDE DEF v
  <2> QED
    BY <2>2, <2>3, <2>4, <2>5, NewStateKeeps
<1>3. CASE OpenForRun
  <2>1. Here \in Level /\ lua \in [Level -> Variable] /\ lua[Here] \in Variable
    BY <1>3, HereFacts DEF OpenForRun, Faults
  <2>2. PICK m \in VM \cup {Null} :
          /\ Created(m)
          /\ lua' = [lua EXCEPT ![Here] = NewState(@, m)]
          /\ pc' = IF m = Null THEN "no memory" ELSE pc
    BY <1>3 DEF OpenForRun
  <2> DEFINE v == NewState(lua[Here], m)
  <2>3. v \in Variable /\ v.L = m /\ ~v.opened_libs
    BY <2>1 DEF NewState, Variable
  <2>4. lua' = [lua EXCEPT ![Here] = v]
    BY <2>1, <2>2
  <2>5. /\ pc = "load" /\ pc' \in {"load", "no memory"}
        /\ pc \in {"new", "load"} /\ runs' = runs /\ libs' = libs
    BY <1>3, <2>2 DEF OpenForRun
  <2> HIDE DEF v
  <2> QED
    BY <2>2, <2>3, <2>4, <2>5, NewStateKeeps
<1> QED
  BY <1>1, <1>2, <1>3 DEF Close, InitState, Attach

\* Every step keeps the invariant.
LEMMA NextKeeps == StateInv /\ [Next]_vars => StateInv'
<1> SUFFICES ASSUME StateInv, [Next]_vars PROVE StateInv'
  OBVIOUS
<1>1. CASE Close \/ InitState \/ Attach \/ NewOwned \/ OpenForRun
  BY <1>1, LifeKeeps
<1>2. CASE CloseNull
  BY <1>2, CloseNullKeeps
<1>3. CASE Run
  BY <1>3, RunKeeps
<1>4. CASE Start
  BY <1>4, StartKeeps
<1>5. CASE Continue
  BY <1>5, ContinueKeeps
<1>6. CASE Call \/ Return
  BY <1>6, CallReturnKeeps
<1>7. CASE LoadFails \/ End \/ Raise
  <2>1. runs # <<>>
    BY <1>7 DEF StateInv, TypeOK, LoadFails, End, Raise
  <2>2. PICK f \in BOOLEAN : Handled(f)
    BY <1>7 DEF LoadFails, End, Raise
  <2>3. /\ life' = life /\ libs' = libs
        /\ \/ pc \in {"load", "script"} /\ lua' = lua
           \/ pc = "fortran" /\ Left
    BY <1>7 DEF LoadFails, End, Raise
  <2> QED
    BY <2>1, <2>2, <2>3, HandledKeeps
<1>8. CASE Over \/ UNCHANGED vars
  <2>1. UNCHANGED vars /\ Here' = Here /\ Last' = Last
    BY <1>8 DEF Over, vars, Here, Last
  <2>2. TypeOK' /\ VariablesOpen' /\ OwnersApart' /\ ScriptsHaveLibs'
    BY <2>1 DEF vars, StateInv, TypeOK, VariablesOpen, OwnersApart,
               ScriptsHaveLibs
  <2>3. FlagsRight' /\ ScriptsHaveVM' /\ ScriptsLeft' /\ NoneLeft'
    BY <2>1 DEF vars, StateInv, FlagsRight, ScriptsHaveVM, ScriptsLeft,
               NoneLeft
  <2> QED
    BY <2>2, <2>3 DEF StateInv
<1> QED
  BY <1>1, <1>2, <1>3, <1>4, <1>5, <1>6, <1>7, <1>8 DEF Next

\* However luaState variables are opened, closed and attached at every level of
\* scripts and functions, none refers to a closed VM, none owns a VM that a
\* level below it uses, and every script that runs has an open VM with the
\* standard libraries.
THEOREM StatesAreSafe == Spec => []StateInv
<1>1. Init => StateInv
  BY InitStates
<1>2. StateInv /\ [Next]_vars => StateInv'
  BY NextKeeps
<1> QED
  BY <1>1, <1>2, PTL DEF Spec

\* Closing the VM of an owner leaves no variable of a level below it, and no
\* script that runs there, with a closed VM.
THEOREM OwnedIsOwnAlone == Spec => []OwnersApart
<1>1. StateInv => OwnersApart
  BY DEF StateInv
<1> QED
  BY <1>1, StatesAreSafe, PTL

\* Every script runs on a VM with the libraries, however its state was opened
\* or attached: the fresh flags of a callback never skip luaL_openlibs.
THEOREM ScriptsFindLibs == Spec => []ScriptsHaveLibs
<1>1. StateInv => ScriptsHaveLibs
  BY DEF StateInv
<1> QED
  BY <1>1, StatesAreSafe, PTL

----------------------------------------------------------------------------
(* What lua_init has opened is closed.                                     *)

\* Between the two parts of lua_init the variable owns no VM.
NewIsEmpty == pc = "new" => ~lua[Here].initialized

LEMMA NextEmpties == StateInv /\ NewIsEmpty /\ [Next]_vars => NewIsEmpty'
<1> SUFFICES ASSUME StateInv, NewIsEmpty, [Next]_vars, pc' = "new"
             PROVE  ~lua'[Here'].initialized
  BY DEF NewIsEmpty
<1>1. CASE InitState
  <2>1. /\ Here \in Level /\ lua \in [Level -> Variable]
        /\ lua[Here] \in Variable
    BY <1>1, HereFacts DEF InitState, Faults
  <2>2. CloseState(Here) /\ Here' = Here
    BY <1>1 DEF InitState, Here
  <2>3. CASE lua[Here].initialized
    <3>1. lua'[Here] = Emptied(lua[Here])
      BY <2>1, <2>2, <2>3 DEF CloseState
    <3> QED
      BY <2>1, <2>2, <3>1 DEF Emptied, Variable
  <2>4. CASE ~lua[Here].initialized
    BY <2>2, <2>4 DEF CloseState
  <2> QED
    BY <2>3, <2>4
<1>2. CASE Over \/ UNCHANGED vars
  <2>1. pc = "new" /\ lua' = lua /\ Here' = Here
    BY <1>2 DEF Over, vars, Here
  <2> QED
    BY <2>1 DEF NewIsEmpty
<1>3. CASE Next /\ ~InitState /\ ~Over
  BY <1>3
     DEF Next, Close, CloseNull, NewOwned, Attach, Run, OpenForRun, LoadFails,
         Start, End, Continue, Call, Return, Raise, Handled
<1> QED
  BY <1>1, <1>2, <1>3

\* A step that gives a variable another VM, or takes it away, has closed what
\* the variable owned, or it owned nothing.
LEMMA NextCloses == StateInv /\ NewIsEmpty /\ [Next]_vars => [OwnersClose]_vars
<1> SUFFICES ASSUME StateInv, NewIsEmpty, Next,
                    NEW m \in VM, NEW d \in Level,
                    lua[d].initialized, lua[d].L = m
             PROVE  \/ \E c \in Level : lua'[c].initialized /\ lua'[c].L = m
                    \/ life'[m] = "closed"
  BY DEF OwnersClose, Owned
<1>1. ASSUME lua'[d].initialized = lua[d].initialized, lua'[d].L = lua[d].L
      PROVE  \E c \in Level : lua'[c].initialized /\ lua'[c].L = m
  BY <1>1
<1>2. CASE pc \in Faults
  BY <1>1, <1>2
     DEF Next, Over, vars, Faults, Close, CloseNull, InitState, NewOwned,
         Attach, Run, OpenForRun, LoadFails, Start, End, Continue, Call, Return,
         Raise
<1>3. CASE pc \notin Faults
  <2>1. /\ Here \in Level /\ lua \in [Level -> Variable]
        /\ lua[Here] \in Variable /\ lua[d] \in Variable
        /\ life \in [VM -> {"none", "open", "closed"}]
    BY <1>3, HereFacts DEF StateInv, TypeOK
  <2>2. ASSUME d # Here, NEW v, lua' = [lua EXCEPT ![Here] = v]
        PROVE  lua'[d] = lua[d]
    BY <2>1, <2>2
  <2>3. ASSUME NEW v, d = Here => ~lua[Here].initialized,
               lua' = [lua EXCEPT ![Here] = v]
        PROVE  \E c \in Level : lua'[c].initialized /\ lua'[c].L = m
    BY <1>1, <2>2, <2>3
  <2>4. ASSUME NEW v, lua[Here].initialized,
               life' = [life EXCEPT ![lua[Here].L] = "closed"],
               lua' = [lua EXCEPT ![Here] = v]
        PROVE  \/ \E c \in Level : lua'[c].initialized /\ lua'[c].L = m
               \/ life'[m] = "closed"
    <3>1. CASE d = Here
      BY <2>1, <2>4, <3>1
    <3>2. CASE d # Here
      BY <1>1, <2>2, <2>4, <3>2
    <3> QED
      BY <3>1, <3>2
  <2>5. CASE Close \/ InitState \/ Attach
    <3>1. CloseState(Here) \/ AttachState(Here)
      BY <2>5 DEF Close, InitState, Attach
    <3>2. CASE lua[Here].initialized
      <4>1. /\ life' = [life EXCEPT ![lua[Here].L] = "closed"]
            /\ \E v : lua' = [lua EXCEPT ![Here] = v]
        BY <3>1, <3>2 DEF CloseState, AttachState
      <4> QED
        BY <2>4, <3>2, <4>1
    <3>3. CASE ~lua[Here].initialized
      <4>1. lua' = lua \/ \E v : lua' = [lua EXCEPT ![Here] = v]
        BY <3>1, <3>3 DEF CloseState, AttachState
      <4> QED
        BY <1>1, <2>3, <3>3, <4>1
    <3> QED
      BY <3>2, <3>3
  <2>6. CASE NewOwned
    <3>1. ~lua[Here].initialized /\ \E v : lua' = [lua EXCEPT ![Here] = v]
      BY <2>6 DEF NewOwned, NewIsEmpty
    <3> QED
      BY <2>3, <3>1
  <2>7. CASE OpenForRun
    <3>1. d # Here /\ \E v : lua' = [lua EXCEPT ![Here] = v]
      BY <2>7, StateAssumption DEF OpenForRun
    <3> QED
      BY <2>3, <3>1
  <2>8. CASE Start
    <3>1. lua' = [lua EXCEPT ![Here].opened_libs = TRUE]
      BY <2>8 DEF Start
    <3> QED
      BY <1>1, <2>1, <3>1 DEF Variable
  <2>9. CASE Return \/ Raise
    <3>1. ~lua[Here].initialized /\ \E v : lua' = [lua EXCEPT ![Here] = v]
      BY <2>9 DEF Return, Raise, Left
    <3> QED
      BY <2>3, <3>1
  <2>10. CASE \/ CloseNull \/ Run \/ LoadFails \/ End \/ Continue \/ Call
              \/ Over
    BY <1>1, <2>10
       DEF CloseNull, Run, LoadFails, End, Continue, Call, Over, vars
  <2> QED
    BY <2>5, <2>6, <2>7, <2>8, <2>9, <2>10 DEF Next
<1> QED
  BY <1>2, <1>3

\* No VM that a lua_init has opened is lost: the variable keeps it until it has
\* closed it, at every level of scripts and functions.
THEOREM OwnersAlwaysClose == Spec => OwnedUntilClosed
<1>1. Init => NewIsEmpty
  BY DEF Init, NewIsEmpty
<1>2. StateInv /\ NewIsEmpty /\ [Next]_vars => NewIsEmpty'
  BY NextEmpties
<1>3. StateInv /\ NewIsEmpty /\ [Next]_vars => [OwnersClose]_vars
  BY NextCloses
<1> QED
  BY <1>1, <1>2, <1>3, StatesAreSafe, PTL DEF Spec, OwnedUntilClosed

----------------------------------------------------------------------------
(* A failure is reported, or stops the program.                            *)

\* A call of lua_run that has seen a failure has at most one script left.
FailureInv ==
  /\ FailuresNoticed
  /\ \A i \in DOMAIN runs : runs[i].failed => runs[i].left <= 1

\* Steps after which every call in progress has the error it had.
LEMMA SameFailures ==
  ASSUME FailureInv, pc # "stopped",
         \A i \in DOMAIN runs' :
           \/ /\ i \in DOMAIN runs
              /\ runs'[i].error = runs[i].error
              /\ runs'[i].failed = runs[i].failed
              /\ runs'[i].report = runs[i].report
              /\ runs'[i].left = runs[i].left
              /\ runs'[i].vm = runs[i].vm
           \/ ~runs'[i].error /\ ~runs'[i].failed
  PROVE  FailureInv'
  BY DEF FailureInv, FailuresNoticed

\* A script that ends, or fails.
LEMMA HandledNotices ==
  ASSUME StateInv, FailureInv, runs # <<>>, pc \notin Faults,
         NEW f \in BOOLEAN, Handled(f)
  PROVE  FailureInv'
<1> DEFINE n == Len(runs)
           r == runs[n]
<1>1. /\ runs \in Seq(Running) /\ n \in DOMAIN runs /\ r \in Running
  BY SeqDomain, LastFacts DEF StateInv, TypeOK
<1>2. r.left > 0 \/ pc = "next"
  BY <1>1 DEF StateInv, ScriptsLeft, Last
<1>3. r.left \in 0 .. 2 /\ r.failed \in BOOLEAN /\ r.error \in BOOLEAN
      /\ r.report \in BOOLEAN
  BY <1>1 DEF Running
<1>4. /\ DOMAIN runs' = DOMAIN runs
      /\ \A i \in DOMAIN runs : i # n => runs'[i] = runs[i]
      /\ runs'[n].left = r.left - 1 /\ runs'[n].report = r.report
      /\ runs'[n].error = f /\ runs'[n].failed = (r.failed \/ f)
      /\ pc' = IF f /\ ~r.report THEN "stopped" ELSE "next"
  BY <1>1 DEF Handled, Last, Running
<1>5. Last' = n
  <2>1. Len(runs') = n
    BY <1>1 DEF Handled, Last
  <2> QED
    BY <2>1 DEF Last
<1>6. /\ r.failed => r.left <= 1 /\ r.report
  BY <1>1 DEF FailureInv, FailuresNoticed, Faults
<1> HIDE DEF n, r
<1>7. /\ runs'[n].error => runs'[n].failed
      /\ runs'[n].failed => runs'[n].report \/ pc' = "stopped"
      /\ runs'[n].failed /\ runs'[n].left > 0 => runs'[n].error
      /\ runs'[n].failed => runs'[n].left <= 1
  <2>1. r.left - 1 <= 1
    BY <1>3
  <2>2. r.failed => ~(r.left - 1 > 0)
    BY <1>3, <1>6
  <2> QED
    BY <1>3, <1>4, <1>6, <2>1, <2>2
<1>8. ASSUME NEW i \in DOMAIN runs, i # n
      PROVE  /\ runs'[i].error => runs'[i].failed
             /\ runs'[i].failed => runs'[i].report
             /\ (runs'[i].failed /\ runs'[i].left > 0 /\ runs'[i].vm = Null)
                  => runs'[i].error
             /\ runs'[i].failed => runs'[i].left <= 1
  <2>1. runs'[i] = runs[i]
    BY <1>4, <1>8
  <2> QED
    BY <1>8, <2>1 DEF FailureInv, FailuresNoticed, Faults
<1> QED
  BY <1>4, <1>5, <1>7, <1>8 DEF FailureInv, FailuresNoticed

\* Every step keeps the account of the failures.
LEMMA NextNotices == StateInv /\ FailureInv /\ [Next]_vars => FailureInv'
<1> SUFFICES ASSUME StateInv, FailureInv, [Next]_vars PROVE FailureInv'
  OBVIOUS
<1>0. runs \in Seq(Running)
  BY DEF StateInv, TypeOK
<1>1. CASE LoadFails \/ End \/ Raise
  <2>1. runs # <<>> /\ pc \notin Faults
    BY <1>1 DEF StateInv, TypeOK, LoadFails, End, Raise, Faults
  <2>2. PICK f \in BOOLEAN : Handled(f)
    BY <1>1 DEF LoadFails, End, Raise
  <2> QED
    BY <2>1, <2>2, HandledNotices
<1>2. CASE \/ Close \/ CloseNull \/ InitState \/ NewOwned \/ Attach
           \/ OpenForRun \/ Call \/ Return
  <2>1. runs' = runs /\ pc # "stopped"
    BY <1>2
       DEF Close, CloseNull, InitState, NewOwned, Attach, OpenForRun, Call,
           Return
  <2> QED
    BY <2>1, SameFailures
<1>3. CASE Run
  <2> DEFINE x(n, r) == [vm |-> Null, left |-> n, report |-> r,
                         error |-> FALSE, failed |-> FALSE]
  <2>1. PICK n \in 1 .. 2, r \in BOOLEAN : runs' = Append(runs, x(n, r))
    BY <1>3 DEF Run
  <2>2. /\ x(n, r) \in Running
        /\ ~x(n, r).error /\ ~x(n, r).failed
    BY DEF Running
  <2> HIDE DEF x
  <2>3. /\ DOMAIN runs' = DOMAIN runs \cup {Len(runs) + 1}
        /\ \A i \in DOMAIN runs : runs'[i] = runs[i]
        /\ runs'[Len(runs) + 1] = x(n, r)
    BY <1>0, <2>1, <2>2, AppendFacts
  <2>4. pc # "stopped"
    BY <1>3 DEF Run
  <2> QED
    BY <2>2, <2>3, <2>4, SameFailures
<1>4. CASE Start
  <2> DEFINE n == Len(runs)
             m == lua[Here].L
  <2>1. /\ runs' = [runs EXCEPT ![n].vm = m, ![n].error = FALSE]
        /\ m # Null /\ pc # "stopped" /\ n \in DOMAIN runs
        /\ runs[n] \in Running
    <3>1. pc = "load" /\ runs # <<>>
      BY <1>4 DEF Start, StateInv, TypeOK
    <3> QED
      BY <1>0, <1>4, <3>1, LastFacts DEF Start, Last
  <2> HIDE DEF n, m
  <2>2. /\ DOMAIN runs' = DOMAIN runs
        /\ \A i \in DOMAIN runs : i # n => runs'[i] = runs[i]
        /\ runs'[n].vm = m /\ ~runs'[n].error
        /\ runs'[n].failed = runs[n].failed
        /\ runs'[n].report = runs[n].report
        /\ runs'[n].left = runs[n].left
    BY <2>1 DEF Running
  <2>3. \A i \in DOMAIN runs :
          /\ runs[i].error => runs[i].failed
          /\ runs[i].failed => runs[i].report /\ runs[i].left <= 1
          /\ (runs[i].failed /\ runs[i].left > 0 /\ runs[i].vm = Null) =>
               runs[i].error
    BY <2>1 DEF FailureInv, FailuresNoticed
  <2> QED
    BY <2>1, <2>2, <2>3 DEF FailureInv, FailuresNoticed
<1>5. CASE Continue
  <2>1. /\ pc = "next" /\ runs # <<>>
        /\ runs' = runs \/ runs' = SubSeq(runs, 1, Len(runs) - 1)
    BY <1>5 DEF Continue, Last, StateInv, TypeOK
  <2>2. CASE runs' = runs
    BY <2>1, <2>2, SameFailures
  <2>3. CASE runs' = SubSeq(runs, 1, Len(runs) - 1)
    <3>1. /\ DOMAIN runs' = 1 .. Len(runs) - 1
          /\ \A i \in 1 .. Len(runs) - 1 : runs'[i] = runs[i]
      BY <1>0, <2>1, <2>3, FrontFacts
    <3>2. DOMAIN runs = 1 .. Len(runs) /\ Len(runs) \in Nat
      BY <1>0, SeqDomain
    <3>3. \A i \in DOMAIN runs' : i \in DOMAIN runs
      BY <3>1, <3>2
    <3> QED
      BY <2>1, <3>1, <3>3, SameFailures
  <2> QED
    BY <2>1, <2>2, <2>3
<1>6. CASE Over \/ UNCHANGED vars
  <2>1. runs' = runs /\ pc' = pc /\ Last' = Last
    BY <1>6 DEF Over, vars, Last
  <2> QED
    BY <2>1 DEF FailureInv, FailuresNoticed
<1> QED
  BY <1>1, <1>2, <1>3, <1>4, <1>5, <1>6 DEF Next

\* Whatever fails, at whatever depth, stops the program or is in the error of
\* the lua_run it happened in, until another script of that call was loaded.
THEOREM FailuresAreNoticed == Spec => []FailuresNoticed
<1>1. Init => FailureInv
  BY DEF Init, FailureInv, FailuresNoticed
<1>2. StateInv /\ FailureInv /\ [Next]_vars => FailureInv'
  BY NextNotices
<1>3. FailureInv => FailuresNoticed
  BY DEF FailureInv
<1> QED
  BY <1>1, <1>2, <1>3, StatesAreSafe, PTL DEF Spec

----------------------------------------------------------------------------
(* LuaState implements VMLife.                                             *)

\* The scripts that run on each VM, as the abstract specification sees them.
OnVM == [m \in VM |-> {i \in DOMAIN runs : runs[i].vm = m}]

\* A step that leaves every call of lua_run on its VM is no step of VMLife.
LEMMA SameOnVM ==
  ASSUME \A i \in DOMAIN runs' :
           (i \in DOMAIN runs /\ runs'[i].vm = runs[i].vm) \/ runs'[i].vm = Null,
         \A i \in DOMAIN runs :
           (i \in DOMAIN runs' /\ runs'[i].vm = runs[i].vm) \/ runs[i].vm = Null
  PROVE  OnVM' = OnVM
<1>1. \A m \in VM : {i \in DOMAIN runs' : runs'[i].vm = m}
                      = {i \in DOMAIN runs : runs[i].vm = m}
  BY StateAssumption
<1> QED
  BY <1>1 DEF OnVM

\* Opening a VM, or failing to.
LEMMA CreateImplements ==
  ASSUME StateInv, NEW m \in VM \cup {Null}, Created(m), runs' = runs
  PROVE  Life!Next \/ (life' = life /\ OnVM' = OnVM)
<1>1. OnVM' = OnVM
  BY DEF OnVM
<1>2. CASE m = Null
  BY <1>1, <1>2, StateAssumption DEF Created
<1>3. CASE m \in VM
  <2>1. Life!Create(m)
    BY <1>1, <1>3, StateAssumption DEF Created, Life!Create, OnVM
  <2> QED
    BY <1>3, <2>1 DEF Life!Next
<1> QED
  BY <1>2, <1>3

\* Closing the VM that a variable owns: no script runs on it.
LEMMA DestroyImplements ==
  ASSUME StateInv, pc = "fortran", runs' = runs,
         lua[Here].initialized, lua[Here].L # Null,
         life' = [life EXCEPT ![lua[Here].L] = "closed"]
  PROVE  Life!Next
<1> DEFINE m == lua[Here].L
<1>1. /\ Here \in Level /\ Here = Len(runs) /\ lua[Here] \in Variable
      /\ DOMAIN runs = 1 .. Len(runs) /\ Len(runs) \in Nat
  BY HereFacts DEF Faults
<1>2. m \in VM /\ life[m] = "open"
  BY <1>1 DEF StateInv, VariablesOpen, Variable
<1>3. \A i \in DOMAIN runs : i <= Here
  BY <1>1
<1>4. \A i \in DOMAIN runs : runs[i].vm # m
  BY <1>1, <1>3 DEF StateInv, OwnersApart
<1>5. OnVM[m] = {}
  BY <1>2, <1>4 DEF OnVM
<1>6. OnVM' = OnVM
  BY DEF OnVM
<1>7. Life!Destroy(m)
  BY <1>2, <1>5, <1>6 DEF Life!Destroy, OnVM
<1> QED
  BY <1>2, <1>7 DEF Life!Next

\* A script starts: it is the innermost one.
LEMMA StartImplements ==
  ASSUME StateInv, Start
  PROVE  Life!Next
<1>0. /\ pc = "load" /\ pc \notin Faults /\ life' = life
      /\ lua[Here].L # Null
  BY DEF Start, Faults
<1>1. /\ Here \in Level /\ lua[Here] \in Variable
      /\ runs \in Seq(Running) /\ Len(runs) \in DOMAIN runs
      /\ DOMAIN runs = 1 .. Len(runs) /\ Len(runs) \in Nat
  BY <1>0, HereFacts
<1>2. PICK m \in VM : m = lua[Here].L
  BY <1>0, <1>1 DEF Variable
<1>3. PICK n \in 1 .. MaxCalls + 1 : n = Len(runs)
  <2>1. Len(runs) \in 1 .. MaxCalls + 1
    BY <1>1, StateAssumption DEF StateInv, TypeOK
  <2> QED
    BY <2>1
<1>4. life[m] = "open"
  BY <1>0, <1>1, <1>2 DEF StateInv, VariablesOpen
<1>5. runs[n].vm = Null /\ n \in DOMAIN runs
  BY <1>0, <1>1, <1>3 DEF StateInv, ScriptsHaveVM, Last
<1>6. runs' = [runs EXCEPT ![n].vm = m, ![n].error = FALSE]
  BY <1>2, <1>3 DEF Start, Last
<1>7. /\ DOMAIN runs' = DOMAIN runs
      /\ \A i \in DOMAIN runs : i # n => runs'[i] = runs[i]
  BY <1>1, <1>6
<1>8. runs'[n].vm = m
  <2>1. runs[n] \in Running
    BY <1>1, <1>5, SeqDomain
  <2> QED
    BY <1>5, <1>6, <2>1 DEF Running
<1>9. \A q \in VM : n \notin OnVM[q]
  BY <1>5, StateAssumption DEF OnVM
<1>10. OnVM' = [OnVM EXCEPT ![m] = @ \cup {n}]
  <2>1. \A q \in VM : {i \in DOMAIN runs' : runs'[i].vm = q} =
                        IF q = m THEN OnVM[q] \cup {n} ELSE OnVM[q]
    BY <1>5, <1>7, <1>8, StateAssumption DEF OnVM
  <2> QED
    BY <1>2, <2>1 DEF OnVM
<1>11. Life!Start(m, n)
  BY <1>0, <1>4, <1>9, <1>10 DEF Life!Start, OnVM
<1> QED
  BY <1>11 DEF Life!Next

\* A script ends or fails: it is the innermost one.  Where it could not be
\* loaded, none has started.
LEMMA HandledImplements ==
  ASSUME StateInv, runs # <<>>, pc \notin Faults,
         NEW f \in BOOLEAN, Handled(f), life' = life
  PROVE  Life!Next \/ (life' = life /\ OnVM' = OnVM)
<1>1. /\ runs \in Seq(Running) /\ Len(runs) \in Nat
      /\ DOMAIN runs = 1 .. Len(runs)
      /\ Len(runs) \in DOMAIN runs /\ Len(runs) \in 1 .. MaxCalls + 1
  BY SeqDomain, LastFacts DEF StateInv, TypeOK
<1>2. PICK n \in 1 .. MaxCalls + 1 : n = Len(runs)
  BY <1>1
<1>3. /\ runs \in Seq(Running) /\ n \in Nat /\ DOMAIN runs = 1 .. n
      /\ n \in DOMAIN runs /\ n = Last
  BY <1>1, <1>2 DEF Last
<1>4. /\ DOMAIN runs' = DOMAIN runs
      /\ \A i \in DOMAIN runs : i # n => runs'[i] = runs[i]
      /\ runs'[n].vm = Null
  <2>1. runs[n] \in Running
    BY <1>3, SeqDomain
  <2>2. /\ DOMAIN runs' = DOMAIN runs
        /\ \A i \in DOMAIN runs : i # n => runs'[i] = runs[i]
    BY <1>3 DEF Handled
  <2>3. runs'[n].vm = Null
    BY <1>3, <2>1 DEF Handled, Running
  <2> QED
    BY <2>2, <2>3
<1>5. PICK m \in VM \cup {Null} : m = runs[n].vm
  <2>1. runs[n] \in Running
    BY <1>3, SeqDomain
  <2> QED
    BY <2>1 DEF Running
<1>6. CASE m = Null
  BY <1>4, <1>5, <1>6, SameOnVM
<1>7. CASE m \in VM
  <2>1. n \in OnVM[m]
    BY <1>3, <1>5, <1>7 DEF OnVM
  <2>2. \A q \in VM : \A j \in OnVM[q] : j <= n
    BY <1>3 DEF OnVM
  <2>3. OnVM' = [OnVM EXCEPT ![m] = @ \ {n}]
    <3>1. \A q \in VM : {i \in DOMAIN runs' : runs'[i].vm = q} =
                          IF q = m THEN OnVM[q] \ {n} ELSE OnVM[q]
      BY <1>4, <1>5, <1>7, StateAssumption DEF OnVM
    <3> QED
      BY <1>7, <3>1 DEF OnVM
  <2>4. Life!Finish(m, n)
    BY <2>1, <2>2, <2>3 DEF Life!Finish, OnVM
  <2> QED
    BY <1>7, <2>4 DEF Life!Next
<1> QED
  BY <1>6, <1>7

\* Every step of LuaState is a step of VMLife or changes nothing it sees.
LEMMA NextImplements ==
  StateInv /\ [Next]_vars => Life!Next \/ (life' = life /\ OnVM' = OnVM)
<1> DEFINE Step == Life!Next \/ (life' = life /\ OnVM' = OnVM)
<1> SUFFICES ASSUME StateInv, [Next]_vars PROVE Step
  OBVIOUS
<1>1. CASE Close \/ InitState \/ Attach
  <2>1. /\ pc = "fortran" /\ runs' = runs
        /\ CloseState(Here) \/ AttachState(Here)
    BY <1>1 DEF Close, InitState, Attach
  <2>2. \/ life' = life
        \/ /\ lua[Here].initialized /\ lua[Here].L # Null
           /\ life' = [life EXCEPT ![lua[Here].L] = "closed"]
    BY <2>1 DEF CloseState, AttachState
  <2>3. OnVM' = OnVM
    BY <2>1 DEF OnVM
  <2> QED
    BY <2>1, <2>2, <2>3, DestroyImplements
<1>2. CASE NewOwned \/ OpenForRun
  <2>1. runs' = runs /\ \E m \in VM \cup {Null} : Created(m)
    BY <1>2 DEF NewOwned, OpenForRun
  <2> QED
    BY <2>1, CreateImplements
<1>3. CASE Run
  <2>1. runs \in Seq(Running) /\ life' = life
    BY <1>3 DEF Run, StateInv, TypeOK
  <2> DEFINE x(n, r) == [vm |-> Null, left |-> n, report |-> r,
                         error |-> FALSE, failed |-> FALSE]
  <2>2. PICK n \in 1 .. 2, r \in BOOLEAN : runs' = Append(runs, x(n, r))
    BY <1>3 DEF Run
  <2>3. x(n, r) \in Running /\ x(n, r).vm = Null
    BY DEF Running
  <2> HIDE DEF x
  <2>4. /\ DOMAIN runs' = DOMAIN runs \cup {Len(runs) + 1}
        /\ \A i \in DOMAIN runs : runs'[i] = runs[i]
        /\ runs'[Len(runs) + 1].vm = Null
    BY <2>1, <2>2, <2>3, AppendFacts
  <2> QED
    BY <2>1, <2>4, SameOnVM
<1>4. CASE Start
  BY <1>4, StartImplements
<1>5. CASE LoadFails \/ End \/ Raise
  <2>1. runs # <<>> /\ pc \notin Faults /\ life' = life
    BY <1>5 DEF StateInv, TypeOK, LoadFails, End, Raise, Faults
  <2>2. PICK f \in BOOLEAN : Handled(f)
    BY <1>5 DEF LoadFails, End, Raise
  <2> QED
    BY <2>1, <2>2, HandledImplements
<1>6. CASE Continue
  <2>1. /\ pc = "next" /\ life' = life /\ runs \in Seq(Running) /\ runs # <<>>
        /\ \/ runs' = runs
           \/ runs' = SubSeq(runs, 1, Len(runs) - 1)
    BY <1>6 DEF Continue, Last, StateInv, TypeOK
  <2>2. CASE runs' = runs
    BY <2>1, <2>2 DEF OnVM
  <2>3. CASE runs' = SubSeq(runs, 1, Len(runs) - 1)
    <3>1. /\ DOMAIN runs' = 1 .. Len(runs) - 1
          /\ \A i \in 1 .. Len(runs) - 1 : runs'[i] = runs[i]
      BY <2>1, <2>3, FrontFacts
    <3>2. /\ DOMAIN runs = 1 .. Len(runs) /\ Len(runs) \in Nat
          /\ Len(runs) \in DOMAIN runs
      BY <2>1, SeqDomain, LastFacts
    <3>3. runs[Len(runs)].vm = Null
      BY <2>1, <3>2 DEF StateInv, ScriptsHaveVM, Last
    <3>4. \A i \in DOMAIN runs : i \in DOMAIN runs' \/ i = Len(runs)
      BY <3>1, <3>2
    <3>5. \A i \in DOMAIN runs' : i \in DOMAIN runs
      BY <3>1, <3>2
    <3> QED
      BY <2>1, <3>1, <3>3, <3>4, <3>5, SameOnVM
  <2> QED
    BY <2>1, <2>2, <2>3
<1>7. CASE Call \/ Return \/ CloseNull \/ Over \/ UNCHANGED vars
  BY <1>7 DEF Call, Return, CloseNull, Over, vars, OnVM
<1> QED
  BY <1>1, <1>2, <1>3, <1>4, <1>5, <1>6, <1>7 DEF Next

\* LuaState implements VMLife: a VM is opened once and closed at most once, never
\* while a script runs on it, and the scripts of all VMs end in the opposite of
\* the order in which they started.
THEOREM LifeIsImplemented == Spec => ImplementsLife
<1>1. Init => Life!Init
  BY DEF Init, Life!Init
<1>2. StateInv /\ [Next]_vars => [Life!Next]_(Life!vars)
  BY NextImplements DEF Life!vars, OnVM
<1> QED
  BY <1>1, <1>2, StatesAreSafe, PTL DEF Spec, Life!Spec, ImplementsLife
=============================================================================
