------------------------------- MODULE LuaState -------------------------------
(***************************************************************************)
(* The luaState type of flook.F90: who opens a Lua VM, who closes it, and   *)
(* the scripts that run on it.  A script may call a registered Fortran      *)
(* function, which attaches a luaState of its own to the VM it was called    *)
(* from (lua_init with a pointer) or opens another VM, and may run scripts   *)
(* in turn.                                                                *)
(*                                                                         *)
(* Level 0 is the host program, level d the function that the script of     *)
(* the d-th running lua_run has called.  lua[d] is the luaState variable of  *)
(* level d, a local variable of that function.                             *)
(***************************************************************************)
EXTENDS Integers, Sequences

CONSTANTS
  VM,        \* the VMs there will ever be
  Null,      \* the null C pointer
  MaxCalls   \* how deep scripts and functions are nested

ASSUME StateAssumption ==
  /\ Null \notin VM
  /\ MaxCalls \in Nat

VARIABLES
  life,   \* the life of every VM
  libs,   \* the VMs that have the standard libraries
  lua,    \* the luaState variable of every level
  runs,   \* the calls of lua_run in progress, outermost first
  pc      \* what the innermost level does

vars == <<life, libs, lua, runs, pc>>

Level == 0 .. MaxCalls
Faults == {"no memory", "stopped"}

\* lua%L%state, lua%L%opened_libs and lua%initialized.
Variable == [L : VM \cup {Null}, opened_libs : BOOLEAN, initialized : BOOLEAN]

Default == [L |-> Null, opened_libs |-> FALSE, initialized |-> FALSE]

\* A call of lua_run: the VM while its script runs, how many of its file and
\* code are left, whether the caller asked for the error, the error so far,
\* and whether a script of the call has failed.
Running == [vm : VM \cup {Null}, left : 0 .. 2, report : BOOLEAN,
            error : BOOLEAN, failed : BOOLEAN]

TypeOK ==
  /\ life \in [VM -> {"none", "open", "closed"}]
  /\ libs \in SUBSET VM
  /\ lua \in [Level -> Variable]
  /\ runs \in Seq(Running)
  /\ Len(runs) <= MaxCalls + 1
  /\ pc \in {"fortran", "new", "load", "script", "next"} \cup Faults
  /\ pc \in {"fortran", "new"} => Len(runs) \in Level
  /\ pc \in {"load", "script", "next"} => runs # <<>>

Init ==
  /\ life = [m \in VM |-> "none"]
  /\ libs = {}
  /\ lua = [d \in Level |-> Default]
  /\ runs = <<>>
  /\ pc = "fortran"

----------------------------------------------------------------------------

\* The level of the code that runs, or that waits in lua_run.
Here == IF pc \in {"fortran", "new"} THEN Len(runs) ELSE Len(runs) - 1

\* The variable after flu_close.
Emptied(s) == [s EXCEPT !.L = Null, !.initialized = FALSE]

\* Mutant: a VM that the variable was only attached to is closed as well.
CloseAny(d) ==
  IF lua[d].L # Null
  THEN /\ life' = [life EXCEPT ![lua[d].L] = "closed"]
       /\ lua' = [lua EXCEPT ![d] = Emptied(@)]
  ELSE UNCHANGED <<life, lua>>

\* state_close_: closes the VM that lua_init opened.
CloseState(d) ==
  IF lua[d].initialized
  THEN /\ lua[d].L # Null
       /\ life' = [life EXCEPT ![lua[d].L] = "closed"]
       /\ lua' = [lua EXCEPT ![d] = Emptied(@)]
  ELSE UNCHANGED <<life, lua>>

\* lua_close(lua).
Close ==
  /\ pc = "fortran"
  /\ CloseState(Here)
  /\ UNCHANGED <<libs, runs, pc>>

\* lua_init has marked a variable for which no VM could be opened; closing it
\* hands a null pointer to lua_close of Lua.
CloseNull ==
  /\ pc = "fortran"
  /\ lua[Here].initialized /\ lua[Here].L = Null
  /\ pc' = "no memory"
  /\ UNCHANGED <<life, libs, lua, runs>>

\* lua_init(lua) closes what the variable owns ...
InitState ==
  /\ pc = "fortran"
  /\ CloseState(Here)
  /\ pc' = "new"
  /\ UNCHANGED <<libs, runs>>

\* luaL_newstate: a new VM, or null when there is no memory for one.
Created(m) ==
  \/ m = Null /\ UNCHANGED life
  \/ m \in VM /\ life[m] = "none" /\ life' = [life EXCEPT ![m] = "open"]

\* Mutant: the flag of the libraries survives the VM they were opened in.
NewKeepsFlag(s, m) == [s EXCEPT !.L = m]

\* The assignment of a new flu_State to lua%L.
NewState(s, m) == [s EXCEPT !.L = m, !.opened_libs = FALSE]

\* ... and opens a VM of its own.
NewOwned ==
  /\ pc = "new"
  /\ \E m \in VM \cup {Null} :
       /\ Created(m)
       /\ lua' = [lua EXCEPT ![Here] =
                    [NewState(@, m) EXCEPT !.initialized = TRUE]]
  /\ pc' = "fortran"
  /\ UNCHANGED <<libs, runs>>

\* Mutant: what the variable owned is not closed first.
AttachOnly(d) ==
  /\ lua' = [lua EXCEPT ![d] = NewState(@, runs[d].vm)]
  /\ UNCHANGED life

\* state_init_ptr_ with the pointer that Lua passed to the function.
AttachState(d) ==
  IF lua[d].initialized
  THEN /\ lua[d].L # Null
       /\ life' = [life EXCEPT ![lua[d].L] = "closed"]
       /\ lua' = [lua EXCEPT ![d] = NewState(Emptied(@), runs[d].vm)]
  ELSE /\ lua' = [lua EXCEPT ![d] = NewState(@, runs[d].vm)]
       /\ UNCHANGED life

\* lua_init(lua, ptr).
Attach ==
  /\ pc = "fortran" /\ runs # <<>>
  /\ AttachState(Here)
  /\ UNCHANGED <<libs, runs, pc>>

----------------------------------------------------------------------------
(* lua_run.                                                                *)

Last == Len(runs)

\* lua_run with a file, code or both, and with or without error.
Run ==
  /\ pc = "fortran"
  /\ \E n \in 1 .. 2, r \in BOOLEAN :
       runs' = Append(runs, [vm |-> Null, left |-> n, report |-> r,
                             error |-> FALSE, failed |-> FALSE])
  /\ pc' = "load"
  /\ UNCHANGED <<life, libs, lua>>

\* open_config_file and open_config_chunk open a VM when there is none.
OpenForRun ==
  /\ pc = "load"
  /\ lua[Here].L = Null
  /\ \E m \in VM \cup {Null} :
       /\ Created(m)
       /\ lua' = [lua EXCEPT ![Here] = NewState(@, m)]
       /\ pc' = IF m = Null THEN "no memory" ELSE pc
  /\ UNCHANGED <<libs, runs>>

\* Mutant: a failure never stops the program.
HandledQuietly(failed) ==
  /\ runs' = [runs EXCEPT ![Last].vm = Null, ![Last].left = @ - 1,
                          ![Last].error = failed,
                          ![Last].failed = @ \/ failed]
  /\ pc' = "next"

\* aot_err_handler: a failure stops the program unless the caller asked for
\* the error, which is that of the last call.
Handled(failed) ==
  /\ runs' = [runs EXCEPT ![Last].vm = Null, ![Last].left = @ - 1,
                          ![Last].error = failed,
                          ![Last].failed = @ \/ failed]
  /\ pc' = IF failed /\ ~runs[Last].report THEN "stopped" ELSE "next"

\* The file or the code cannot be loaded ...
LoadFails ==
  /\ pc = "load"
  /\ lua[Here].L # Null
  /\ Handled(TRUE)
  /\ UNCHANGED <<life, libs, lua>>

\* ... or it can: aot_err_handler takes back the error of an earlier script of
\* the call, and the script gets the libraries and is called.
Start ==
  /\ pc = "load"
  /\ lua[Here].L # Null
  /\ runs' = [runs EXCEPT ![Last].vm = lua[Here].L, ![Last].error = FALSE]
  /\ libs' = IF lua[Here].opened_libs THEN libs ELSE libs \cup {lua[Here].L}
  /\ lua' = [lua EXCEPT ![Here].opened_libs = TRUE]
  /\ pc' = "script"
  /\ UNCHANGED life

\* The script ends, or fails.
End ==
  /\ pc = "script"
  /\ \E failed \in BOOLEAN : Handled(failed)
  /\ UNCHANGED <<life, libs, lua>>

\* state_run_ goes on to its code, or returns.
Continue ==
  /\ pc = "next"
  /\ IF runs[Last].left > 0
     THEN pc' = "load" /\ UNCHANGED runs
     ELSE pc' = "fortran" /\ runs' = SubSeq(runs, 1, Last - 1)
  /\ UNCHANGED <<life, libs, lua>>

----------------------------------------------------------------------------
(* Registered functions.                                                   *)

\* The script calls one, whose luaState variable starts in its default state.
Call ==
  /\ pc = "script"
  /\ Last <= MaxCalls
  /\ pc' = "fortran"
  /\ UNCHANGED <<life, libs, lua, runs>>

\* Its variable is gone.
Left == lua' = [lua EXCEPT ![Here] = Default]

\* It returns, and has closed the VM it opened, if any.
Return ==
  /\ pc = "fortran" /\ runs # <<>>
  /\ ~lua[Here].initialized
  /\ Left
  /\ pc' = "script"
  /\ UNCHANGED <<life, libs, runs>>

\* A call of the Lua API fails in it (no memory, a metamethod that fails): Lua
\* jumps over the function to the protected call of lua_run.
Raise ==
  /\ pc = "fortran" /\ runs # <<>>
  /\ lua[Here].L = runs[Last].vm /\ ~lua[Here].initialized
  /\ Left
  /\ Handled(TRUE)
  /\ UNCHANGED <<life, libs>>

\* The program is over.
Over == pc \in Faults /\ UNCHANGED vars

Next ==
  \/ Close \/ CloseNull \/ InitState \/ NewOwned \/ Attach
  \/ Run \/ OpenForRun \/ LoadFails \/ Start \/ End \/ Continue
  \/ Call \/ Return \/ Raise
  \/ Over

Spec == Init /\ [][Next]_vars

----------------------------------------------------------------------------

\* No variable refers to a VM that has been closed, by whatever level: neither
\* the one that opened it nor one that is attached to it.
VariablesOpen ==
  \A d \in Level : lua[d].L # Null => life[lua[d].L] = "open"

\* The VM that a level owns is its own: no level below it refers to it, nor does
\* a script below it run on it.  So no lua_close of one level pulls the VM from
\* under another, and no VM is closed twice.
OwnersApart ==
  \A d \in Level : lua[d].initialized /\ lua[d].L # Null =>
    /\ \A c \in Level : c < d => lua[c].L # lua[d].L
    /\ \A i \in DOMAIN runs : i <= d => runs[i].vm # lua[d].L

\* Every script has the standard libraries, although each luaState keeps a
\* flag of its own and changes its VM.
ScriptsHaveLibs ==
  \A i \in DOMAIN runs : runs[i].vm # Null => runs[i].vm \in libs

\* The flag of a variable is true of the VM it refers to now.
FlagsRight ==
  \A d \in Level : lua[d].opened_libs /\ lua[d].L # Null => lua[d].L \in libs

\* A script that runs, or waits for the function it called, has an open VM;
\* between its scripts a call of lua_run has none.
ScriptsHaveVM ==
  \A i \in DOMAIN runs :
    IF i = Last /\ pc \in {"load", "next"}
    THEN runs[i].vm = Null
    ELSE pc \in Faults \/ (runs[i].vm # Null /\ life[runs[i].vm] = "open")

\* A call of lua_run in progress has a script left: the one it runs.
ScriptsLeft ==
  \A i \in DOMAIN runs :
    runs[i].left > 0 \/ (i = Last /\ pc \in {"next"} \cup Faults)

\* No variable is left of a function that has returned.
NoneLeft == pc \notin Faults => \A d \in Level : d > Here => lua[d] = Default

\* A script that has failed does not go unnoticed: it has stopped the program,
\* or the caller of its lua_run has asked for the error, and is left with it
\* until another script of the same call was loaded; and no error is reported
\* where nothing failed.  This holds for a script that ends, for one that cannot
\* be loaded and for one that a function called by it has aborted.
FailuresNoticed ==
  \A i \in DOMAIN runs :
    /\ runs[i].error => runs[i].failed
    /\ runs[i].failed => runs[i].report \/ (i = Last /\ pc = "stopped")
    /\ (runs[i].failed /\ runs[i].left > 0 /\ runs[i].vm = Null) =>
         runs[i].error

\* The variable of some level has opened m and closes it.
Owned(m) == \E d \in Level : lua[d].initialized /\ lua[d].L = m

OwnersClose == \A m \in VM : Owned(m) => Owned(m)' \/ life'[m] = "closed"

\* What lua_init has opened is closed before its variable takes another VM, is
\* attached to one or is gone: no such VM is ever lost.
OwnedUntilClosed == [][OwnersClose]_vars

\* The invariant behind the properties of the VMs.
StateInv ==
  /\ TypeOK
  /\ VariablesOpen
  /\ OwnersApart
  /\ ScriptsHaveLibs
  /\ FlagsRight
  /\ ScriptsHaveVM
  /\ ScriptsLeft
  /\ NoneLeft

\* LuaState implements the life of a VM: the scripts that run on it are those
\* of the calls of lua_run that have it.
Life == INSTANCE VMLife WITH
  Depth <- 1 .. MaxCalls + 1,
  running <- [m \in VM |-> {i \in DOMAIN runs : runs[i].vm = m}]

ImplementsLife == Life!Spec

\* The promise of lua_close: what has been opened can be closed.  Every open
\* VM belongs to a variable whose lua_close closes it.
OpenIsOwned ==
  \A m \in VM : life[m] = "open" =>
    \E d \in Level : lua[d].initialized /\ lua[d].L = m

\* The promise of lua_run: error is non-zero when its scripts failed.
ErrorReported ==
  (pc = "next" /\ runs[Last].left = 0 /\ runs[Last].failed) =>
    runs[Last].error
=============================================================================
