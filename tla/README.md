# TLA+ model of flook

flook lets a Fortran program run Lua scripts and read and write Lua tables.
Fortran has no Lua objects, so everything goes through the stack of the Lua C
API: flook's table variables (`type(luaTbl)`) hold *stack positions*, which it
calls handles.  A handle is right as long as nothing that sits below it is
popped and nothing else takes its slot, and no compiler or run-time check tells
when that is no longer so.  This project models that discipline, checks it with
TLC and proves its core with TLAPS.

## 1. Inventory

| part | source | state | operations |
|---|---|---|---|
| Lua VM | `aotus/external/lua-5.3.5` (vendored) | tables, API stack of a call frame | settop, getfield, setfield, createtable, ... |
| bindings | `aotus/LuaFortran` | `flu_State`: C pointer, `opened_libs` | one wrapper per C function, `flu_copyptr`, `flu_dump` |
| table helpers | `aotus/source/aot_table_ops_module.f90`, `aot_table_module.f90` | none: handle in, handle out | `aot_table_open/close/push/top`, `aot_exists`, `aot_table_set_top`, getters and setters |
| scripts | `aotus/source/aotus_module.f90`, `aot_err_module.f90` | none | `open_config_file/chunk/buffer`, `close_config`, `aot_err_handler` |
| Lua states | `src/flook.F90`, `type(luaState)` | `L`, `initialized` | `lua_init` (new, or attach to a pointer), `lua_close`, `lua_run`, `lua_register`, `lua_table` |
| table variables | `src/flook.F90`, `type(luaTbl)` | handle `h`, linked list of parents `p`, pointer `lua` | `lua_init`, `lua_open`, `lua_close` (`lvls`, `tree`), `lua_close_tree`, `lua_close_open`, `lua_create`, `len` |
| values | `src/flook.F90` | none | `lua_set`, `lua_get` of scalars, vectors, matrices, by name or direct |
| pointers | `src/flook.F90` | none | `lua_set_ptr`, `lua_get_ptr` |
| script buffers | `aotus/LuaFortran/wrap_lua_dump.c`, `flu_binding.f90` (`cbuf_type`) | the buffer that grows, the copy for Fortran | `buf_writer`, `dump_lua_toBuf`, `flu_dump` into a buffer, `flu_free_cbuf` |
| functions | `aotus/source/aot_fun_module.f90` | handle, argument count | open, put, do, close |
| paths | `aotus/source/aot_path_module.f90` | linked list of nodes, root handle | init, add, open, close, delete, dump |
| output | `aotus/source/aot_out*.f90` | unit, indentation, level, `stack(100)` | open/close a file or a table, write a value |
| vectors | `aotus/source/aot_vector_module.f90`, `aot_top_module.f90` | none | read a table into an array, with defaults and error bits |
| references | `aotus/source/aot_references_module.f90` | Lua registry | take and push a reference |

How they interact.  A `luaTbl` points to a `luaState`, which holds the
`flu_State`; every call of the table API is a sequence of calls on the one API
stack of the frame.  A Lua script may call a registered Fortran function; that
function runs on a frame with its own stack (Lua isolates frames), sees its
arguments at the bottom of it, and makes a `luaState` and table variables of its
own.  Scripts and the program share the tables: between two calls on an open
table a script may replace the very field the table was opened from.

What is hard in it:

* **shared stack, private handles** - two table variables interleave on one
  stack; `aot_table_close` drops *all* that is above a handle;
* **three encodings in one integer** - `-9999999` (closed), `0` (no table there),
  `> 0` (position); every call has to cope with each;
* **dotted names** - recursive opens that may stop half way (`a..b`, `.a`, empty)
  and count the levels into a caller's variable, which a later close counts down;
* **creating lookups** - opening a field that is missing creates it, also when
  the purpose was to read;
* **errors** - a failed script leaves its message on the stack;
* **recursion** - close and open call themselves until a handle or a count ends;
* **memory in two languages** - a compiled script is written piece by piece, in C,
  into a buffer that moves as it grows, and copied for Fortran to free.

There are no threads, no persistence and no messages: interleaving here means
the order of calls that the program, its callbacks and the scripts make.  The
hazards are listed with their lines in `PROJECT.json`.

What makes each part correct: for the table variables, that every handle is a
table on the stack, that parents lie below children, that calls keep off the slots
of other variables, that nothing leaks on the stack, that `lvls` counts what was opened, that array
calls restore what they found, and that a read keeps what the tables hold; for
states, that exactly the VM that `lua_init` opened is closed, once; for
functions, that argument count and stack agree; for script buffers, that no byte
is lost or mixed and no block is leaked or freed twice; for output, that levels
and closes match.

## 2. Modules

```
LuaVM ---------- LuaTbl ---------- MCLuaTbl (TLC)
                   |   \
 TblCursor <-------+    LuaTblProofs --- LuaTblCallProofs
 (refinement)              |                 |
                       SeqLemmas      LuaTblCursorProofs (TLAPS)
                           |
 VMLife <------- LuaState --- LuaStateProofs (TLAPS)
 (refinement)       |
                 MCLuaState (TLC)

FunCalls <----- AotFun --- AotFunProofs --- AotFunCallProofs (TLAPS)
(refinement)       |
                MCAotFun (TLC)

DumpStore <---- LuaDump --- LuaDumpProofs (TLAPS)
(refinement)       |
                MCLuaDump (TLC)
```

`LuaTbl` is one call frame on one VM; `LuaState` is which VMs there are and who
may close them.  They share no state: a table variable uses the VM of its
`luaState` as it finds it, and what a script does to the tables is `LuaTbl!Run`.
`AotFun` is the part of aotus for Lua functions, which flook passes on to its
users; it has a frame of its own, as nothing in flook calls it.  `LuaDump` is the
part of the bindings in C, through which aotus passes a script from one process
to others; its state is the C heap, not the Lua stack.

**LuaVM** has no state.  It holds the data (tables, values, stacks) and the
helpers of aotus as functions of a stack and a heap: `Field`
(`aot_table_push`), `Pushed` and `HandleOf` (`aot_table_top`), `Closed`
(`aot_table_close`), `Stored` (the setters), `Resolve` (`tbl_create__`).

**LuaTbl** is the specification of the table variables of one call frame.

| variable | in the code |
|---|---|
| `stack` | the API stack of the frame |
| `heap` | the fields of every Lua table |
| `levels[t]` | the list `tbl%p` and, last, `tbl%h`; empty iff `tbl%h = LUA_TBL_UNDEFINED` |
| `pc`, `call` | the procedure that runs, its arguments and locals (`lvls`, the loop index `row`) |
| `args` | arguments of a callback not claimed yet |
| `runs` | scripts run, a bound |

`depth` and `height` in `call` are history: how many levels and slots there were
when the opening began.  Properties read them, no step does.

Every recursive activation of `tbl_open_` and `tbl_close_` is one step, because
`lvls`, the list and the stack change at each; the loop over the columns of a
matrix is one step per column, as each opens and closes a table.  A vector is
written in one step: its loop only sets fields of one table.  Calls begin in
`Open`, `Close`, `Reopen`, `SetArray`, `GetArray`, `SetField`, `TopTable`,
`TopOfNothing` and `Run`; all the rest are steps of the running call.

**TblCursor** is what the API promises: each table variable is a cursor into the
Lua tables, cursors share nothing but the tables.  It has no stack, no handles,
no counts.  `LuaTbl!ImplementsCursor` maps a level to the table in the slot of
its handle.

**LuaState** is the specification of `type(luaState)`.  Level 0 is the host
program, level `d` the registered function that the script of the `d`-th `lua_run`
in progress has called; each has one `luaState` variable, a local of that
function, as in `src/test/tst_passreturn.f90`.

| variable | in the code |
|---|---|
| `life[m]` | whether `lua_State` `m` is allocated |
| `libs` | the VMs on which `luaL_openlibs` has run |
| `lua[d]` | `lua%L%state`, `lua%L%opened_libs`, `lua%initialized` of level `d` |
| `runs` | activations of `state_run_`: VM of the running script, files and code left, `error` |
| `pc` | where the innermost level is |

`Close`, `InitState` with `NewOwned`, and `Attach` are `lua_close` and the two
`lua_init`; `Run`, `OpenForRun`, `LoadFails`, `Start`, `End` and `Continue` are
the parts of `lua_run`: a script may call a function at `Start`, so these are
steps of their own.  `Start` also takes back the error of an earlier script: the
load that has succeeded goes through `aot_err_handler` as well.  `Call`, `Return`
and `Raise` are Lua's side of a function.  `failed` in `runs` is history for `ErrorReported`.

**VMLife** is what the users of a VM rely on: opened once, scripts nested,
closed at most once and never under a script.  It knows no variables, flags or
levels.

**AotFun** is the specification of `aot_fun_type`: `fun[f]` has the components of
the type (`id` is the function `f` was opened as), `stack` is the API stack.
`Open` is `aot_fun_open` in all its forms, `Put` the four procedures that push a
value, `PutTop` the one that takes the top, `Do` and `DoAgain` `aot_fun_do`,
`Take` `aot_top_get_val`, `Close` `aot_fun_close`.  `called` is history: function
and arguments of the last call, as Lua got them.  `TopAfterCall` says whether the
program puts, with `aot_fun_put_top`, the only value above a function that it has
called: the one result, or a value pushed when there was none.  The code does not
cope with that.  Where there is more above the function, `aot_fun_put_top` does
nothing after a call, and the function has to be given its first argument by
another put.

**FunCalls** is what a caller relies on: a function, the arguments put since the
last call, a call with exactly these.  It has neither stack nor count.
`AotFun!ImplementsCalls` takes the arguments from the slots above the copy.

**LuaDump** is the specification of `wrap_lua_dump.c` and of the buffers over it.

| variable | in the code |
|---|---|
| `mem` | the C heap: the contents of every block that is allocated |
| `dat` | the `charbuf` of the dump in progress |
| `left` | the pieces `luaU_dump` has yet to pass to `buf_writer` |
| `errcode` | the status of `lua_dump`: 0, 1 (no Lua function), -10 (the writer's) |
| `target`, `cbuf` | the buffer variable dumped into, and all of them |
| `fault` | `"null"`: a null pointer was written or read; `"overflow"`: `length` was |

`Dump` and `Refuse` are `flu_dump` up to its call of `lua_dump`; `WriteInPlace`,
`WriteGrown` and `WriteFails` are one call of `buf_writer` each, by what becomes
of the buffer; `Finish` is the rest of `dump_lua_toBuf` and of `flu_dump_toBuf`;
`FreeCbuf` is `flu_free_cbuf`.  `script` is history: what is being dumped.
`refused` counts the dumps that returned an error, a bound.

**DumpStore** is what the users of a buffer rely on: it holds nothing or one whole
script.  It knows no memory, pieces or errors.

The modules ending in *Proofs* hold the proofs, **SeqLemmas** facts about
sequences; **MCLuaTbl**, **MCLuaState**, **MCAotFun** and **MCLuaDump** the
instances.

### Modelling decisions

* *Names* are sequences of keys and dots; that is all `tbl_open_` looks at.
  `a..b` opens `a` only, a leading dot or an empty name opens nothing, as in the
  code.  Blanks are trimmed by the code and not modelled.
* *Values* are tables, scalars and nil; types and conversions are left out.  The
  array calls of the five types differ in nothing else.
* *Memory*: `createtable` returns a table nothing refers to, garbage being
  reused at once.  If there is none the call stops with fault `"memory"`
  (no protected call is active).  The temporary table of a lookup under handle 0
  is not counted: it is dropped before the lookup ends.
* *Faults*: `"no parent"`, the absent optional of `tbl_create_by_handle_key__`;
  `"closed table"`, the index `-9999999` given to the Lua API; `"underflow"`,
  `lua_table(lua)` on an empty stack, which pops below the frame
  (`TopOfNothing`).  After a fault nothing happens (`Stopped`).
* *Scripts* set at most one field, to any value or a new table, or fail and leave
  a message.  Longer scripts are longer sequences of such runs.
* *The program's part*: it closes a level only when no other variable has a
  handle at it or above it (`OnTop`), and assigns `lua_table(...)` only to a
  variable it has closed ("the user shall assure it is closed", `flook.F90:779`).
  Without the first, handles of other variables dangle: that is how the API is
  meant to be used, and it is the assumption of every handle property here.
* *`lua_table(lua)`* takes what is on top without a check, and so does `TopTable`:
  an argument, the message of a script, or a level of another variable.  In the
  last case both variables hold one slot, which `OnTop` lets neither of them close
  any more: either close takes the other's level.  Properties that would be
  false then say so (`StackAccounted`, `OpensStayApart`).
* *Direct array calls* (without a name) do what the calls with an empty name do.
  `lua_table(lua, name)` on a closed variable does what `lua_open` does.
* A read or write of one value through an open table changes no handle; the
  reads of one value change nothing and have no action.
* *VMs* are not reused once closed; an address that Lua's allocator gives out
  again is a new VM.  `luaL_newstate` may return null.  `lua_run` then goes on to
  call Lua with a null pointer, and `lua_close` of a variable that `lua_init` has
  marked does so too: both stop the model (`"no memory"`).
* *`lua_run` on a variable without a VM* stores the one it opens in `lua%L`,
  although `lua` is `intent(in)`: `open_config_file` declares no intent, and the
  model follows what the compilers do with it.
* *A function's luaState* is its own: functions do not use the variable of
  another level.  A function that has opened a VM closes it before it returns;
  otherwise the last pointer to it is lost, which no code can repair.
* *Errors* in a function jump to the `lua_run` below only from calls on the VM it
  was called from; in a VM of its own there is no protected call and Lua aborts.
* *`report`* stands for "the caller passed `error` or `message`".
* *A Lua function called from Fortran* is its results, or an error; what it does
  to the tables is not modelled.  `STOP` of `aot_err_handler`, taken when the
  caller passed neither `ErrCode` nor `ErrString`, is fault `"stopped"`; a call
  with `nargs = -1` is undefined and is fault `"no function"`.
* *The program* works with the function it has opened last and does not take the
  arguments it has put from the stack.  While a function is open it does not look
  for another one that may be missing: `aot_fun_top` leaves on the stack what it
  found instead, `aot_fun_close` does not remove it, as the handle is 0, and the
  next call of the open function would take an argument for the function.
* *Pieces* of a dump have any size, as `luaU_dump` chooses them; only the first
  is known to fit the new buffer: it is the signature of four bytes.
* *Doubling an int* that is too large is undefined: `space` wraps, and `realloc`
  is asked for the wrapped or for the wider product.  Both are left open.  The sum
  `sz + dat->length` is of type `size_t` and does not overflow.
* *malloc and realloc* may fail whenever they are called, also for no bytes.
* *The program* dumps into a buffer variable that holds nothing and frees it once:
  `flu_free_cbuf` keeps the pointer it has freed.
* Metatables are left out: a script that gives a table metamethods runs code
  inside `getfield`.

## 3. Checks

| run | properties | shows |
|---|---|---|
| `names` | `TypeOK`, `HandlesNested`, `LevelsCounted`, `OpenTableIsSafe`, `ArrayFrame`, `HandlesValid`, `SlotsOwned`, `OpenedLinked`, `ArrayCallRestores`, `ArrayCallKeeps`, `ReadsPreserve`, `CallsEnd`, `CallsReturn` | every form of name (`a`, `a.a`, `a..a`, `.a`, empty) against missing, scalar and table fields, in a callback whose argument is a table, with scripts that fail or rebind the fields of open tables in between: levels are counted and linked, array calls restore what they found, and every call returns, or stops the program |
| `shared` | `HandleInv`, `StackAccounted`, `HandlesStable`, `OpensStayApart`, `ImplementsCursor` | two variables interleaved on one stack, with a script that may fail between the calls: no handle is moved, none but that of `lua_table(lua)` is one that the other variable holds, and the stack holds the levels of both and nothing else but messages |
| `doc_table` | `OpenCreatesGlobal` (violated) | finding 1 |
| `doc_reopen` | `ReopenCountsOpened` (violated) | finding 2 |
| `state` | `StateInv`, `OwnersApart`, `ScriptsHaveLibs`, `FailuresNoticed`, `OwnedUntilClosed`, `ImplementsLife` | every order of opening, attaching, closing, running and failing at three levels, on three VMs: no VM is lost or closed under a script, no failed script goes unnoticed |
| `doc_owned` | `OpenIsOwned` (violated) | finding 3 |
| `doc_error` | `ErrorReported` (violated) | finding 4 |
| `funs` | `FunInv`, `CallReady`, `ImplementsCalls` | two functions opened, called and closed in any order, one within the arguments of the other |
| `doc_repeat` | `ExecutesGiven` (violated) | finding 5 |
| `doc_hand_over` | `HandleHolds` (violated) | finding 6 |
| `dump` | `DumpInv`, `SmallDumpsFit`, `LeaksCounted`, `ImplementsStore` | scripts dumped in pieces of every size into two buffers, with memory that runs out anywhere: no byte is lost or mixed, and what is lost of the heap is counted |
| `doc_memory` | `WriterErrorsReported` (violated) | finding 7 |

Bounds, and why they are enough.  Two tables besides the globals: a name of two
levels, a created table, and the exhaustion of memory all occur.  One string key:
names differ only in how keys and dots alternate.  `Extent` is the size of an
array; 2 in `names`, where the loop matters.  `MaxDepth` bounds the levels of
a variable when a call begins; the call itself may go deeper.  `MaxLvls` (2 in
`names`) is as many levels as a variable has when few are open, and more when one
or none is: counts that use up all levels, some of them, and none.  `MaxRuns`
bounds the scripts.
Two variables suffice for every pairwise property.  They are interchangeable in
all definitions, which is what the symmetry of `shared` says.  `OneHeap` and
`FewNames` keep the run of two variables small; the other names and heaps are
those of `names`.  For the same reason the scripts of `shared` set no field
(`ScriptKeys` is empty): they only fail or do not.  There, fields change under
open handles by the sets of the other variable and by the creating lookups;
scripts that rebind are those of `names`, with one variable.

In `state`, three VMs and `MaxCalls = 2`: a function in a function, with scripts
at three levels, and a VM for each of three owners.  A VM is spent once closed,
so a run reopens at most twice; every other bound of the model is the program's
own (a `lua_run` has at most a file and code).

In `funs`, `MaxStack = 7` holds two open functions with their copies and three
more slots, so that both have arguments, or one has and a result is left above
the other.  `MaxResults = 2`: none, one and more than one result
differ in `aot_fun_put_top`.  Variables, functions and values are
interchangeable, and the runs use that symmetry.

In `dump`, an int is at most 7 and a new buffer has two bytes: a script of one
byte fits, one of three makes the buffer grow by need or by doubling, one of six
makes the doubling overflow, and one of eight is longer than any int.  Four
blocks hold two filled buffers, the buffer in progress and the block it moves to,
or its copy.  `MaxRefused = 2`: a refused dump after another one, and a failed
`realloc` after each, so that losses add up.

Fairness.  `FairSpec` is weakly fair in `Step`: the code is sequential, a call
that has begun goes on in the thread that made it.  Nothing is assumed of the
program: it may never call again.

### Findings

1. *Opening a missing global.*  `lua_table(lua,'main')` is documented to create
   the table.  `tbl_create_by_handle_key__` passes its absent `parent` on to
   `aot_table_set_top`, where `thandle` is not optional, and is dereferenced.
   Below an open table the creation works: `OpenTableIsSafe` holds.
2. *lvls of lua_close_open.*  It is documented to return the levels that were
   opened.  What the close could not use up stays in `lvls` and is added.  With
   one level open and `lvls = 2`, opening one level returns 2.  Where the close
   leaves a level open it has used up `lvls`, and the count is right:
   `LevelsCounted` holds.
3. *A VM that `lua_close` does not close.*  The documented interactive loop calls
   `lua_run` on a `luaState` without `lua_init`, then `lua_close`.  `lua_run`
   opens a VM, but only `lua_init` marks the variable, so `lua_close` does
   nothing, and the VM stays for ever.  A VM that `lua_init` has opened is never
   lost this way: `OwnedUntilClosed` holds.
4. *The error of the file is lost.*  `error` is documented as non-zero for an
   error.  With `file` and `code`, the second call assigns it again, and blanks
   `message`, as soon as the code is loaded: a failed file followed by code that
   can be loaded and runs gives 0.  That is the only way to miss a failure:
   `FailuresNoticed` holds.
5. *Calling twice.*  Execution may be repeated, says the documentation, but the
   copy of the function that a call uses up is pushed again only by the next
   `aot_fun_put`.  A function without arguments cannot be called twice: the second
   call gets -1 for the number of arguments.
6. *The first argument from the top.*  `aot_fun_put_top` of the only value above a
   function that was called is meant to push a copy of the function below that
   value; it only moves the value to where it is.  It does not matter whether the
   value is the result of the call or was pushed after a call without results.
   The next call uses up the function under the handle, whose slot then holds a
   result or nothing.  Where the program does not do that, `FunInv` and
   `ImplementsCalls` hold.
7. *The error of a buffer without memory.*  `ierr` is documented to tell of
   errors of the dump.  When `realloc` fails, `buf_writer` has replaced the only
   pointer to the buffer by null and returns -10, but `dump_lua_toBuf` copies
   `dat.length` bytes from it before it returns: the program stops there.  Where
   memory suffices, `DumpInv` and `ImplementsStore` hold.  The block that `realloc`
   has left allocated is lost, and so is the copy of a dump that was refused;
   nothing else is: `LeaksCounted`.

## 4. Proofs

For any number of tables, variables, names, scalars and any bounds:

* `HandlesAreSafe == Spec => []HandleInv`.  The inductive invariant is
  `HandleInv` itself.  None of its conjuncts is inductive alone: that a close
  keeps `HandlesValid` needs `HandlesNested` (for the parents) and `ClosesOnTop`
  (for other variables); that it keeps `SlotsOwned` needs that the slots from the
  closed handle on belong to nobody else, which is what `ClosesOnTop` says;
  `ClosesOnTop` is kept while an array call opens levels because new handles are
  above all others, which needs `HandlesValid`.  `ArrayCallOK` ties the close at
  the end of an array call to its count.  The lemmas go bottom-up: sequences and
  `SetTop`; outcomes of `Resolve` (`FoundOutcome`, `ResolveOutcome`); what
  pushing a level (`DescendOnTop`) and dropping one (`DropOnTop`) do to the
  handle predicates; then one lemma per group of actions; `NextHandles` joins
  them.
* `TypeCorrect`, `HandlesAreTables`, `HandlesAreNested` and `NoSlotLeaks`: its
  conjuncts, as corollaries.
* `HandlesAreApart == Spec => OpensStayApart`.  An open of a running call appends a
  handle above the top, where by `HandlesValid` no other variable has one
  (`OpenedApart`); every other step of a call leaves the levels as they are or
  drops some (`FewerApart`).
* `HandlesStay == Spec => HandlesStable`: only two kinds of step touch the
  stack below its top: none do; an open appends, a close cuts above the parent.
* `ArrayFrameHolds == Spec => []ArrayFrame` and
  `ArrayCallsRestore == Spec => ArrayCallRestores`: while an array call runs, the
  slots above the height at which it began are exactly the handles of the levels
  it has counted, so that closing `lvls` levels gives back the stack it found.
* `LevelsAreCounted == Spec => []LevelsCounted` and
  `OpenTablesAreSafe == Spec => []OpenTableIsSafe`, both from `OpenFrame`: a
  running `lua_open` has exactly `lvls` levels more than it began with, and no
  call that opens has fewer.  So a call that began with an open table still has
  one whenever it looks up a key, and the absent parent is out of its reach.  For
  a `lua_close_open`, that is the level at which its close has ended, and its count
  is right as well if that is not the root: then the close has used up `lvls`.
* `StackIsAccounted == Spec => []StackAccounted`.  `SlotsOwned` says that a slot
  is a level's or a message, and `HandlesNested` that no two levels of a variable
  share one, nor do, where `HandlesDisjoint` holds, those of two variables. So the
  slots above the arguments are two finite sets, the messages and the slots of the
  levels, and the height of the stack is the sum of their sizes (`PartAndRest`,
  `StackIsSum`); the map from levels to slots is onto, and one-to-one exactly
  where `HandlesDisjoint` holds (`LevelsAreSlots`). There are finitely many
  variables (`TblAssumption`), hence levels (`FiniteTableLevels`). That messages
  are no more than scripts is the inductive part: a script pushes at most one, a
  call pushes tables only (`MessagesGrow`).
* `OpenedStaysLinked == Spec => []OpenedLinked`.  A level that opens is a field of
  the level above, or is made one (`OpenedIsLinked`); it stays one because until
  the call ends no named field that has a value changes (`LinksKept`): a table is
  created only where the field was nil, and an array has no names, which is what
  `Name \cap Pos = {}` says.  The handles themselves stay (`HandlesKept`).
* `ArrayCallsKeep == Spec => ArrayCallKeeps`: with `ArrayFrame`, what an array call
  pops lies above the height at which it began.
* `CallsTerminate == Spec => CallsEnd`.  `StepsLeft` counts keys, rows and levels
  that are still to come; an opening loses a key for each level it gains, which
  costs the close of an array call one step more, hence the factor two
  (`StepsFallTo`).  `CallsReturn` follows by fairness, which is left to TLC.
* `ReadsAreHarmless == Spec => ReadsPreserve`: a lookup that finds nothing changes
  one field, which was nil, and a table that nothing referred to.
* `CursorsAreImplemented == Spec => ImplementsCursor`.  `HandlesKept` carries the
  proof: a step that keeps the levels of a variable keeps its path (`PathKept`),
  one that descends appends the table in the new slot (`PathGrows`), one that
  closes drops the last (`PathShrinks`).  A new table is in no slot of the stack,
  hence in no path, which is what `Unused` asks for (`FreshIsUnused`).  Then each
  step has its counterpart: the opens are `Enter` or `EnterNew`, a column of a
  matrix `StoreRow`, `StoreNewRow` or nothing, beginnings and ends of calls
  stutter.

For any number of VMs and any depth of calls (`StateAssumption`: null is no VM):

* `StatesAreSafe == Spec => []StateInv`.  What matters is `VariablesOpen`: no
  variable, owner or attached, refers to a closed VM.  It is not inductive: that
  a close leaves the variables of other levels alone needs `OwnersApart`, that no
  level *below* the owner refers to its VM or runs a script on it, and
  `NoneLeft`, that there are no variables above it.  `OwnersApart` in turn is
  kept by a newly opened VM only because every VM in use is open
  (`VariablesOpen`, `ScriptsHaveVM`).  `FlagsRight` carries `ScriptsHaveLibs`,
  `ScriptsLeft` the count of `lua_run`.  Three lemmas do the work: a step changes
  one variable that owns nothing afterwards (`VariableKeeps`), a step opens a VM
  (`NewStateKeeps`), or a step opens and closes none (`RunsKeep`).
* `LifeIsImplemented == Spec => ImplementsLife`: opening is `Create`, closing an
  owned VM is `Destroy` (allowed because of `OwnersApart`), `Start` is `Start` of
  the innermost level, the end of a script is `Finish`, everything else is a
  stutter.

* `OwnersAlwaysClose == Spec => OwnedUntilClosed`.  A step that changes an owner's
  variable either closes the VM first, as `lua_close` and both `lua_init` do, or
  changes a variable that owns nothing: `lua_run` opens only where there is no VM,
  and a function's variable is gone only after it has closed (`NextCloses`).
  `lua_init` has two parts, with a call of `luaL_newstate` in between; that its
  variable owns nothing there is an invariant of its own (`NewIsEmpty`).
* `FailuresAreNoticed == Spec => []FailuresNoticed`.  It is inductive once a script
  that failed is known to have at most the code of its own `lua_run` after it
  (`FailureInv`): `error` can then be reset by the last script of the call only,
  at the latest by its `Start`, from which on the property asks for nothing.
  The three ways to fail, at loading, at the end and by a function that is jumped
  over, go through `aot_err_handler` alike (`HandledNotices`).
* `OwnedIsOwnAlone` and `ScriptsFindLibs`: conjuncts of `StateInv`, as corollaries.

For any number of functions, values, results and slots, and a program that does
not put the only value above a called function with `aot_fun_put_top`
(`~TopAfterCall`, without which finding 6 refutes all three):

* `FunctionsAreSafe == Spec => []FunInv`.  None of its parts is inductive alone.
  That a put goes behind the arguments of the function on top needs `CallReady`,
  that the next slot is then the top; that the others are left alone needs
  `FunsApart`; and that a close gives the stack back to the function below needs
  that the function that was closed began exactly behind it, the last conjunct of
  `CallReady`.  `Recounts` is what all puts have in common; the four ways to put
  and the two cases of `aot_fun_put_top`, that counts its argument
  (`PutTopCounts`) or, after a call, none (`PutTopIgnored`), reduce to it.
* `FunctionsAreCallable == Spec => []CallReady`, its corollary.
* `CallsAreImplemented == Spec => ImplementsCalls`.  The invariant is strengthened
  by what a closed variable looks like (`CallInv`), so that it has no arguments
  when it is opened.  A put appends one argument to one function
  (`ArgsOnTop`, `SameArgs`); a call takes them all.

For any scripts, pieces, blocks and any width of int (`DumpAssumption`: a script
is not empty and no longer than a word can count):

* `DumpsAreWhole == Spec => []DumpInv`.  `CbufOK`, that filled buffers are whole
  and apart, is what matters.  It rests on `DatOK`: what was written so far is
  the beginning of the script, and the block is as large as `space` says, or, once
  doubling has overflown, larger than any int; and on `TargetOK`: which states of
  `dat` go with which status.  That a write in place stays inside the block needs
  both cases of `DatOK`.
* `SmallDumpsAreSafe == Spec => []SmallDumpsFit`, from the same invariant: what is
  written and what is left add up to the script.
* `LeaksAreCounted == Spec => []LeaksCounted`.  `Orphans` are the blocks to which
  no pointer is left.  A step either adds none (`NoneLost`) or at most one
  (`OneLost`): the container of a failed `realloc`, which can happen once only, as
  that dump never ends, or the copy of a refused dump, which counts in `refused`.
* `StoreIsImplemented == Spec => ImplementsStore`: only `Finish` without an error
  and `FreeCbuf` change what a variable holds.

The assumptions of the first group are `VMAssumption` and `TblAssumption`: there
are finitely many table variables, the globals are a table, nil and the message are no other value, arrays are not
empty, names are keys separated by dots, and no field name is a row number.

Only model-checked: `CallsReturn`, a liveness property, which is out of the
prover's reach.  Its safe half is proved: `CallsEnd` bounds the steps of every
call, so that fairness, and a next step being possible, are all that is left.

## 5. Order of the work, and what is left out

The modules were written in this order, each with its checks before its proofs:
`LuaVM`, `LuaTbl` and `TblCursor`; `LuaState` and `VMLife`; `AotFun` and
`FunCalls`; `LuaDump` and `DumpStore`.

Not modelled, and why:

* *`lua_create`*: the parent pointer of its result is the address of the user's
  variable.  Closing the result deallocates that variable, although nothing has
  allocated it: undefined behaviour from then on, so that there is no protocol to
  state.  No test or sample calls it.
* *`lua_init(tbl, lua)`*, which closes one level of a variable and attaches it to
  another state: it would need one stack per VM in `LuaTbl`.  `len` changes
  nothing.
* *Pointers* (`lua_set_ptr`, `lua_get_ptr`): their control is that of `lua_set`;
  what could be wrong is in sizes and addresses, data that the tables of `LuaVM`
  do not tell apart.
* *Paths, output, vectors, references* of aotus: flook uses none of them.  Paths
  open and close tables and functions as `LuaTbl` and `AotFun` do; vectors and
  the top are conversions; output is formatting; references are two wrappers of
  the registry.
* *Limits of the Lua stack*: nothing calls `lua_checkstack`, and the stack of the
  model has no capacity.  `StackAccounted` is what a call would have to ask for:
  one slot for each open level, and one for each script that has failed.  How many
  fit is for the program to keep to.
* *The Lua language, metatables and the garbage collector* (the vendored
  interpreter); conversions and formatting (text); the quadruple and extended
  precision variants and `flook_f03.F90` (the same control again); build files,
  tests and samples (read for how the library is called).
