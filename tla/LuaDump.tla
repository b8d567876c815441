-------------------------------- MODULE LuaDump --------------------------------
(***************************************************************************)
(* wrap_lua_dump.c, and flu_dump over it: a compiled Lua function is        *)
(* written piece by piece into a buffer that grows, copied, and handed to   *)
(* Fortran.  The C heap is part of the model: allocations may fail, and     *)
(* blocks stay allocated until they are freed.                             *)
(***************************************************************************)
EXTENDS Integers, Sequences, FiniteSets

CONSTANTS
  Block,       \* addresses of the C heap
  Cbuf,        \* the cbuf_type variables of the program
  Byte,        \* what dumps consist of
  Scripts,     \* the dumps of the Lua functions of the program
  Junk,        \* the contents of memory that was never written
  Free,        \* in place of the contents of an address that is not allocated
  Null,        \* the null pointer
  None,        \* no buffer variable, nothing held
  InitSpace,   \* the space of a new buffer, 1024
  IntMax,      \* the largest int
  MaxAlloc,    \* bound: the largest block the heap can provide
  MaxRefused   \* bound: dumps of values that are no Lua functions

ASSUME DumpAssumption ==
  /\ Null \notin Block /\ None \notin Cbuf
  /\ Scripts \subseteq Seq(Byte) \ {<<>>}
  /\ None \notin Scripts
  /\ Free \notin Seq(Byte \cup {Junk})
  /\ IntMax \in Nat /\ InitSpace \in 1 .. IntMax
  /\ MaxAlloc \in Nat /\ MaxRefused \in Nat
  \* No script takes more than a word can count.
  /\ \A s \in Scripts : Len(s) <= 2 * IntMax + 1

VARIABLES
  mem,       \* the C heap
  dat,       \* the charbuf of the dump in progress
  left,      \* what luaU_dump has yet to pass to the writer
  errcode,   \* the status of lua_dump
  script,    \* history: the script of the last dump
  target,    \* the cbuf that the dump in progress is for
  cbuf,      \* the cbuf_type variables
  refused,   \* how many dumps have returned an error
  fault      \* why the program cannot go on

vars == <<mem, dat, left, errcode, script, target, cbuf, refused, fault>>

Cell == Byte \cup {Junk}

CharBuf ==
  [length : Nat, space : Int, container : Block \cup {Null}]

\* cbuf%ptr, and the size of cbuf%buffer, -1 if it is not associated.
Variable == [ptr : Block \cup {Null}, size : Nat \cup {-1}]

Empty == [ptr |-> Null, size |-> -1]

NoDat == [length |-> 0, space |-> 0, container |-> Null]

TypeOK ==
  /\ mem \in [Block -> Seq(Cell) \cup {Free}]
  /\ dat \in CharBuf
  /\ left \in Seq(Byte)
  /\ errcode \in {0, 1, -10}
  /\ script \in Seq(Byte)
  /\ target \in Cbuf \cup {None}
  /\ cbuf \in [Cbuf -> Variable]
  /\ refused \in Nat
  /\ fault \in {"none", "null", "overflow"}

Init ==
  /\ mem = [b \in Block |-> Free]
  /\ dat = NoDat /\ left = <<>> /\ errcode = 0 /\ script = <<>>
  /\ target = None
  /\ cbuf = [c \in Cbuf |-> Empty]
  /\ refused = 0
  /\ fault = "none"

----------------------------------------------------------------------------
(* The C heap.                                                             *)

Resized(d, n) == [i \in 1 .. n |-> IF i <= Len(d) THEN d[i] ELSE Junk]

\* realloc(p, n): the heap and the pointer it leads to.  It may fail whatever n
\* is, and then leaves the block p as it is; a negative int is a huge size_t.
Realloc(p, n) ==
  {[mem |-> mem, ptr |-> Null]} \cup
  IF n \in 0 .. MaxAlloc
  THEN LET d == IF p = Null THEN <<>> ELSE mem[p]
       IN  {[mem |-> [x \in Block |-> IF x = b THEN Resized(d, n)
                                      ELSE IF x = p THEN Free ELSE mem[x]],
             ptr |-> b] : b \in {x \in Block : x = p \/ mem[x] = Free}}
  ELSE {}

Malloc(n) == Realloc(Null, n)

\* free(p).
Released(m, p) == [x \in Block |-> IF x = p THEN Free ELSE m[x]]

----------------------------------------------------------------------------
(* The growing buffer.                                                     *)

\* The int that a size of up to two words becomes.
Wrap(n) == IF n <= IntMax THEN n ELSE n - 2 * (IntMax + 1)

\* Mutant of Full: off by one.
FullAbove(need) == dat.space >= 0 /\ need > dat.space + 1

\* The buffer is too small.  The comparison is one of size_t, for which a
\* negative space is huge.
Full(need) == dat.space >= 0 /\ need > dat.space

\* Mutant of Grown: the space grows by twice the need.
GrownMore(need) ==
  {[space |-> Wrap(dat.space + 2 * need), size |-> dat.space + 2 * need]}

\* The new value of space and what realloc is asked for.  When the doubled
\* space is no int, its value is undefined: compilers wrap it, or pass it on
\* with more bits than space has.  Either is larger than any need, as a size_t.
Grown(need) ==
  IF 2 * dat.space > IntMax
  THEN {[space |-> Wrap(2 * dat.space), size |-> n]
          : n \in {Wrap(2 * dat.space), 2 * dat.space}}
  ELSE IF 2 * dat.space > need
  THEN {[space |-> 2 * dat.space, size |-> 2 * dat.space]}
  ELSE {[space |-> Wrap(need), size |-> Wrap(need)]}

\* Mutant of Overwrite: the piece is put at the start of the block.
OverwriteStart(d, at, n) ==
  [i \in 1 .. Len(d) |-> IF i <= n THEN left[i] ELSE d[i]]

\* d with the next n bytes after position at.
Overwrite(d, at, n) ==
  [i \in 1 .. Len(d) |-> IF i > at /\ i <= at + n THEN left[i - at] ELSE d[i]]

\* The second half of buf_writer: n bytes are appended to the block p of the
\* heap m.
Add(m, p, space, n) ==
  IF p = Null
  THEN /\ fault' = "null"
       /\ UNCHANGED <<mem, dat, left>>
  ELSE IF dat.length + n > IntMax
  THEN /\ fault' = "overflow"
       /\ UNCHANGED <<mem, dat, left>>
  ELSE /\ mem' = [x \in Block |-> IF x = p THEN Overwrite(m[p], dat.length, n)
                                  ELSE m[x]]
       /\ dat' = [length |-> dat.length + n, space |-> space, container |-> p]
       /\ left' = SubSeq(left, n + 1, Len(left))
       /\ UNCHANGED fault

\* The first piece of a dump is a signature of four bytes, which fit.
Piece ==
  {n \in 1 .. Len(left) : dat.length = 0 => n <= InitSpace}

\* The buffer has room.
WriteInPlace ==
  /\ fault = "none" /\ target # None /\ errcode = 0
  /\ \E n \in Piece :
       /\ ~Full(dat.length + n)
       /\ Add(mem, dat.container, dat.space, n)
  /\ UNCHANGED <<errcode, script, target, cbuf, refused>>

\* The buffer grows.
WriteGrown ==
  /\ fault = "none" /\ target # None /\ errcode = 0
  /\ \E n \in Piece :
       /\ Full(dat.length + n)
       /\ \E g \in Grown(dat.length + n) :
            \E r \in Realloc(dat.container, g.size) :
              /\ r.ptr # Null
              /\ Add(r.mem, r.ptr, g.space, n)
  /\ UNCHANGED <<errcode, script, target, cbuf, refused>>

\* realloc fails: its result replaces the only pointer to the block.
WriteFails ==
  /\ fault = "none" /\ target # None /\ errcode = 0
  /\ \E n \in Piece :
       /\ Full(dat.length + n)
       /\ \E g \in Grown(dat.length + n) :
            dat' = [dat EXCEPT !.space = g.space, !.container = Null]
  /\ errcode' = -10
  /\ UNCHANGED <<mem, left, script, target, cbuf, refused, fault>>

----------------------------------------------------------------------------
(* dump_lua_toBuf and flu_dump.                                            *)

\* flu_dump(L, buf = c) up to lua_dump, for a Lua function with dump s.  The
\* program dumps into a buffer variable that holds nothing.
Start(c, s, err) ==
  /\ fault = "none" /\ target = None
  /\ cbuf[c].size = -1
  /\ \E r \in Malloc(InitSpace) :
       /\ mem' = r.mem
       /\ dat' = [length |-> 0, space |-> InitSpace, container |-> r.ptr]
  /\ left' = s /\ script' = s /\ errcode' = err
  /\ target' = c
  /\ cbuf' = [cbuf EXCEPT ![c] = Empty]
  /\ UNCHANGED <<refused, fault>>

\* The top of the stack is a Lua function.
Dump(c) == \E s \in Scripts : Start(c, s, 0)

\* The top of the stack is something else: lua_dump calls no writer.
Refuse(c) == refused < MaxRefused /\ Start(c, <<>>, 1)

\* lua_dump has returned: the copy for Fortran is made, which flu_dump_toBuf
\* keeps only if there was no error.
Finish ==
  /\ fault = "none" /\ target # None
  /\ left = <<>> \/ errcode # 0
  /\ \E r \in Malloc(dat.length) :
       IF dat.length > 0 /\ (r.ptr = Null \/ dat.container = Null)
       THEN /\ fault' = "null"
            /\ UNCHANGED <<mem, dat, left, errcode, script, target, cbuf, refused>>
       ELSE /\ mem' = Released(
                        [x \in Block |->
                           IF x = r.ptr
                           THEN [i \in 1 .. dat.length |-> mem[dat.container][i]]
                           ELSE r.mem[x]],
                        dat.container)
            /\ cbuf' = IF errcode = 0
                       THEN [cbuf EXCEPT ![target] = [ptr  |-> r.ptr,
                                                      size |-> dat.length]]
                       ELSE cbuf
            /\ refused' = IF errcode = 0 THEN refused ELSE refused + 1
            /\ dat' = NoDat /\ left' = <<>> /\ errcode' = 0 /\ script' = <<>>
            /\ target' = None
            /\ UNCHANGED fault

\* Mutant of FreeCbuf: the buffer is let go of, but not freed.
DropCbuf(c) ==
  /\ fault = "none" /\ target = None
  /\ cbuf[c].size # -1
  /\ cbuf' = [cbuf EXCEPT ![c].size = -1]
  /\ UNCHANGED <<mem, dat, left, errcode, script, target, refused, fault>>

\* flu_free_cbuf.  It keeps the pointer: the program frees a buffer once.
FreeCbuf(c) ==
  /\ fault = "none" /\ target = None
  /\ cbuf[c].size # -1
  /\ mem' = Released(mem, cbuf[c].ptr)
  /\ cbuf' = [cbuf EXCEPT ![c].size = -1]
  /\ UNCHANGED <<dat, left, errcode, script, target, refused, fault>>

\* The program is over.
Over == fault # "none" /\ UNCHANGED vars

Next ==
  \/ \E c \in Cbuf : Dump(c) \/ Refuse(c) \/ FreeCbuf(c)
  \/ WriteInPlace \/ WriteGrown \/ WriteFails \/ Finish
  \/ Over

Spec == Init /\ [][Next]_vars

----------------------------------------------------------------------------

\* The buffer variables that hold something.
Filled == {c \in Cbuf : cbuf[c].size # -1}

\* What has been written of the script is at the start of the block, the rest
\* is still to come, and the block is as large as space says, or larger than
\* any int when space has overflown.
DatOK ==
  /\ dat.space <= IntMax
  /\ dat.container = Null /\ errcode = 0 => dat.length = 0 /\ left = script
  /\ dat.container # Null =>
       /\ mem[dat.container] # Free
       /\ dat.length <= Len(mem[dat.container])
       /\ dat.length + Len(left) = Len(script)
       /\ \A i \in 1 .. dat.length : mem[dat.container][i] = script[i]
       /\ \A i \in 1 .. Len(left) : left[i] = script[dat.length + i]
       /\ IF dat.space >= 0 THEN Len(mem[dat.container]) = dat.space
          ELSE Len(mem[dat.container]) > IntMax

\* Every buffer that is filled has a block of its own, of its size, with a
\* whole script in it.
CbufOK ==
  \A c \in Filled :
    /\ cbuf[c].ptr \in Block /\ cbuf[c].ptr # dat.container
    /\ mem[cbuf[c].ptr] # Free
    /\ Len(mem[cbuf[c].ptr]) = cbuf[c].size
    /\ mem[cbuf[c].ptr] \in Scripts
    /\ \A e \in Filled : cbuf[e].ptr = cbuf[c].ptr => e = c

\* Which dump is in progress.
TargetOK ==
  /\ target = None => dat = NoDat /\ left = <<>> /\ errcode = 0
  /\ target # None => cbuf[target] = Empty
  /\ target # None /\ dat.length = 0 => dat.space = InitSpace
  /\ target # None /\ errcode = 0 => script \in Scripts
  /\ errcode = 1 => dat.length = 0 /\ left = <<>>
  /\ errcode = -10 => dat.length > 0 /\ dat.container = Null

\* The invariant behind the dumps: at every point of a dump, at whatever sizes
\* the pieces come and wherever memory runs out, no buffer loses or mixes bytes.
DumpInv == TypeOK /\ DatOK /\ CbufOK /\ TargetOK

\* A script that takes at most half the range of an int never meets the
\* overflow of buf_writer's doubling.
SmallDumpsFit ==
  2 * Len(script) <= IntMax => fault # "overflow" /\ dat.space >= 0

\* The blocks that are allocated and to which no pointer is left.
Orphans ==
  {b \in Block : /\ mem[b] # Free /\ b # dat.container
                 /\ \A c \in Filled : cbuf[c].ptr # b}

\* What is lost: a refused dump loses one block, its copy, and a realloc that
\* fails one, the buffer it did not free.  Nothing else does, however the blocks
\* move, and wherever else memory runs out.
LeaksCounted ==
  Cardinality(Orphans) <= IF errcode = -10 THEN refused + 1 ELSE refused

\* LuaDump implements DumpStore: what a variable holds is its block.
Store == INSTANCE DumpStore WITH
  held <- [c \in Cbuf |-> IF cbuf[c].size = -1 THEN None
                          ELSE mem[cbuf[c].ptr]]

ImplementsStore == Store!Spec

\* The promise of ierr: an error of the writer reaches the caller of the dump.
WriterErrorsReported == errcode # 0 => fault # "null"
=============================================================================
