---------------------------- MODULE LuaDumpProofs ----------------------------
(***************************************************************************)
(* Proofs about LuaDump, for every number of buffers and blocks, every set  *)
(* of scripts and every size of an int: dumps are whole, small ones never   *)
(* overflow, what is lost is counted, and LuaDump implements DumpStore.     *)
(***************************************************************************)
EXTENDS LuaDump, SeqLemmas, FiniteSetTheorems

----------------------------------------------------------------------------
(* The C heap and the buffer.                                              *)

Heap == [Block -> Seq(Cell) \cup {Free}]

\* A resized block has the new size and keeps what fits.
LEMMA ResizedFacts ==
  ASSUME NEW d \in Seq(Cell), NEW n \in Nat
  PROVE  /\ Resized(d, n) \in Seq(Cell)
         /\ Len(Resized(d, n)) = n
         /\ \A i \in 1 .. n : i <= Len(d) => Resized(d, n)[i] = d[i]
  BY DEF Resized, Cell

\* A piece is put after the bytes there are, and disturbs none of them.
LEMMA OverwriteFacts ==
  ASSUME NEW d \in Seq(Cell), NEW at \in Nat, NEW n \in Nat,
         left \in Seq(Byte), n <= Len(left), at + n <= Len(d)
  PROVE  /\ Overwrite(d, at, n) \in Seq(Cell)
         /\ Len(Overwrite(d, at, n)) = Len(d)
         /\ \A i \in 1 .. at : Overwrite(d, at, n)[i] = d[i]
         /\ \A i \in at + 1 .. at + n : Overwrite(d, at, n)[i] = left[i - at]
<1>1. \A i \in 1 .. Len(d) : i > at /\ i <= at + n =>
        i - at \in 1 .. Len(left) /\ left[i - at] \in Cell
  <2>1. SUFFICES ASSUME NEW i \in 1 .. Len(d), i > at, i <= at + n
                 PROVE  i - at \in 1 .. Len(left) /\ left[i - at] \in Cell
    OBVIOUS
  <2>2. Len(left) \in Nat /\ i \in Int
    OBVIOUS
  <2>3. i - at \in 1 .. Len(left)
    BY <2>1, <2>2
  <2> QED
    BY <2>3 DEF Cell
<1>2. \A i \in 1 .. Len(d) : d[i] \in Cell
  OBVIOUS
<1>3. Len(d) \in Nat
  OBVIOUS
<1>4. Overwrite(d, at, n) \in Seq(Cell) /\ Len(Overwrite(d, at, n)) = Len(d)
  BY <1>1, <1>2, <1>3 DEF Overwrite
<1>5. \A i \in 1 .. at : i \in 1 .. Len(d) /\ ~(i > at)
  BY <1>3
<1>6. \A i \in at + 1 .. at + n : i \in 1 .. Len(d) /\ i > at /\ i <= at + n
  BY <1>3
<1> QED
  BY <1>4, <1>5, <1>6 DEF Overwrite

\* realloc fails and changes nothing, or leads to a block of the size that was
\* asked for: the old one or one that was free, with the old contents.
LEMMA ReallocOutcome ==
  ASSUME mem \in Heap, NEW p \in Block \cup {Null},
         p # Null => mem[p] # Free,
         NEW n \in Int, NEW r \in Realloc(p, n)
  PROVE  \/ r.ptr = Null /\ r.mem = mem
         \/ /\ r.ptr \in Block /\ r.ptr # Null /\ n \in Nat
            /\ r.ptr = p \/ mem[r.ptr] = Free
            /\ r.mem \in Heap
            /\ r.mem[r.ptr] \in Seq(Cell)
            /\ Len(r.mem[r.ptr]) = n
            /\ p # Null => \A i \in 1 .. n :
                 i <= Len(mem[p]) => r.mem[r.ptr][i] = mem[p][i]
            /\ p # Null /\ p # r.ptr => r.mem[p] = Free
            /\ \A x \in Block : x # p /\ x # r.ptr => r.mem[x] = mem[x]
<1> DEFINE d == IF p = Null THEN <<>> ELSE mem[p]
           new(b) == [x \in Block |-> IF x = b THEN Resized(d, n)
                                      ELSE IF x = p THEN Free ELSE mem[x]]
<1>1. CASE r = [mem |-> mem, ptr |-> Null]
  BY <1>1
<1>2. CASE r # [mem |-> mem, ptr |-> Null]
  <2>1. /\ n \in 0 .. MaxAlloc
        /\ \E b \in {x \in Block : x = p \/ mem[x] = Free} :
             r = [mem |-> new(b), ptr |-> b]
    BY <1>2 DEF Realloc
  <2>2. PICK b \in Block : (b = p \/ mem[b] = Free)
                           /\ r = [mem |-> new(b), ptr |-> b]
    BY <2>1
  <2>3. n \in Nat
    BY <2>1, DumpAssumption
  <2>4. d \in Seq(Cell)
    BY DEF Heap
  <2>5. /\ Resized(d, n) \in Seq(Cell) /\ Len(Resized(d, n)) = n
        /\ \A i \in 1 .. n : i <= Len(d) => Resized(d, n)[i] = d[i]
    BY <2>3, <2>4, ResizedFacts
  <2>6. r.ptr = b /\ r.mem = new(b)
    BY <2>2
  <2> HIDE DEF d
  <2>7. new(b) \in Heap /\ new(b)[b] = Resized(d, n)
    BY <2>5 DEF Heap
  <2>8. p # Null /\ p # b => new(b)[p] = Free
    OBVIOUS
  <2>9. \A x \in Block : x # p /\ x # b => new(b)[x] = mem[x]
    OBVIOUS
  <2>10. b # Null
    BY DumpAssumption
  <2>11. p # Null => d = mem[p]
    BY DEF d
  <2> HIDE DEF new
  <2>12. p # Null => \A i \in 1 .. n :
           i <= Len(mem[p]) => new(b)[b][i] = mem[p][i]
    BY <2>5, <2>7, <2>11, Zenon
  <2> QED
    BY <2>2, <2>3, <2>5, <2>6, <2>7, <2>8, <2>9, <2>10, <2>12, Zenon
<1> QED
  BY <1>1, <1>2

----------------------------------------------------------------------------
(* The invariant of a dump.                                                *)

\* What a filled buffer has survives a step that empties others, and keeps its
\* block and the dump in progress away from it.
LEMMA CbufKeeps ==
  ASSUME CbufOK,
         \A e \in Cbuf : cbuf'[e].size # -1 =>
           /\ cbuf'[e] = cbuf[e]
           /\ mem'[cbuf[e].ptr] = mem[cbuf[e].ptr]
           /\ cbuf[e].ptr # dat'.container
  PROVE  CbufOK'
  BY DEF CbufOK, Filled

\* The variables keep the types that the steps of a dump do not touch.
LEMMA RestKeeps ==
  ASSUME TypeOK, TargetOK,
         UNCHANGED <<errcode, script, target, cbuf, refused>>
  PROVE  /\ errcode' \in {0, 1, -10} /\ script' \in Seq(Byte)
         /\ target' \in Cbuf \cup {None} /\ cbuf' \in [Cbuf -> Variable]
         /\ refused' \in Nat
         /\ target' # None => cbuf'[target'] = Empty
  BY DEF TypeOK, TargetOK

\* What is left after a piece is a sequence, one piece shorter.
LEMMA RestOfLeft ==
  ASSUME NEW S, NEW s \in Seq(S), NEW n \in Nat, n <= Len(s)
  PROVE  /\ SubSeq(s, n + 1, Len(s)) \in Seq(S)
         /\ Len(SubSeq(s, n + 1, Len(s))) = Len(s) - n
         /\ \A i \in 1 .. Len(s) - n : SubSeq(s, n + 1, Len(s))[i] = s[i + n]
<1>1. Len(s) \in Nat /\ \A i \in 1 .. Len(s) : s[i] \in S
  OBVIOUS
<1>2. \A i \in n + 1 .. Len(s) : i \in 1 .. Len(s)
  BY <1>1
<1>3. SubSeq(s, n + 1, Len(s)) = [i \in 1 .. Len(s) - n |-> s[i + n]]
  <2>1. SubSeq(s, n + 1, Len(s))
          = [i \in 1 .. (1 + Len(s)) - (n + 1) |-> s[(i + (n + 1)) - 1]]
    OBVIOUS
  <2>2. (1 + Len(s)) - (n + 1) = Len(s) - n
    BY <1>1
  <2>3. \A i \in 1 .. Len(s) - n : (i + (n + 1)) - 1 = i + n
    BY <1>1
  <2> QED
    BY <2>1, <2>2, <2>3
<1>4. Len(s) - n \in Nat
  BY <1>1
<1>5. \A i \in 1 .. Len(s) - n : s[i + n] \in S
  BY <1>1
<1> QED
  BY <1>3, <1>4, <1>5

\* What buf_writer needs to append n bytes to the block p of the heap m, which
\* is as large as the int space says.
Ready(m, p, space, n) ==
  /\ m \in Heap
  /\ space \in Int /\ space <= IntMax
  /\ n \in Nat /\ n > 0 /\ n <= Len(left)
  /\ p \in Block \cup {Null}
  /\ p # Null =>
       /\ m[p] \in Seq(Cell)
       /\ dat.length + n <= IntMax => dat.length + n <= Len(m[p])
       /\ dat.length + Len(left) = Len(script)
       /\ \A i \in 1 .. dat.length : m[p][i] = script[i]
       /\ \A i \in 1 .. Len(left) : left[i] = script[dat.length + i]
       /\ IF space >= 0 THEN Len(m[p]) = space ELSE Len(m[p]) > IntMax
       /\ \A c \in Filled :
            cbuf[c].ptr # p /\ m[cbuf[c].ptr] = mem[cbuf[c].ptr]

\* Appending a piece keeps the invariant, or stops the program.
LEMMA AddKeeps ==
  ASSUME DumpInv, fault = "none", target # None, errcode = 0,
         NEW m, NEW p, NEW space, NEW n,
         Ready(m, p, space, n), Add(m, p, space, n),
         UNCHANGED <<errcode, script, target, cbuf, refused>>
  PROVE  DumpInv'
<1>1. CASE p = Null \/ dat.length + n > IntMax
  <2>1. UNCHANGED <<mem, dat, left>> /\ fault' \in {"null", "overflow"}
    BY <1>1 DEF Add
  <2>2. TypeOK'
    BY <2>1 DEF DumpInv, TypeOK
  <2>3. DatOK' /\ TargetOK'
    BY <2>1 DEF DumpInv, DatOK, TargetOK
  <2>4. CbufOK'
    BY <2>1 DEF DumpInv, CbufOK, Filled
  <2> QED
    BY <2>2, <2>3, <2>4 DEF DumpInv
<1>2. CASE p # Null /\ ~(dat.length + n > IntMax)
  <2> DEFINE o == Overwrite(m[p], dat.length, n)
  <2>1. /\ mem' = [x \in Block |-> IF x = p THEN o ELSE m[x]]
        /\ dat' = [length |-> dat.length + n, space |-> space, container |-> p]
        /\ left' = SubSeq(left, n + 1, Len(left))
        /\ UNCHANGED fault
    BY <1>2 DEF Add
  <2>2. /\ dat.length \in Nat /\ left \in Seq(Byte) /\ Len(left) \in Nat
        /\ n \in Nat /\ n > 0 /\ n <= Len(left) /\ IntMax \in Nat
    BY DumpAssumption DEF DumpInv, TypeOK, CharBuf, Ready
  <2>3. /\ m \in Heap /\ m[p] \in Seq(Cell) /\ dat.length + n <= Len(m[p])
        /\ p \in Block
    BY <1>2, <2>2 DEF Ready
  <2>4. /\ o \in Seq(Cell) /\ Len(o) = Len(m[p])
        /\ \A i \in 1 .. dat.length : o[i] = m[p][i]
        /\ \A i \in dat.length + 1 .. dat.length + n : o[i] = left[i - dat.length]
    <3> DEFINE d == m[p]
               at == dat.length
    <3>1. d \in Seq(Cell) /\ at \in Nat /\ at + n <= Len(d)
      BY <2>2, <2>3
    <3> HIDE DEF d, at
    <3>2. /\ Overwrite(d, at, n) \in Seq(Cell)
          /\ Len(Overwrite(d, at, n)) = Len(d)
          /\ \A i \in 1 .. at : Overwrite(d, at, n)[i] = d[i]
          /\ \A i \in at + 1 .. at + n : Overwrite(d, at, n)[i] = left[i - at]
      BY <2>2, <3>1, OverwriteFacts
    <3> QED
      BY <3>2 DEF d, at
  <2> HIDE DEF o
  <2>5. /\ left' \in Seq(Byte) /\ Len(left') = Len(left) - n
        /\ \A i \in 1 .. Len(left) - n : left'[i] = left[i + n]
    BY <2>1, <2>2, RestOfLeft
  <2>6. /\ mem' \in Heap /\ mem'[p] = o
        /\ \A x \in Block : x # p => mem'[x] = m[x]
    BY <2>1, <2>3, <2>4 DEF Heap
  <2>7. /\ dat'.length = dat.length + n /\ dat'.space = space
        /\ dat'.container = p /\ dat' \in CharBuf
    BY <2>1, <2>2, <2>3 DEF CharBuf, Ready
  <2>8. TypeOK'
    <3>1. fault' \in {"none", "null", "overflow"}
      BY <2>1 DEF DumpInv, TypeOK
    <3> QED
      BY <2>5, <2>6, <2>7, <3>1, RestKeeps DEF DumpInv, TypeOK, Heap
  <2>9. DatOK'
    <3>1. /\ dat.length + Len(left) = Len(script)
          /\ \A i \in 1 .. dat.length : m[p][i] = script[i]
          /\ \A i \in 1 .. Len(left) : left[i] = script[dat.length + i]
          /\ IF space >= 0 THEN Len(m[p]) = space ELSE Len(m[p]) > IntMax
      BY <1>2 DEF Ready
    <3>2. \A i \in 1 .. dat.length + n : o[i] = script[i]
      <4>1. SUFFICES ASSUME NEW i \in 1 .. dat.length + n
                     PROVE  o[i] = script[i]
        OBVIOUS
      <4>2. CASE i <= dat.length
        BY <2>2, <2>4, <3>1, <4>2
      <4>3. CASE i > dat.length
        <5>1. /\ i - dat.length \in 1 .. Len(left)
              /\ dat.length + (i - dat.length) = i
              /\ i \in dat.length + 1 .. dat.length + n
          BY <2>2, <4>3
        <5>2. left[i - dat.length] = script[dat.length + (i - dat.length)]
          BY <3>1, <5>1
        <5> QED
          BY <2>4, <5>1, <5>2
      <4> QED
        BY <2>2, <4>2, <4>3
    <3>3. \A i \in 1 .. Len(left') : left'[i] = script[dat'.length + i]
      <4>1. SUFFICES ASSUME NEW i \in 1 .. Len(left')
                     PROVE  left'[i] = script[dat'.length + i]
        OBVIOUS
      <4>2. i + n \in 1 .. Len(left) /\ i \in 1 .. Len(left) - n
        BY <2>2, <2>5
      <4>3. dat.length + (i + n) = (dat.length + n) + i
        BY <2>2
      <4> QED
        BY <2>5, <2>7, <3>1, <4>2, <4>3
    <3>4. o # Free /\ dat'.length <= Len(o)
          /\ dat'.length + Len(left') = Len(script)
      BY <2>2, <2>3, <2>4, <2>5, <2>7, <3>1, DumpAssumption DEF Cell
    <3>5. dat'.container # Null /\ mem'[dat'.container] = o /\ script' = script
      BY <1>2, <2>6, <2>7
    <3>6. IF dat'.space >= 0 THEN Len(o) = dat'.space ELSE Len(o) > IntMax
      BY <2>4, <2>7, <3>1
    <3>7. dat'.space <= IntMax
      BY <2>7 DEF Ready
    <3>8. \A i \in 1 .. dat'.length : o[i] = script[i]
      BY <2>7, <3>2
    <3> QED
      BY <3>3, <3>4, <3>5, <3>6, <3>7, <3>8 DEF DatOK
  <2>10. CbufOK'
    <3>1. \A c \in Filled : /\ cbuf[c].ptr \in Block /\ cbuf[c].ptr # p
                            /\ m[cbuf[c].ptr] = mem[cbuf[c].ptr]
      BY <1>2 DEF Ready, DumpInv, CbufOK
    <3>2. \A e \in Cbuf : cbuf'[e].size # -1 =>
            /\ cbuf'[e] = cbuf[e]
            /\ mem'[cbuf[e].ptr] = mem[cbuf[e].ptr]
            /\ cbuf[e].ptr # dat'.container
      BY <2>6, <2>7, <3>1 DEF Filled
    <3> QED
      BY <3>2, CbufKeeps DEF DumpInv
  <2>11. TargetOK'
    <3>1. dat'.length # 0 /\ target' # None /\ errcode' = 0
      BY <2>2, <2>7
    <3>2. script \in Scripts /\ cbuf[target] = Empty
      BY DEF DumpInv, TargetOK
    <3>3. script' \in Scripts /\ cbuf'[target'] = Empty
      BY <3>2
    <3> QED
      BY <3>1, <3>3 DEF TargetOK
  <2> QED
    BY <2>8, <2>9, <2>10, <2>11 DEF DumpInv
<1>3. dat.length + n > IntMax \/ ~(dat.length + n > IntMax)
  OBVIOUS
<1> QED
  BY <1>1, <1>2, <1>3

\* A piece has bytes, no more than are left, and fits if it is the first.
LEMMA PieceFacts ==
  ASSUME NEW n \in Piece, left \in Seq(Byte)
  PROVE  /\ n \in Nat /\ n > 0 /\ n <= Len(left)
         /\ dat.length = 0 => n <= InitSpace
  BY DEF Piece

\* The buffer that buf_writer asks for has room for the need, unless that is no
\* int, and for the old buffer; it is of the size that space says, or space has
\* overflown.
LEMMA GrownFacts ==
  ASSUME dat.space \in Nat, dat.space <= IntMax,
         NEW need \in Nat, need > dat.space, need <= 2 * IntMax + 1,
         NEW g \in Grown(need)
  PROVE  /\ g.space \in Int /\ g.space <= IntMax /\ g.size \in Int
         /\ g.size >= 0 =>
              /\ need <= IntMax => need <= g.size
              /\ dat.space <= g.size
              /\ IF g.space >= 0 THEN g.size = g.space ELSE g.size > IntMax
         /\ 2 * need <= IntMax => g.space >= 0
<1>1. IntMax \in Nat
  BY DumpAssumption
<1>2. CASE 2 * dat.space > IntMax
  <2>1. Wrap(2 * dat.space) = 2 * dat.space - 2 * (IntMax + 1)
    BY <1>1, <1>2 DEF Wrap
  <2>2. PICK n \in {Wrap(2 * dat.space), 2 * dat.space} :
          g = [space |-> Wrap(2 * dat.space), size |-> n]
    BY <1>2 DEF Grown
  <2>3. /\ g.space = 2 * dat.space - 2 * (IntMax + 1)
        /\ g.size \in {2 * dat.space - 2 * (IntMax + 1), 2 * dat.space}
    BY <2>1, <2>2
  <2> QED
    BY <1>1, <1>2, <2>3
<1>3. CASE ~(2 * dat.space > IntMax) /\ 2 * dat.space > need
  <2>1. g.space = 2 * dat.space /\ g.size = 2 * dat.space
    BY <1>3 DEF Grown
  <2> QED
    BY <1>1, <1>3, <2>1
<1>4. CASE ~(2 * dat.space > IntMax) /\ ~(2 * dat.space > need)
  <2>1. g.space = Wrap(need) /\ g.size = Wrap(need)
    BY <1>4 DEF Grown
  <2>2. CASE need <= IntMax
    BY <1>1, <1>4, <2>1, <2>2 DEF Wrap
  <2>3. CASE ~(need <= IntMax)
    <3>1. g.space = need - 2 * (IntMax + 1) /\ g.size = g.space
      BY <2>1, <2>3 DEF Wrap
    <3>2. g.space \in Int /\ g.space < 0 /\ ~(2 * need <= IntMax)
      BY <1>1, <2>3, <3>1
    <3> QED
      BY <1>1, <3>1, <3>2
  <2> QED
    BY <2>2, <2>3
<1> QED
  BY <1>2, <1>3, <1>4

\* Nothing of the script is lost before an error, and it fits a word.
LEMMA ScriptCounted ==
  ASSUME DumpInv, target # None, errcode = 0
  PROVE  /\ dat.length \in Nat /\ dat.space \in Int /\ Len(left) \in Nat
         /\ dat.length + Len(left) = Len(script)
         /\ Len(script) <= 2 * IntMax + 1
         /\ dat.length = 0 => dat.space = InitSpace
         /\ dat.container = Null => dat.length = 0
<1>1. /\ dat.length \in Nat /\ dat.space \in Int /\ Len(left) \in Nat
      /\ dat.container \in Block \cup {Null}
  BY DEF DumpInv, TypeOK, CharBuf
<1>2. Len(script) <= 2 * IntMax + 1
  BY DumpAssumption DEF DumpInv, TargetOK
<1>3. dat.length + Len(left) = Len(script)
  BY <1>1 DEF DumpInv, DatOK
<1> QED
  BY <1>1, <1>2, <1>3 DEF DumpInv, DatOK, TargetOK

\* buf_writer, when the buffer has room.
LEMMA WriteInPlaceKeeps ==
  ASSUME DumpInv, WriteInPlace
  PROVE  DumpInv'
<1>1. /\ fault = "none" /\ target # None /\ errcode = 0
      /\ UNCHANGED <<errcode, script, target, cbuf, refused>>
  BY DEF WriteInPlace
<1>2. PICK n \in Piece : /\ ~Full(dat.length + n)
                         /\ Add(mem, dat.container, dat.space, n)
  BY DEF WriteInPlace
<1>3. n \in Nat /\ n > 0 /\ n <= Len(left)
  BY PieceFacts DEF DumpInv, TypeOK
<1>4. Ready(mem, dat.container, dat.space, n)
  <2>1. /\ mem \in Heap /\ dat.space \in Int /\ dat.space <= IntMax
        /\ dat.container \in Block \cup {Null} /\ dat.length \in Nat
    BY DEF DumpInv, TypeOK, Heap, CharBuf, DatOK
  <2>2. ASSUME dat.container # Null
        PROVE  /\ mem[dat.container] \in Seq(Cell)
               /\ dat.length + n <= IntMax =>
                    dat.length + n <= Len(mem[dat.container])
    <3>1. mem[dat.container] \in Seq(Cell)
      BY <2>1, <2>2 DEF Heap, DumpInv, DatOK
    <3>2. Len(mem[dat.container]) \in Nat /\ IntMax \in Nat
      BY <3>1, DumpAssumption
    <3>3. CASE dat.space >= 0
      <4>1. Len(mem[dat.container]) = dat.space
        BY <2>2, <3>3 DEF DumpInv, DatOK
      <4>2. dat.length + n <= dat.space
        BY <1>2, <1>3, <2>1, <3>3 DEF Full
      <4> QED
        BY <3>1, <4>1, <4>2
    <3>4. CASE ~(dat.space >= 0)
      <4>1. Len(mem[dat.container]) > IntMax
        BY <2>2, <3>4 DEF DumpInv, DatOK
      <4> QED
        BY <1>3, <2>1, <3>1, <3>2, <4>1
    <3> QED
      BY <3>3, <3>4
  <2>3. \A c \in Filled : cbuf[c].ptr # dat.container
    BY DEF DumpInv, CbufOK
  <2>4. dat.container # Null =>
          /\ dat.length + Len(left) = Len(script)
          /\ \A i \in 1 .. dat.length : mem[dat.container][i] = script[i]
          /\ \A i \in 1 .. Len(left) : left[i] = script[dat.length + i]
          /\ IF dat.space >= 0 THEN Len(mem[dat.container]) = dat.space
             ELSE Len(mem[dat.container]) > IntMax
    BY DEF DumpInv, DatOK
  <2> QED
    BY <1>3, <2>1, <2>2, <2>3, <2>4 DEF Ready
<1> QED
  BY <1>1, <1>2, <1>4, AddKeeps

\* A buffer that is full has a block: a new one has room for the first piece.
LEMMA FullFacts ==
  ASSUME DumpInv, target # None, errcode = 0,
         NEW n \in Piece, Full(dat.length + n)
  PROVE  /\ n \in Nat /\ n > 0 /\ n <= Len(left)
         /\ dat.space \in Nat /\ dat.space <= IntMax
         /\ dat.length + n > dat.space /\ dat.length + n <= 2 * IntMax + 1
         /\ dat.length > 0 /\ dat.container # Null
<1>1. /\ n \in Nat /\ n > 0 /\ n <= Len(left)
      /\ dat.length = 0 => n <= InitSpace
  BY PieceFacts DEF DumpInv, TypeOK
<1>2. /\ dat.space >= 0 /\ dat.length + n > dat.space /\ dat.space <= IntMax
  BY DEF Full, DumpInv, DatOK
<1>3. dat.length # 0
  BY <1>1, <1>2, ScriptCounted, DumpAssumption
<1>4. dat.length + n <= 2 * IntMax + 1
  <2>1. script \in Seq(Byte)
    BY DEF DumpInv, TypeOK
  <2>2. Len(script) \in Nat
    BY <2>1
  <2> QED
    BY <1>1, <2>2, ScriptCounted, DumpAssumption
<1> QED
  BY <1>1, <1>2, <1>3, <1>4, ScriptCounted

\* buf_writer, when the buffer grows.
LEMMA GrownReady ==
  ASSUME DumpInv, target # None, errcode = 0,
         NEW n \in Piece, Full(dat.length + n),
         NEW g \in Grown(dat.length + n),
         NEW r \in Realloc(dat.container, g.size), r.ptr # Null
  PROVE  Ready(r.mem, r.ptr, g.space, n)
<1> DEFINE p == dat.container
<1>1. /\ n \in Nat /\ n > 0 /\ n <= Len(left)
      /\ dat.space \in Nat /\ dat.space <= IntMax
      /\ dat.length + n > dat.space /\ dat.length + n <= 2 * IntMax + 1
      /\ p # Null
  BY FullFacts
<1>2. dat.length \in Nat /\ dat.length + n \in Nat
  BY <1>1, ScriptCounted
<1>3. /\ g.space \in Int /\ g.space <= IntMax /\ g.size \in Int
      /\ g.size >= 0 =>
           /\ dat.length + n <= IntMax => dat.length + n <= g.size
           /\ dat.space <= g.size
           /\ IF g.space >= 0 THEN g.size = g.space ELSE g.size > IntMax
  BY <1>1, <1>2, GrownFacts
<1>4. mem \in Heap /\ p \in Block \cup {Null} /\ mem[p] # Free
  BY <1>1 DEF DumpInv, TypeOK, Heap, CharBuf, DatOK
<1>5. /\ r.ptr \in Block /\ g.size \in Nat
      /\ r.ptr = p \/ mem[r.ptr] = Free
      /\ r.mem \in Heap
      /\ r.mem[r.ptr] \in Seq(Cell)
      /\ Len(r.mem[r.ptr]) = g.size
      /\ \A i \in 1 .. g.size :
           i <= Len(mem[p]) => r.mem[r.ptr][i] = mem[p][i]
      /\ \A x \in Block : x # p /\ x # r.ptr => r.mem[x] = mem[x]
  BY <1>1, <1>3, <1>4, ReallocOutcome
<1>6. /\ dat.length <= Len(mem[p]) /\ Len(mem[p]) \in Nat
      /\ Len(mem[p]) = dat.space
      /\ dat.length + Len(left) = Len(script)
      /\ \A i \in 1 .. dat.length : mem[p][i] = script[i]
      /\ \A i \in 1 .. Len(left) : left[i] = script[dat.length + i]
  BY <1>1 DEF DumpInv, DatOK
<1>7. dat.length <= g.size
  BY <1>2, <1>3, <1>5, <1>6
<1>8. \A i \in 1 .. dat.length : i \in 1 .. g.size /\ i <= Len(mem[p])
  BY <1>2, <1>5, <1>6, <1>7
<1>9. \A i \in 1 .. dat.length : r.mem[r.ptr][i] = script[i]
  BY <1>5, <1>6, <1>8
<1>10. \A c \in Filled :
         cbuf[c].ptr # r.ptr /\ r.mem[cbuf[c].ptr] = mem[cbuf[c].ptr]
  BY <1>5 DEF DumpInv, CbufOK
<1>11. IF g.space >= 0 THEN Len(r.mem[r.ptr]) = g.space
       ELSE Len(r.mem[r.ptr]) > IntMax
  BY <1>3, <1>5
<1>12. dat.length + n <= IntMax => dat.length + n <= Len(r.mem[r.ptr])
  BY <1>3, <1>5
<1> QED
  BY <1>1, <1>3, <1>5, <1>6, <1>9, <1>10, <1>11, <1>12 DEF Ready

LEMMA WriteGrownKeeps ==
  ASSUME DumpInv, WriteGrown
  PROVE  DumpInv'
<1>1. /\ fault = "none" /\ target # None /\ errcode = 0
      /\ UNCHANGED <<errcode, script, target, cbuf, refused>>
  BY DEF WriteGrown
<1>2. PICK n \in Piece :
        /\ Full(dat.length + n)
        /\ \E g \in Grown(dat.length + n) :
             \E r \in Realloc(dat.container, g.size) :
               r.ptr # Null /\ Add(r.mem, r.ptr, g.space, n)
  BY DEF WriteGrown
<1>3. PICK g \in Grown(dat.length + n) :
        \E r \in Realloc(dat.container, g.size) :
          r.ptr # Null /\ Add(r.mem, r.ptr, g.space, n)
  BY <1>2
<1>4. PICK r \in Realloc(dat.container, g.size) :
        r.ptr # Null /\ Add(r.mem, r.ptr, g.space, n)
  BY <1>3
<1>5. Ready(r.mem, r.ptr, g.space, n)
  BY <1>1, <1>2, <1>4, GrownReady
<1> QED
  BY <1>1, <1>4, <1>5, AddKeeps

\* buf_writer, when realloc fails.
LEMMA WriteFailsKeeps ==
  ASSUME DumpInv, WriteFails
  PROVE  DumpInv'
<1>1. /\ fault = "none" /\ target # None /\ errcode = 0 /\ errcode' = -10
      /\ UNCHANGED <<mem, left, script, target, cbuf, refused, fault>>
  BY DEF WriteFails
<1>2. PICK n \in Piece :
        /\ Full(dat.length + n)
        /\ \E g \in Grown(dat.length + n) :
             dat' = [dat EXCEPT !.space = g.space, !.container = Null]
  BY DEF WriteFails
<1>3. PICK g \in Grown(dat.length + n) :
        dat' = [dat EXCEPT !.space = g.space, !.container = Null]
  BY <1>2
<1>4. /\ n \in Nat /\ dat.space \in Nat /\ dat.space <= IntMax
      /\ dat.length + n > dat.space /\ dat.length + n <= 2 * IntMax + 1
      /\ dat.length > 0
  BY <1>1, <1>2, FullFacts
<1>5. dat.length \in Nat /\ dat.length + n \in Nat
  BY <1>1, <1>4, ScriptCounted
<1>6. g.space \in Int /\ g.space <= IntMax
  BY <1>4, <1>5, GrownFacts
<1>7. /\ dat'.length = dat.length /\ dat'.space = g.space
      /\ dat'.container = Null /\ dat' \in CharBuf
  BY <1>3, <1>6 DEF DumpInv, TypeOK, CharBuf
<1>8. TypeOK'
  BY <1>1, <1>7 DEF DumpInv, TypeOK
<1>9. DatOK'
  BY <1>1, <1>6, <1>7 DEF DatOK
<1>10. CbufOK'
  <2>1. \A e \in Filled : cbuf[e].ptr # dat'.container
    BY <1>7, DumpAssumption DEF DumpInv, CbufOK
  <2> QED
    BY <1>1, <2>1, CbufKeeps DEF DumpInv, Filled
<1>11. TargetOK'
  <2>1. cbuf[target] = Empty
    BY <1>1 DEF DumpInv, TargetOK
  <2>2. /\ target' # None /\ cbuf'[target'] = Empty /\ dat'.length # 0
        /\ dat'.length > 0 /\ dat'.container = Null
    BY <1>1, <1>4, <1>7, <2>1
  <2> QED
    BY <1>1, <2>2 DEF TargetOK
<1> QED
  BY <1>8, <1>9, <1>10, <1>11 DEF DumpInv

\* The start of a dump, up to the first call of buf_writer.
LEMMA StartKeeps ==
  ASSUME DumpInv, NEW c \in Cbuf, NEW s \in Seq(Byte), NEW err \in {0, 1},
         err = 0 => s \in Scripts, err = 1 => s = <<>>, Start(c, s, err)
  PROVE  DumpInv'
<1>1. /\ fault = "none" /\ target = None /\ cbuf[c].size = -1
      /\ left' = s /\ script' = s /\ errcode' = err /\ target' = c
      /\ cbuf' = [cbuf EXCEPT ![c] = Empty]
      /\ UNCHANGED <<refused, fault>>
  BY DEF Start
<1>2. PICK r \in Malloc(InitSpace) :
        /\ mem' = r.mem
        /\ dat' = [length |-> 0, space |-> InitSpace, container |-> r.ptr]
  BY DEF Start
<1>3. InitSpace \in Nat /\ InitSpace > 0 /\ InitSpace <= IntMax
  BY DumpAssumption
<1>4. mem \in Heap
  BY DEF DumpInv, TypeOK, Heap
<1>5. \/ r.ptr = Null /\ r.mem = mem
      \/ /\ r.ptr \in Block /\ r.ptr # Null /\ mem[r.ptr] = Free
         /\ r.mem \in Heap
         /\ r.mem[r.ptr] \in Seq(Cell)
         /\ Len(r.mem[r.ptr]) = InitSpace
         /\ \A x \in Block : x # r.ptr => r.mem[x] = mem[x]
  <2>1. r \in Realloc(Null, InitSpace)
    BY DEF Malloc
  <2>2. Null \in Block \cup {Null} /\ Null \notin Block
    BY DumpAssumption
  <2> QED
    BY <1>3, <1>4, <2>1, <2>2, ReallocOutcome
<1>6. /\ dat'.length = 0 /\ dat'.space = InitSpace /\ dat'.container = r.ptr
      /\ mem' = r.mem /\ mem' \in Heap /\ dat' \in CharBuf
  BY <1>2, <1>3, <1>4, <1>5 DEF CharBuf
<1>7. TypeOK'
  BY <1>1, <1>6 DEF DumpInv, TypeOK, Heap, Empty, Variable
<1>8. DatOK'
  <2>1. Len(s) \in Nat /\ \A i \in 1 .. Len(s) : s[i] = s[0 + i]
    OBVIOUS
  <2>2. CASE r.ptr = Null
    BY <1>1, <1>3, <1>6, <2>2 DEF DatOK
  <2>3. CASE r.ptr # Null
    <3>1. /\ mem'[r.ptr] \in Seq(Cell) /\ Len(mem'[r.ptr]) = InitSpace
      BY <1>5, <1>6, <2>3
    <3>2. mem'[r.ptr] # Free
      BY <3>1, DumpAssumption DEF Cell
    <3>3. /\ dat'.length <= Len(mem'[dat'.container])
          /\ dat'.length + Len(left') = Len(script')
          /\ \A i \in 1 .. Len(left') : left'[i] = script'[dat'.length + i]
          /\ \A i \in 1 .. dat'.length :
               mem'[dat'.container][i] = script'[i]
          /\ dat'.space >= 0 /\ Len(mem'[dat'.container]) = dat'.space
          /\ dat'.space <= IntMax /\ dat'.container # Null
      BY <1>1, <1>3, <1>6, <2>1, <2>3, <3>1
    <3> QED
      BY <1>6, <3>2, <3>3 DEF DatOK
  <2> QED
    BY <2>2, <2>3
<1>9. CbufOK'
  <2>1. \A e \in Filled :
          /\ e # c /\ cbuf[e].ptr # r.ptr
          /\ mem'[cbuf[e].ptr] = mem[cbuf[e].ptr]
    BY <1>1, <1>5, <1>6, DumpAssumption DEF DumpInv, CbufOK, Filled
  <2>2. \A e \in Cbuf : cbuf'[e].size # -1 => e # c /\ cbuf'[e] = cbuf[e]
    BY <1>1 DEF Empty, DumpInv, TypeOK
  <2>3. \A e \in Cbuf : cbuf'[e].size # -1 =>
          /\ cbuf'[e] = cbuf[e]
          /\ mem'[cbuf[e].ptr] = mem[cbuf[e].ptr]
          /\ cbuf[e].ptr # dat'.container
    BY <1>6, <2>1, <2>2 DEF Filled
  <2> QED
    BY <2>3, CbufKeeps DEF DumpInv
<1>10. TargetOK'
  <2>1. target' # None /\ cbuf'[target'] = Empty
    BY <1>1, DumpAssumption DEF DumpInv, TypeOK
  <2>2. /\ dat'.length = 0 /\ dat'.space = InitSpace
        /\ errcode' = 0 => script' \in Scripts
        /\ errcode' = 1 => left' = <<>>
        /\ errcode' # -10
    BY <1>1, <1>6
  <2> QED
    BY <2>1, <2>2 DEF TargetOK
<1> QED
  BY <1>7, <1>8, <1>9, <1>10 DEF DumpInv

LEMMA DumpKeeps ==
  ASSUME DumpInv, NEW c \in Cbuf, Dump(c) \/ Refuse(c)
  PROVE  DumpInv'
<1>1. CASE Dump(c)
  <2>1. PICK s \in Scripts : Start(c, s, 0)
    BY <1>1 DEF Dump
  <2>2. s \in Seq(Byte)
    BY DumpAssumption
  <2> QED
    BY <2>1, <2>2, StartKeeps
<1>2. CASE Refuse(c)
  <2>1. Start(c, <<>>, 1) /\ <<>> \in Seq(Byte)
    BY <1>2 DEF Refuse
  <2>2. 1 \in {0, 1} /\ (1 = 0 => <<>> \in Scripts) /\ (1 = 1 => <<>> = <<>>)
    OBVIOUS
  <2> QED
    BY <2>1, <2>2, StartKeeps, Zenon
<1> QED
  BY <1>1, <1>2

\* The first elements of a sequence that agrees with a script are the script.
LEMMA CopyIsScript ==
  ASSUME NEW d \in Seq(Cell), NEW s \in Seq(Byte),
         Len(s) <= Len(d), \A i \in 1 .. Len(s) : d[i] = s[i]
  PROVE  [i \in 1 .. Len(s) |-> d[i]] = s
<1>1. s = [i \in 1 .. Len(s) |-> s[i]]
  OBVIOUS
<1> QED
  BY <1>1

\* The end of a dump: it stops at a null pointer, drops an empty copy, or hands
\* over a block with the script.  The buffer is freed.
Ended ==
  /\ mem' \in Heap /\ dat' = NoDat /\ left' = <<>> /\ errcode' = 0
  /\ script' = <<>> /\ target' = None /\ UNCHANGED fault
  /\ \A x \in Block : mem[x] # Free /\ x # dat.container => mem'[x] = mem[x]
  /\ dat.container # Null => mem'[dat.container] = Free

Stuck ==
  /\ fault' = "null"
  /\ UNCHANGED <<mem, dat, left, errcode, script, target, cbuf, refused>>

HandedOver(b) ==
  /\ b # Null /\ mem[b] = Free /\ mem'[b] = script /\ script \in Scripts
  /\ cbuf' = [cbuf EXCEPT ![target] = [ptr |-> b, size |-> Len(script)]]
  /\ \A x \in Block : mem[x] = Free /\ x # b => mem'[x] = Free

\* No block is allocated but a.
OnlyTaken(a) == \A x \in Block : mem[x] = Free /\ x # a => mem'[x] = Free

LEMMA FinishOutcome ==
  ASSUME DumpInv, Finish
  PROVE  \/ Stuck
         \/ /\ Ended /\ errcode = 1 /\ cbuf' = cbuf /\ refused' = refused + 1
            /\ \E a : OnlyTaken(a)
         \/ /\ Ended /\ errcode = 0 /\ refused' = refused
            /\ \E b \in Block : HandedOver(b)
<1> DEFINE p == dat.container
           n == dat.length
           copy == [i \in 1 .. n |-> mem[p][i]]
           m(r) == [x \in Block |-> IF x = p THEN Free
                                    ELSE IF x = r.ptr THEN copy ELSE r.mem[x]]
<1>1. /\ target # None /\ (left = <<>> \/ errcode # 0)
      /\ n \in Nat /\ p \in Block \cup {Null} /\ mem \in Heap
      /\ script \in Seq(Byte) /\ errcode \in {0, 1, -10}
  BY DEF Finish, DumpInv, TypeOK, CharBuf, Heap
<1>2. PICK r \in Malloc(n) :
        \/ Stuck
        \/ /\ ~(n > 0 /\ (r.ptr = Null \/ p = Null))
           /\ mem' = m(r)
           /\ cbuf' = IF errcode = 0
                      THEN [cbuf EXCEPT ![target] = [ptr |-> r.ptr, size |-> n]]
                      ELSE cbuf
           /\ refused' = IF errcode = 0 THEN refused ELSE refused + 1
           /\ dat' = NoDat /\ left' = <<>> /\ errcode' = 0 /\ script' = <<>>
           /\ target' = None /\ UNCHANGED fault
  <2>1. \A r : Released([x \in Block |-> IF x = r.ptr THEN copy ELSE r.mem[x]], p)
               = m(r)
    BY DEF Released
  <2>2. PICK r \in Malloc(n) :
       IF n > 0 /\ (r.ptr = Null \/ p = Null)
       THEN /\ fault' = "null"
            /\ UNCHANGED <<mem, dat, left, errcode, script, target, cbuf, refused>>
       ELSE /\ mem' = Released([x \in Block |-> IF x = r.ptr THEN copy
                                                ELSE r.mem[x]], p)
            /\ cbuf' = IF errcode = 0
                       THEN [cbuf EXCEPT ![target] = [ptr  |-> r.ptr, size |-> n]]
                       ELSE cbuf
            /\ refused' = IF errcode = 0 THEN refused ELSE refused + 1
            /\ dat' = NoDat /\ left' = <<>> /\ errcode' = 0 /\ script' = <<>>
            /\ target' = None
            /\ UNCHANGED fault
    BY DEF Finish
  <2> HIDE DEF m, copy
  <2> QED
    BY <2>1, <2>2 DEF Stuck
<1>3. ASSUME ~Stuck
      PROVE  /\ ~(n > 0 /\ (r.ptr = Null \/ p = Null)) /\ mem' = m(r)
             /\ dat' = NoDat /\ left' = <<>> /\ errcode' = 0 /\ script' = <<>>
             /\ target' = None /\ UNCHANGED fault
  BY <1>2, <1>3
<1>4. \/ r.ptr = Null /\ r.mem = mem
      \/ /\ r.ptr \in Block /\ r.ptr # Null /\ mem[r.ptr] = Free
         /\ r.mem \in Heap
         /\ \A x \in Block : x # r.ptr => r.mem[x] = mem[x]
  <2>1. r \in Realloc(Null, n)
    BY DEF Malloc
  <2>2. Null \in Block \cup {Null} /\ Null \notin Block /\ n \in Int
    BY <1>1, DumpAssumption
  <2> QED
    BY <1>1, <2>1, <2>2, ReallocOutcome
<1>5. p # Null => /\ mem[p] \in Seq(Cell) /\ mem[p] # Free /\ n <= Len(mem[p])
                  /\ \A i \in 1 .. n : mem[p][i] = script[i]
                  /\ n + Len(left) = Len(script)
  BY <1>1 DEF DumpInv, DatOK, Heap
<1>6. ASSUME ~Stuck
      PROVE  copy \in Seq(Cell)
  <2>1. CASE n = 0
    BY <2>1
  <2>2. CASE n # 0
    <3>1. p # Null
      BY <1>1, <1>3, <1>6, <2>2
    <3>2. Len(mem[p]) \in Nat
      BY <1>5, <3>1
    <3>3. \A i \in 1 .. n : i \in 1 .. Len(mem[p])
      BY <1>1, <1>5, <3>1, <3>2
    <3>4. \A i \in 1 .. n : mem[p][i] \in Cell
      BY <1>5, <3>1, <3>3
    <3> QED
      BY <1>1, <3>4
  <2> QED
    BY <2>1, <2>2
<1>7. ASSUME ~Stuck
      PROVE  Ended
  <2>1. mem' = m(r) /\ copy \in Seq(Cell)
    BY <1>3, <1>6, <1>7
  <2> HIDE DEF copy
  <2>2. m(r) \in Heap
    BY <1>1, <1>4, <2>1 DEF Heap
  <2>3. \A x \in Block : mem[x] # Free /\ x # p => m(r)[x] = mem[x]
    BY <1>4, DumpAssumption
  <2>4. p # Null => m(r)[p] = Free
    BY <1>1
  <2> HIDE DEF m
  <2> QED
    BY <1>3, <1>7, <2>1, <2>2, <2>3, <2>4 DEF Ended
<1>8. errcode = -10 => Stuck
  <2>1. errcode = -10 => n > 0 /\ p = Null
    BY DEF DumpInv, TargetOK
  <2> QED
    BY <1>3, <2>1
<1>9. ASSUME ~Stuck, errcode = 0
      PROVE  \E b \in Block : HandedOver(b)
  <2>1. /\ left = <<>> /\ script \in Scripts /\ Len(script) > 0
        /\ Len(script) \in Nat
    BY <1>1, <1>9, DumpAssumption DEF DumpInv, TargetOK
  <2>2. n = Len(script)
    BY <1>1, <1>9, <2>1, ScriptCounted
  <2>3. r.ptr # Null /\ p # Null
    BY <1>3, <1>9, <2>1, <2>2
  <2>4. r.ptr \in Block /\ mem[r.ptr] = Free /\ r.ptr # p
    BY <1>4, <1>5, <2>3
  <2>5. copy = script
    <3>1. /\ mem[p] \in Seq(Cell) /\ Len(script) <= Len(mem[p])
          /\ \A i \in 1 .. Len(script) : mem[p][i] = script[i]
      BY <1>5, <2>2, <2>3
    <3> QED
      BY <1>1, <2>2, <3>1, CopyIsScript
  <2>6. mem'[r.ptr] = script
    BY <1>3, <1>9, <2>4, <2>5
  <2>7. \A x \in Block : mem[x] = Free /\ x # r.ptr => mem'[x] = Free
    BY <1>3, <1>4, <1>9, <2>3
  <2>8. cbuf' = [cbuf EXCEPT ![target] = [ptr |-> r.ptr, size |-> Len(script)]]
    BY <1>2, <1>9, <2>2
  <2> QED
    BY <2>1, <2>3, <2>4, <2>6, <2>7, <2>8 DEF HandedOver
<1>10. ASSUME ~Stuck
       PROVE  /\ errcode = 0 => refused' = refused
              /\ errcode # 0 => cbuf' = cbuf /\ refused' = refused + 1
  BY <1>2, <1>10
<1>11. ASSUME ~Stuck
       PROVE  OnlyTaken(r.ptr)
  <2>1. mem' = m(r)
    BY <1>3, <1>11
  <2> QED
    BY <1>4, <2>1 DEF OnlyTaken
<1> QED
  BY <1>1, <1>7, <1>8, <1>9, <1>10, <1>11

\* A step that changes nothing but fault keeps the invariant.
LEMMA FaultKeeps ==
  ASSUME DumpInv, fault' \in {"none", "null", "overflow"},
         UNCHANGED <<mem, dat, left, errcode, script, target, cbuf, refused>>
  PROVE  DumpInv'
<1>1. TypeOK'
  BY DEF DumpInv, TypeOK
<1>2. DatOK' /\ TargetOK'
  BY DEF DumpInv, DatOK, TargetOK
<1>3. CbufOK'
  BY DEF DumpInv, CbufOK, Filled
<1> QED
  BY <1>1, <1>2, <1>3 DEF DumpInv

LEMMA FinishKeeps ==
  ASSUME DumpInv, Finish
  PROVE  DumpInv'
<1>1. CASE Stuck
  BY <1>1, FaultKeeps DEF Stuck
<1>2. CASE Ended /\ errcode = 1 /\ cbuf' = cbuf /\ refused' = refused + 1
  <2>1. TypeOK'
    <3>1. refused' \in Nat
      BY <1>2 DEF DumpInv, TypeOK
    <3> QED
      BY <1>2, <3>1, DumpAssumption
        DEF Ended, DumpInv, TypeOK, NoDat, CharBuf, Heap
  <2>2. DatOK' /\ TargetOK'
    BY <1>2, DumpAssumption DEF Ended, DatOK, TargetOK, NoDat
  <2>3. CbufOK'
    <3>1. \A e \in Filled : /\ mem'[cbuf[e].ptr] = mem[cbuf[e].ptr]
                            /\ cbuf[e].ptr # dat'.container
      BY <1>2, DumpAssumption DEF Ended, DumpInv, CbufOK, NoDat
    <3> QED
      BY <1>2, <3>1, CbufKeeps DEF DumpInv, Filled
  <2> QED
    BY <2>1, <2>2, <2>3 DEF DumpInv
<1>3. CASE /\ Ended /\ errcode = 0 /\ refused' = refused
           /\ \E b \in Block : HandedOver(b)
  <2>1. PICK b \in Block : HandedOver(b)
    BY <1>3
  <2>2. /\ target \in Cbuf /\ cbuf[target] = Empty /\ cbuf \in [Cbuf -> Variable]
        /\ script \in Seq(Byte) /\ Len(script) \in Nat
    BY <1>3 DEF Finish, DumpInv, TypeOK, TargetOK
  <2>3. /\ cbuf' \in [Cbuf -> Variable]
        /\ cbuf'[target].ptr = b /\ cbuf'[target].size = Len(script)
        /\ \A e \in Cbuf : e # target => cbuf'[e] = cbuf[e]
    BY <2>1, <2>2 DEF HandedOver, Variable
  <2>4. TypeOK'
    BY <1>3, <2>3, DumpAssumption
      DEF Ended, DumpInv, TypeOK, NoDat, CharBuf, Heap
  <2>5. DatOK' /\ TargetOK'
    BY <1>3, DumpAssumption DEF Ended, DatOK, TargetOK, NoDat
  <2>6. \A e \in Filled : /\ cbuf[e].ptr \in Block /\ cbuf[e].ptr # b
                          /\ cbuf[e].ptr # Null
                          /\ mem'[cbuf[e].ptr] = mem[cbuf[e].ptr]
    BY <1>3, <2>1, DumpAssumption DEF Ended, DumpInv, CbufOK, HandedOver
  <2>7. \A e \in Filled' : e # target => e \in Filled
    BY <2>3 DEF Filled
  <2>8. b # Null /\ mem'[b] = script /\ script \in Scripts /\ script # Free
    BY <2>1, DumpAssumption, <2>2 DEF HandedOver, Cell
  <2>9. dat'.container = Null
    BY <1>3 DEF Ended, NoDat
  <2>10. CbufOK'
    <3>1. SUFFICES ASSUME NEW e \in Filled'
                   PROVE  /\ cbuf'[e].ptr \in Block /\ cbuf'[e].ptr # dat'.container
                          /\ mem'[cbuf'[e].ptr] # Free
                          /\ Len(mem'[cbuf'[e].ptr]) = cbuf'[e].size
                          /\ mem'[cbuf'[e].ptr] \in Scripts
                          /\ \A f \in Filled' : cbuf'[f].ptr = cbuf'[e].ptr => f = e
      BY DEF CbufOK
    <3>2. e \in Cbuf /\ \A f \in Filled' : f \in Cbuf
      BY DEF Filled
    <3>3. CASE e = target
      <4>1. \A f \in Filled' : cbuf'[f].ptr = b => f = target
        BY <2>3, <2>6, <2>7, <3>2
      <4> QED
        BY <2>3, <2>8, <2>9, <3>3, <4>1
    <3>4. CASE e # target
      <4>1. e \in Filled /\ cbuf'[e] = cbuf[e]
        BY <2>3, <2>7, <3>2, <3>4
      <4>2. /\ mem[cbuf[e].ptr] # Free
            /\ Len(mem[cbuf[e].ptr]) = cbuf[e].size
            /\ mem[cbuf[e].ptr] \in Scripts
            /\ \A f \in Filled : cbuf[f].ptr = cbuf[e].ptr => f = e
        BY <4>1 DEF DumpInv, CbufOK
      <4>3. \A f \in Filled' : cbuf'[f].ptr = cbuf[e].ptr => f = e
        BY <2>3, <2>6, <2>7, <3>2, <4>1, <4>2
      <4> QED
        BY <2>6, <2>9, <4>1, <4>2, <4>3
    <3> QED
      BY <3>3, <3>4
  <2> QED
    BY <2>4, <2>5, <2>10 DEF DumpInv
<1> QED
  BY <1>1, <1>2, <1>3, FinishOutcome

LEMMA FreeCbufKeeps ==
  ASSUME DumpInv, NEW c \in Cbuf, FreeCbuf(c)
  PROVE  DumpInv'
<1>1. /\ c \in Filled /\ target = None
      /\ mem' = [x \in Block |-> IF x = cbuf[c].ptr THEN Free ELSE mem[x]]
      /\ cbuf' = [cbuf EXCEPT ![c].size = -1]
      /\ UNCHANGED <<dat, left, errcode, script, target, refused, fault>>
  BY DEF FreeCbuf, Released, Filled
<1>2. dat = NoDat
  BY <1>1 DEF DumpInv, TargetOK
<1>3. TypeOK'
  BY <1>1 DEF DumpInv, TypeOK, Variable
<1>4. DatOK' /\ TargetOK'
  BY <1>1, <1>2, DumpAssumption DEF DatOK, TargetOK, NoDat, DumpInv
<1>5. CbufOK'
  <2>1. \A e \in Cbuf : cbuf'[e].size # -1 => e # c /\ cbuf'[e] = cbuf[e]
    BY <1>1 DEF DumpInv, TypeOK, Variable
  <2>2. \A e \in Filled : e # c =>
          /\ mem'[cbuf[e].ptr] = mem[cbuf[e].ptr]
          /\ cbuf[e].ptr # dat'.container
    BY <1>1 DEF DumpInv, CbufOK
  <2>3. \A e \in Cbuf : cbuf'[e].size # -1 =>
          /\ cbuf'[e] = cbuf[e]
          /\ mem'[cbuf[e].ptr] = mem[cbuf[e].ptr]
          /\ cbuf[e].ptr # dat'.container
    BY <2>1, <2>2 DEF Filled
  <2> QED
    BY <2>3, CbufKeeps DEF DumpInv
<1> QED
  BY <1>3, <1>4, <1>5 DEF DumpInv

LEMMA NextKeeps ==
  ASSUME DumpInv, [Next]_vars
  PROVE  DumpInv'
<1>1. ASSUME NEW c \in Cbuf, Dump(c) \/ Refuse(c) \/ FreeCbuf(c)
      PROVE  DumpInv'
  BY <1>1, DumpKeeps, FreeCbufKeeps
<1>2. ASSUME WriteInPlace \/ WriteGrown \/ WriteFails \/ Finish
      PROVE  DumpInv'
  BY <1>2, WriteInPlaceKeeps, WriteGrownKeeps, WriteFailsKeeps, FinishKeeps
<1>3. ASSUME Over \/ UNCHANGED vars
      PROVE  DumpInv'
  <2>1. /\ UNCHANGED <<mem, dat, left, errcode, script, target, cbuf, refused>>
        /\ fault' = fault
    BY <1>3 DEF Over, vars
  <2> QED
    BY <2>1, FaultKeeps DEF DumpInv, TypeOK
<1> QED
  BY <1>1, <1>2, <1>3 DEF Next

LEMMA InitOK ==
  ASSUME Init
  PROVE  DumpInv
  BY DumpAssumption DEF Init, DumpInv, TypeOK, DatOK, CbufOK, TargetOK, Filled,
       NoDat, Empty, CharBuf, Variable

\* At every point of every dump, whatever the pieces are and wherever memory
\* runs out, a filled buffer is one whole script in a block of its own, and the
\* buffer in progress holds what has been written of the script.
THEOREM DumpsAreWhole == Spec => []DumpInv
  BY InitOK, NextKeeps, PTL DEF Spec

----------------------------------------------------------------------------
(* No overflow.                                                            *)

\* What a piece does to space and fault, for a small script.
LEMMA AddFits ==
  ASSUME DumpInv, SmallDumpsFit, target # None, errcode = 0,
         2 * Len(script) <= IntMax,
         NEW m, NEW p, NEW space \in Int, space >= 0, NEW n \in Piece,
         Add(m, p, space, n)
  PROVE  fault' # "overflow" /\ dat'.space >= 0
<1>1. n \in Nat /\ n <= Len(left) /\ Len(left) \in Nat
  BY PieceFacts DEF DumpInv, TypeOK
<1>2. dat.length + n <= Len(script) /\ dat.length \in Nat
  BY <1>1, ScriptCounted
<1>3. script \in Seq(Byte)
  BY DEF DumpInv, TypeOK
<1>4. Len(script) \in Nat /\ IntMax \in Nat
  BY <1>3, DumpAssumption
<1>5. ~(dat.length + n > IntMax)
  BY <1>1, <1>2, <1>4
<1>6. fault # "overflow" /\ dat.space >= 0
  BY DEF SmallDumpsFit
<1> QED
  BY <1>5, <1>6 DEF Add

LEMMA FitsStep ==
  ASSUME DumpInv, SmallDumpsFit, [Next]_vars
  PROVE  SmallDumpsFit'
<1>1. ASSUME NEW c \in Cbuf, NEW s, NEW err, Start(c, s, err)
      PROVE  SmallDumpsFit'
  <2>1. fault' # "overflow" /\ dat'.space = InitSpace
    BY <1>1 DEF Start
  <2> QED
    BY <2>1, DumpAssumption DEF SmallDumpsFit
<1>2. CASE WriteInPlace
  <2>1. PICK n \in Piece : Add(mem, dat.container, dat.space, n)
    BY <1>2 DEF WriteInPlace
  <2>2. target # None /\ errcode = 0 /\ script' = script
    BY <1>2 DEF WriteInPlace
  <2>3. 2 * Len(script) <= IntMax => dat.space \in Int /\ dat.space >= 0
    BY <2>2, ScriptCounted DEF SmallDumpsFit
  <2> QED
    BY <2>1, <2>2, <2>3, AddFits DEF SmallDumpsFit
<1>3. ASSUME 2 * Len(script) <= IntMax, target # None, errcode = 0,
             NEW n \in Piece, Full(dat.length + n),
             NEW g \in Grown(dat.length + n)
      PROVE  g.space \in Int /\ g.space >= 0
  <2>1. /\ n \in Nat /\ n <= Len(left) /\ dat.space \in Nat
        /\ dat.space <= IntMax /\ dat.length + n > dat.space
        /\ dat.length + n <= 2 * IntMax + 1
    BY <1>3, FullFacts
  <2>2. /\ dat.length \in Nat /\ Len(left) \in Nat
        /\ dat.length + Len(left) = Len(script)
    BY <1>3, ScriptCounted
  <2>3. dat.length + n \in Nat /\ 2 * (dat.length + n) <= IntMax
    <3> DEFINE h == dat.length
               l == Len(left)
               k == Len(script)
    <3>1. /\ h \in Nat /\ l \in Nat /\ k \in Nat /\ n \in Nat /\ n <= l
          /\ h + l = k /\ 2 * k <= IntMax /\ IntMax \in Nat
      BY <1>3, <2>1, <2>2, DumpAssumption
    <3> HIDE DEF h, l, k
    <3>2. h + n \in Nat /\ 2 * (h + n) <= IntMax
      BY <3>1
    <3> QED
      BY <3>2 DEF h, l, k
  <2> QED
    BY <1>3, <2>1, <2>3, GrownFacts
<1>4. CASE WriteGrown
  <2>1. target # None /\ errcode = 0 /\ script' = script
    BY <1>4 DEF WriteGrown
  <2>2. PICK n \in Piece :
          /\ Full(dat.length + n)
          /\ \E g \in Grown(dat.length + n) :
               \E r \in Realloc(dat.container, g.size) :
                 Add(r.mem, r.ptr, g.space, n)
    BY <1>4 DEF WriteGrown
  <2>3. PICK g \in Grown(dat.length + n) :
          \E r \in Realloc(dat.container, g.size) :
            Add(r.mem, r.ptr, g.space, n)
    BY <2>2
  <2>4. PICK r \in Realloc(dat.container, g.size) :
          Add(r.mem, r.ptr, g.space, n)
    BY <2>3
  <2>5. ASSUME 2 * Len(script) <= IntMax
        PROVE  fault' # "overflow" /\ dat'.space >= 0
    <3>1. g.space \in Int /\ g.space >= 0
      BY <1>3, <2>1, <2>2, <2>5
    <3> QED
      BY <2>1, <2>4, <2>5, <3>1, AddFits
  <2> QED
    BY <2>1, <2>5 DEF SmallDumpsFit
<1>5. CASE WriteFails
  <2>1. target # None /\ errcode = 0 /\ script' = script /\ fault' = fault
    BY <1>5 DEF WriteFails
  <2>2. PICK n \in Piece :
          /\ Full(dat.length + n)
          /\ \E g \in Grown(dat.length + n) :
               dat' = [dat EXCEPT !.space = g.space, !.container = Null]
    BY <1>5 DEF WriteFails
  <2>3. PICK g \in Grown(dat.length + n) :
          dat' = [dat EXCEPT !.space = g.space, !.container = Null]
    BY <2>2
  <2>4. dat'.space = g.space
    BY <2>3 DEF DumpInv, TypeOK, CharBuf
  <2>5. 2 * Len(script) <= IntMax => g.space >= 0
    BY <1>3, <2>1, <2>2
  <2> QED
    BY <2>1, <2>4, <2>5 DEF SmallDumpsFit
<1>6. CASE Finish
  <2>1. CASE Stuck
    BY <2>1 DEF Stuck, SmallDumpsFit
  <2>2. CASE Ended
    <3>1. fault' # "overflow" /\ dat'.space = 0
      BY <1>6, <2>2 DEF Finish, Ended, NoDat
    <3> QED
      BY <3>1 DEF SmallDumpsFit
  <2> QED
    BY <1>6, <2>1, <2>2, FinishOutcome
<1>7. ASSUME UNCHANGED <<dat, script, fault>>
      PROVE  SmallDumpsFit'
  BY <1>7 DEF SmallDumpsFit
<1> QED
  BY <1>1, <1>2, <1>4, <1>5, <1>6, <1>7
    DEF Next, Dump, Refuse, FreeCbuf, Over, vars

\* buf_writer's doubling overflows for no script that takes at most half the
\* range of an int.
THEOREM SmallDumpsAreSafe == Spec => []SmallDumpsFit
<1>1. Init => SmallDumpsFit
  BY DEF Init, SmallDumpsFit, NoDat
<1>2. DumpInv /\ SmallDumpsFit /\ [Next]_vars => SmallDumpsFit'
  BY FitsStep
<1> QED
  BY <1>1, <1>2, DumpsAreWhole, PTL DEF Spec

----------------------------------------------------------------------------
(* What is lost.                                                           *)

LeakInv == IsFiniteSet(Orphans) /\ LeaksCounted

\* A block is an orphan only if it is allocated, is not the buffer in progress,
\* and is no variable's.
LEMMA OrphanFacts ==
  ASSUME NEW b \in Orphans
  PROVE  b \in Block /\ mem[b] # Free /\ b # dat.container
         /\ \A c \in Filled : cbuf[c].ptr # b
  BY DEF Orphans

\* A step after which no block is newly lost.
LEMMA NoneLost ==
  ASSUME LeakInv, Orphans' \subseteq Orphans, refused' = refused, refused \in Nat,
         errcode # -10 \/ errcode' = -10
  PROVE  LeakInv'
<1>1. IsFiniteSet(Orphans') /\ Cardinality(Orphans') <= Cardinality(Orphans)
  BY FS_Subset DEF LeakInv
<1>2. Cardinality(Orphans) \in Nat /\ Cardinality(Orphans') \in Nat
  BY <1>1, FS_CardinalityType DEF LeakInv
<1> QED
  BY <1>1, <1>2 DEF LeakInv, LeaksCounted

\* A step after which one more block may be lost.
LEMMA OneLost ==
  ASSUME LeakInv, NEW x, Orphans' \subseteq Orphans \cup {x}
  PROVE  /\ IsFiniteSet(Orphans')
         /\ Cardinality(Orphans') \in Nat /\ Cardinality(Orphans) \in Nat
         /\ Cardinality(Orphans') <= Cardinality(Orphans) + 1
<1>1. /\ IsFiniteSet(Orphans \cup {x})
      /\ Cardinality(Orphans \cup {x}) = IF x \in Orphans
                                         THEN Cardinality(Orphans)
                                         ELSE Cardinality(Orphans) + 1
  BY FS_AddElement DEF LeakInv
<1>2. /\ IsFiniteSet(Orphans')
      /\ Cardinality(Orphans') <= Cardinality(Orphans \cup {x})
  BY <1>1, FS_Subset
<1>3. Cardinality(Orphans) \in Nat /\ Cardinality(Orphans') \in Nat
  BY <1>2, FS_CardinalityType DEF LeakInv
<1> QED
  BY <1>1, <1>2, <1>3

LEMMA LeakStart ==
  ASSUME DumpInv, LeakInv, NEW c \in Cbuf, NEW s, NEW err \in {0, 1},
         Start(c, s, err)
  PROVE  LeakInv'
<1>1. /\ target = None /\ cbuf[c].size = -1
      /\ errcode' = err /\ cbuf' = [cbuf EXCEPT ![c] = Empty]
      /\ UNCHANGED refused
  BY DEF Start
<1>2. PICK r \in Malloc(InitSpace) : mem' = r.mem /\ dat'.container = r.ptr
  BY DEF Start
<1>3. /\ errcode = 0 /\ dat.container = Null /\ cbuf \in [Cbuf -> Variable]
      /\ refused \in Nat
  BY <1>1 DEF DumpInv, TypeOK, TargetOK, NoDat
<1>4. \A x \in Block : x # r.ptr => mem'[x] = mem[x]
  <2>1. r \in Realloc(Null, InitSpace)
    BY DEF Malloc
  <2>2. Null \in Block \cup {Null} /\ Null \notin Block /\ InitSpace \in Int
    BY DumpAssumption
  <2>3. mem \in Heap
    BY DEF DumpInv, TypeOK, Heap
  <2> QED
    BY <1>2, <2>1, <2>2, <2>3, ReallocOutcome
<1>5. \A e \in Filled : e \in Filled' /\ cbuf'[e] = cbuf[e]
  BY <1>1, <1>3 DEF Filled
<1>6. Orphans' \subseteq Orphans
  BY <1>2, <1>3, <1>4, <1>5, DumpAssumption DEF Orphans
<1> QED
  BY <1>1, <1>3, <1>6, NoneLost

LEMMA LeakWrite ==
  ASSUME DumpInv, LeakInv, WriteInPlace \/ WriteGrown \/ WriteFails
  PROVE  LeakInv'
<1>1. /\ errcode = 0 /\ UNCHANGED <<refused, cbuf>> /\ refused \in Nat
      /\ Filled' = Filled
  BY DEF WriteInPlace, WriteGrown, WriteFails, DumpInv, TypeOK, Filled
<1>2. CASE WriteInPlace
  <2>1. PICK n \in Piece : Add(mem, dat.container, dat.space, n)
    BY <1>2 DEF WriteInPlace
  <2>2. /\ dat'.container = dat.container
        /\ \A x \in Block : x # dat.container => mem'[x] = mem[x]
    BY <2>1 DEF Add
  <2>3. Orphans' \subseteq Orphans
    BY <1>1, <2>2 DEF Orphans
  <2> QED
    BY <1>1, <2>3, NoneLost
<1>3. CASE WriteGrown
  <2>1. target # None
    BY <1>3 DEF WriteGrown
  <2>2. PICK n \in Piece :
          /\ Full(dat.length + n)
          /\ \E g \in Grown(dat.length + n) :
               \E r \in Realloc(dat.container, g.size) :
                 r.ptr # Null /\ Add(r.mem, r.ptr, g.space, n)
    BY <1>3 DEF WriteGrown
  <2>3. PICK g \in Grown(dat.length + n) :
          \E r \in Realloc(dat.container, g.size) :
            r.ptr # Null /\ Add(r.mem, r.ptr, g.space, n)
    BY <2>2
  <2>4. PICK r \in Realloc(dat.container, g.size) :
          r.ptr # Null /\ Add(r.mem, r.ptr, g.space, n)
    BY <2>3
  <2>5. /\ dat.container # Null /\ dat.container \in Block \cup {Null}
        /\ mem[dat.container] # Free /\ mem \in Heap /\ g.size \in Int
    <3>1. /\ dat.container # Null /\ dat.space \in Nat /\ dat.space <= IntMax
          /\ dat.length + n > dat.space /\ dat.length + n <= 2 * IntMax + 1
          /\ n \in Nat
      BY <1>1, <2>1, <2>2, FullFacts
    <3>2. dat.length + n \in Nat
      BY <1>1, <2>1, <3>1, ScriptCounted
    <3>3. g.size \in Int
      BY <3>1, <3>2, GrownFacts
    <3> QED
      BY <3>1, <3>3 DEF DumpInv, TypeOK, CharBuf, DatOK, Heap
  <2>6. /\ dat.container # r.ptr => r.mem[dat.container] = Free
        /\ \A x \in Block : x # dat.container /\ x # r.ptr => r.mem[x] = mem[x]
    BY <2>4, <2>5, ReallocOutcome
  <2>7. \/ dat' = dat /\ mem' = mem
        \/ /\ dat'.container = r.ptr
           /\ \A x \in Block : x # r.ptr => mem'[x] = r.mem[x]
    BY <2>4 DEF Add
  <2>8. Orphans' \subseteq Orphans
    BY <1>1, <2>6, <2>7 DEF Orphans
  <2> QED
    BY <1>1, <2>8, NoneLost
<1>4. CASE WriteFails
  <2>1. errcode' = -10 /\ mem' = mem
    BY <1>4 DEF WriteFails
  <2>2. Orphans' \subseteq Orphans \cup {dat.container}
    BY <1>1, <2>1 DEF Orphans
  <2>3. /\ IsFiniteSet(Orphans')
        /\ Cardinality(Orphans') \in Nat /\ Cardinality(Orphans) \in Nat
        /\ Cardinality(Orphans') <= Cardinality(Orphans) + 1
    BY <2>2, OneLost
  <2>4. Cardinality(Orphans) <= refused
    BY <1>1 DEF LeakInv, LeaksCounted
  <2>5. Cardinality(Orphans') <= refused' + 1
    BY <1>1, <2>3, <2>4
  <2> QED
    BY <2>1, <2>3, <2>5 DEF LeakInv, LeaksCounted
<1> QED
  BY <1>2, <1>3, <1>4

LEMMA LeakFinish ==
  ASSUME DumpInv, LeakInv, Finish
  PROVE  LeakInv'
<1>1. refused \in Nat
  BY DEF DumpInv, TypeOK
<1>2. CASE Stuck
  BY <1>2 DEF Stuck, LeakInv, LeaksCounted, Orphans, Filled
<1>3. CASE /\ Ended /\ errcode = 1 /\ cbuf' = cbuf /\ refused' = refused + 1
           /\ \E a : OnlyTaken(a)
  <2>1. PICK a : OnlyTaken(a)
    BY <1>3
  <2>2. Filled' = Filled
    BY <1>3 DEF Filled
  <2>3. \A x \in Block : mem'[x] # Free /\ x # a =>
          mem[x] # Free /\ x # dat.container
    BY <1>3, <2>1, DumpAssumption DEF Ended, OnlyTaken
  <2>4. Orphans' \subseteq Orphans \cup {a}
    BY <1>3, <2>2, <2>3 DEF Orphans
  <2>5. /\ IsFiniteSet(Orphans')
        /\ Cardinality(Orphans') \in Nat /\ Cardinality(Orphans) \in Nat
        /\ Cardinality(Orphans') <= Cardinality(Orphans) + 1
    BY <2>4, OneLost
  <2>6. Cardinality(Orphans) <= refused
    BY <1>3 DEF LeakInv, LeaksCounted
  <2>7. Cardinality(Orphans') <= refused'
    BY <1>1, <1>3, <2>5, <2>6
  <2>8. errcode' = 0
    BY <1>3 DEF Ended
  <2> QED
    BY <2>5, <2>7, <2>8 DEF LeakInv, LeaksCounted
<1>4. CASE /\ Ended /\ errcode = 0 /\ refused' = refused
           /\ \E b \in Block : HandedOver(b)
  <2>1. PICK b \in Block : HandedOver(b)
    BY <1>4
  <2>2. /\ target \in Cbuf /\ cbuf[target].size = -1
        /\ cbuf \in [Cbuf -> Variable] /\ Len(script) \in Nat
    <3>1. script \in Seq(Byte)
      BY DEF DumpInv, TypeOK
    <3> QED
      BY <3>1 DEF Finish, DumpInv, TypeOK, TargetOK, Empty
  <2>3. /\ cbuf'[target].ptr = b /\ target \in Filled'
        /\ \A e \in Filled : e \in Filled' /\ cbuf'[e] = cbuf[e]
    BY <2>1, <2>2 DEF HandedOver, Filled
  <2>4. \A x \in Block : mem'[x] # Free /\ x # b =>
          mem[x] # Free /\ x # dat.container
    BY <1>4, <2>1, DumpAssumption DEF Ended, HandedOver
  <2>5. Orphans' \subseteq Orphans
    BY <2>3, <2>4 DEF Orphans
  <2> QED
    BY <1>1, <1>4, <2>5, NoneLost
<1> QED
  BY <1>2, <1>3, <1>4, FinishOutcome

LEMMA LeakFree ==
  ASSUME DumpInv, LeakInv, NEW c \in Cbuf, FreeCbuf(c)
  PROVE  LeakInv'
<1>1. /\ mem' = [x \in Block |-> IF x = cbuf[c].ptr THEN Free ELSE mem[x]]
      /\ cbuf' = [cbuf EXCEPT ![c].size = -1] /\ target = None
      /\ UNCHANGED <<dat, errcode, refused>>
  BY DEF FreeCbuf, Released
<1>2. cbuf \in [Cbuf -> Variable] /\ refused \in Nat /\ errcode = 0
  BY <1>1 DEF DumpInv, TypeOK, TargetOK
<1>3. \A e \in Filled : e # c => e \in Filled' /\ cbuf'[e] = cbuf[e]
  BY <1>1, <1>2 DEF Filled
<1>4. \A x \in Block : mem'[x] # Free => mem[x] # Free /\ x # cbuf[c].ptr
  BY <1>1
<1>5. Orphans' \subseteq Orphans
  BY <1>1, <1>3, <1>4 DEF Orphans
<1>6. errcode # -10
  BY <1>2
<1> QED
  BY <1>1, <1>2, <1>5, <1>6, NoneLost

\* At most one block is lost for each dump that was refused, and one more once a
\* realloc has failed: no other path through the dumps loses the last pointer to
\* a block, whatever the sizes, the addresses and the failures of the heap are.
THEOREM LeaksAreCounted == Spec => []LeaksCounted
<1>1. Init => LeakInv
  <2>1. SUFFICES ASSUME Init PROVE LeakInv
    OBVIOUS
  <2>2. Orphans = {} /\ errcode = 0 /\ refused = 0
    BY <2>1 DEF Init, Orphans
  <2> QED
    BY <2>2, FS_EmptySet DEF LeakInv, LeaksCounted
<1>2. ASSUME DumpInv, LeakInv, [Next]_vars
      PROVE  LeakInv'
  <2>1. ASSUME NEW c \in Cbuf, Dump(c) \/ Refuse(c)
        PROVE  LeakInv'
    <3>1. \E s : \E err \in {0, 1} : Start(c, s, err)
      BY <2>1 DEF Dump, Refuse
    <3> QED
      BY <1>2, <3>1, LeakStart
  <2>2. CASE Over \/ UNCHANGED vars
    BY <1>2, <2>2 DEF Over, vars, LeakInv, LeaksCounted, Orphans, Filled
  <2> QED
    BY <1>2, <2>1, <2>2, LeakWrite, LeakFinish, LeakFree DEF Next
<1>3. LeakInv => LeaksCounted
  BY DEF LeakInv
<1> QED
  BY <1>1, <1>2, <1>3, DumpsAreWhole, PTL DEF Spec

----------------------------------------------------------------------------
(* LuaDump implements DumpStore.                                           *)

Held == [c \in Cbuf |-> IF cbuf[c].size = -1 THEN None ELSE mem[cbuf[c].ptr]]

\* A step that leaves the filled buffers and their blocks alone is a stutter.
LEMMA HeldKeeps ==
  ASSUME \A c \in Cbuf : (cbuf'[c].size = -1) <=> (cbuf[c].size = -1),
         \A c \in Filled : /\ cbuf'[c].ptr = cbuf[c].ptr
                           /\ mem'[cbuf[c].ptr] = mem[cbuf[c].ptr]
  PROVE  Held' = Held
<1>1. \A c \in Cbuf :
        (IF cbuf'[c].size = -1 THEN None ELSE mem'[cbuf'[c].ptr])
          = (IF cbuf[c].size = -1 THEN None ELSE mem[cbuf[c].ptr])
  <2>1. SUFFICES ASSUME NEW c \in Cbuf
                 PROVE  (IF cbuf'[c].size = -1 THEN None ELSE mem'[cbuf'[c].ptr])
                          = (IF cbuf[c].size = -1 THEN None
                             ELSE mem[cbuf[c].ptr])
    OBVIOUS
  <2>2. CASE cbuf[c].size = -1
    BY <2>2
  <2>3. CASE cbuf[c].size # -1
    BY <2>3 DEF Filled
  <2> QED
    BY <2>2, <2>3
<1> QED
  BY <1>1 DEF Held

LEMMA HeldStart ==
  ASSUME DumpInv, NEW c \in Cbuf, NEW s, NEW err, Start(c, s, err)
  PROVE  Held' = Held
<1>1. cbuf[c].size = -1 /\ cbuf' = [cbuf EXCEPT ![c] = Empty]
  BY DEF Start
<1>2. PICK r \in Malloc(InitSpace) : mem' = r.mem
  BY DEF Start
<1>3. \A x \in Block : mem[x] # Free => mem'[x] = mem[x]
  <2>1. r \in Realloc(Null, InitSpace)
    BY DEF Malloc
  <2>2. Null \in Block \cup {Null} /\ Null \notin Block /\ InitSpace \in Int
    BY DumpAssumption
  <2>3. mem \in Heap
    BY DEF DumpInv, TypeOK, Heap
  <2> QED
    BY <1>2, <2>1, <2>2, <2>3, ReallocOutcome
<1>4. \A e \in Cbuf : (cbuf'[e].size = -1) <=> (cbuf[e].size = -1)
  BY <1>1 DEF Empty, DumpInv, TypeOK
<1>5. \A e \in Filled : cbuf'[e].ptr = cbuf[e].ptr
  BY <1>1 DEF Filled, DumpInv, TypeOK
<1>6. \A e \in Filled : mem'[cbuf[e].ptr] = mem[cbuf[e].ptr]
  BY <1>3 DEF DumpInv, CbufOK
<1> QED
  BY <1>4, <1>5, <1>6, HeldKeeps

LEMMA HeldAdd ==
  ASSUME DumpInv, NEW m, NEW p, NEW space, NEW n,
         Ready(m, p, space, n), Add(m, p, space, n), UNCHANGED cbuf
  PROVE  Held' = Held
<1>1. CASE p = Null \/ dat.length + n > IntMax
  BY <1>1, HeldKeeps DEF Add
<1>2. CASE p # Null /\ ~(dat.length + n > IntMax)
  <2>1. \A x \in Block : x # p => mem'[x] = m[x]
    BY <1>2 DEF Add
  <2>2. \A e \in Filled : mem'[cbuf[e].ptr] = mem[cbuf[e].ptr]
    BY <1>2, <2>1 DEF Ready, DumpInv, CbufOK
  <2> QED
    BY <2>2, HeldKeeps
<1> QED
  BY <1>1, <1>2

\* Every step is a step of DumpStore, or a stutter.
LEMMA StoreStep ==
  ASSUME DumpInv, [Next]_vars
  PROVE  Held' = Held \/ \E c \in Cbuf :
           \/ /\ Held[c] = None
              /\ \E s \in Scripts : Held' = [Held EXCEPT ![c] = s]
           \/ Held[c] # None /\ Held' = [Held EXCEPT ![c] = None]
<1>1. ASSUME NEW c \in Cbuf, Dump(c) \/ Refuse(c)
      PROVE  Held' = Held
  BY <1>1, HeldStart DEF Dump, Refuse
<1>2. CASE WriteInPlace
  <2>1. PICK n \in Piece : Add(mem, dat.container, dat.space, n)
    BY <1>2 DEF WriteInPlace
  <2>2. UNCHANGED cbuf
    BY <1>2 DEF WriteInPlace
  <2>3. \A x \in Block : x # dat.container => mem'[x] = mem[x]
    BY <2>1 DEF Add
  <2>4. \A e \in Filled : mem'[cbuf[e].ptr] = mem[cbuf[e].ptr]
    BY <2>3 DEF DumpInv, CbufOK
  <2> QED
    BY <2>2, <2>4, HeldKeeps
<1>3. CASE WriteGrown
  <2>1. target # None /\ errcode = 0 /\ UNCHANGED cbuf
    BY <1>3 DEF WriteGrown
  <2>2. PICK n \in Piece :
          /\ Full(dat.length + n)
          /\ \E g \in Grown(dat.length + n) :
               \E r \in Realloc(dat.container, g.size) :
                 r.ptr # Null /\ Add(r.mem, r.ptr, g.space, n)
    BY <1>3 DEF WriteGrown
  <2>3. PICK g \in Grown(dat.length + n) :
          \E r \in Realloc(dat.container, g.size) :
            r.ptr # Null /\ Add(r.mem, r.ptr, g.space, n)
    BY <2>2
  <2>4. PICK r \in Realloc(dat.container, g.size) :
          r.ptr # Null /\ Add(r.mem, r.ptr, g.space, n)
    BY <2>3
  <2>5. Ready(r.mem, r.ptr, g.space, n)
    BY <2>1, <2>2, <2>4, GrownReady
  <2> QED
    BY <2>1, <2>4, <2>5, HeldAdd
<1>4. CASE WriteFails \/ Over \/ UNCHANGED vars
  <2>1. UNCHANGED <<mem, cbuf>>
    BY <1>4 DEF WriteFails, Over, vars
  <2> QED
    BY <2>1 DEF Held
<1>5. CASE Finish
  <2>1. CASE Stuck
    BY <2>1 DEF Stuck, Held
  <2>2. ASSUME Ended
        PROVE  \A e \in Filled : mem'[cbuf[e].ptr] = mem[cbuf[e].ptr]
    BY <2>2 DEF Ended, DumpInv, CbufOK
  <2>3. CASE Ended /\ cbuf' = cbuf
    BY <2>2, <2>3, HeldKeeps
  <2>4. CASE Ended /\ \E b \in Block : HandedOver(b)
    <3>1. PICK b \in Block : HandedOver(b)
      BY <2>4
    <3>2. /\ target \in Cbuf /\ cbuf[target].size = -1
          /\ cbuf \in [Cbuf -> Variable] /\ Len(script) \in Nat
      <4>1. script \in Seq(Byte)
        BY DEF DumpInv, TypeOK
      <4> QED
        BY <1>5, <4>1 DEF Finish, DumpInv, TypeOK, TargetOK, Empty
    <3>3. /\ cbuf'[target].ptr = b /\ cbuf'[target].size # -1
          /\ mem'[b] = script /\ script \in Scripts
          /\ \A e \in Cbuf : e # target => cbuf'[e] = cbuf[e]
      BY <3>1, <3>2 DEF HandedOver
    <3>4. \A e \in Cbuf : Held'[e] = IF e = target THEN script ELSE Held[e]
      BY <2>2, <2>4, <3>2, <3>3 DEF Held, Filled
    <3>5. Held' = [Held EXCEPT ![target] = script]
      BY <3>4 DEF Held
    <3>6. Held[target] = None
      BY <3>2 DEF Held
    <3> QED
      BY <3>2, <3>3, <3>5, <3>6
  <2> QED
    BY <1>5, <2>1, <2>3, <2>4, FinishOutcome
<1>6. ASSUME NEW c \in Cbuf, FreeCbuf(c)
      PROVE  Held[c] # None /\ Held' = [Held EXCEPT ![c] = None]
  <2>1. /\ c \in Filled
        /\ mem' = [x \in Block |-> IF x = cbuf[c].ptr THEN Free ELSE mem[x]]
        /\ cbuf' = [cbuf EXCEPT ![c].size = -1]
    BY <1>6 DEF FreeCbuf, Released, Filled
  <2>2. Held[c] # None
    BY <2>1, DumpAssumption DEF Held, Filled, DumpInv, CbufOK
  <2>3. cbuf \in [Cbuf -> Variable]
    BY DEF DumpInv, TypeOK
  <2>4. cbuf'[c].size = -1 /\ \A e \in Cbuf : e # c => cbuf'[e] = cbuf[e]
    BY <2>1, <2>3 DEF Variable
  <2>5. \A e \in Filled : e # c => mem'[cbuf[e].ptr] = mem[cbuf[e].ptr]
    BY <2>1 DEF DumpInv, CbufOK
  <2>6. \A e \in Cbuf : Held'[e] = IF e = c THEN None ELSE Held[e]
    BY <2>4, <2>5 DEF Held, Filled
  <2>7. Held' = [Held EXCEPT ![c] = None]
    BY <2>6 DEF Held
  <2> QED
    BY <2>2, <2>7
<1> QED
  BY <1>1, <1>2, <1>3, <1>4, <1>5, <1>6 DEF Next

\* flu_dump keeps its promise: a buffer variable goes from nothing to one whole
\* script in one step, and back when it is freed.
THEOREM StoreIsImplemented == Spec => ImplementsStore
<1>1. Init => Store!Init
  BY DEF Init, Store!Init, Empty
<1>2. ASSUME DumpInv, [Next]_vars
      PROVE  [Store!Next]_Held
  BY <1>2, StoreStep DEF Store!Next, Store!Dump, Store!Discard, Held
<1> QED
  BY <1>1, <1>2, DumpsAreWhole, PTL
    DEF Spec, ImplementsStore, Store!Spec, Held
=============================================================================
