------------------------------ MODULE SeqLemmas ------------------------------
(* What the proofs of the other modules need to know of sequences. *)
EXTENDS Integers, Sequences, TLAPS

\* The domain of a sequence, and the type of its length and elements.
LEMMA SeqDomain ==
  ASSUME NEW S, NEW s \in Seq(S)
  PROVE  /\ Len(s) \in Nat
         /\ DOMAIN s = 1 .. Len(s)
         /\ DOMAIN s \subseteq Nat \ {0}
         /\ \A i \in DOMAIN s : s[i] \in S
  OBVIOUS

\* A sequence with elements has a last one.
LEMMA LastFacts ==
  ASSUME NEW S, NEW s \in Seq(S), s # <<>>
  PROVE  Len(s) \in DOMAIN s /\ Len(s) > 0
  OBVIOUS

\* What the provers need to know of Append.
LEMMA AppendFacts ==
  ASSUME NEW S, NEW s \in Seq(S), NEW x \in S
  PROVE  /\ Append(s, x) \in Seq(S)
         /\ Len(Append(s, x)) = Len(s) + 1
         /\ DOMAIN Append(s, x) = DOMAIN s \cup {Len(s) + 1}
         /\ \A i \in 1 .. Len(s) : Append(s, x)[i] = s[i]
         /\ \A i \in DOMAIN s : Append(s, x)[i] = s[i]
         /\ Append(s, x)[Len(s) + 1] = x
  OBVIOUS

\* What the provers need to know of a sequence without its last element.
LEMMA FrontFacts ==
  ASSUME NEW S, NEW s \in Seq(S), s # <<>>
  PROVE  /\ SubSeq(s, 1, Len(s) - 1) \in Seq(S)
         /\ Len(SubSeq(s, 1, Len(s) - 1)) = Len(s) - 1
         /\ DOMAIN SubSeq(s, 1, Len(s) - 1) = 1 .. Len(s) - 1
         /\ \A i \in 1 .. Len(s) - 1 : SubSeq(s, 1, Len(s) - 1)[i] = s[i]
<1>1. Len(s) \in Nat /\ Len(s) > 0
  OBVIOUS
<1>2. SubSeq(s, 1, Len(s) - 1) \in Seq(S)
  BY <1>1
<1>3. Len(SubSeq(s, 1, Len(s) - 1)) = Len(s) - 1
  <2>1. ASSUME NEW m \in Nat, m <= Len(s)
        PROVE  Len(SubSeq(s, 1, m)) = m
    BY <2>1
  <2>2. Len(s) - 1 \in Nat /\ Len(s) - 1 <= Len(s)
    BY <1>1
  <2> QED
    BY <2>1, <2>2, Zenon
<1>4. DOMAIN SubSeq(s, 1, Len(s) - 1) = 1 .. Len(s) - 1
  BY <1>1, <1>2, <1>3
<1>5. \A i \in 1 .. Len(s) - 1 : SubSeq(s, 1, Len(s) - 1)[i] = s[i]
  BY <1>1
<1> QED
  BY <1>2, <1>3, <1>4, <1>5

\* What the provers need to know of a sequence with another last element.
LEMMA AmendFacts ==
  ASSUME NEW S, NEW s \in Seq(S), s # <<>>, NEW x \in S
  PROVE  LET r == [s EXCEPT ![Len(s)] = x]
         IN  /\ r \in Seq(S)
             /\ Len(r) = Len(s)
             /\ DOMAIN r = DOMAIN s
             /\ \A i \in DOMAIN s : i # Len(s) => r[i] = s[i]
             /\ r[Len(s)] = x
  OBVIOUS

\* What the provers need to know of the first elements of a sequence.
LEMMA SubSeqFacts ==
  ASSUME NEW S, NEW s \in Seq(S), NEW n \in Nat, n <= Len(s)
  PROVE  /\ SubSeq(s, 1, n) \in Seq(S)
         /\ Len(SubSeq(s, 1, n)) = n
         /\ \A i \in 1 .. n : SubSeq(s, 1, n)[i] = s[i]
  OBVIOUS

\* What the provers need to know of two sequences in a row.
LEMMA ConcatFacts ==
  ASSUME NEW S, NEW s \in Seq(S), NEW r \in Seq(S)
  PROVE  /\ s \o r \in Seq(S)
         /\ Len(s \o r) = Len(s) + Len(r)
         /\ \A i \in 1 .. Len(s) : (s \o r)[i] = s[i]
  OBVIOUS

\* What the provers need to know of the elements from m on.
LEMMA SegmentFacts ==
  ASSUME NEW S, NEW s \in Seq(S), NEW m \in Nat \ {0}, m <= Len(s) + 1
  PROVE  /\ SubSeq(s, m, m - 1) = <<>>
         /\ \A v \in S : SubSeq(Append(s, v), m, Len(s) + 1)
                           = Append(SubSeq(s, m, Len(s)), v)
         /\ \A n \in Nat, r \in Seq(S) :
              /\ m <= n + 1 /\ n <= Len(s) /\ n <= Len(r)
              /\ \A i \in 1 .. n : r[i] = s[i]
              => SubSeq(r, m, n) = SubSeq(s, m, n)
<1>1. SubSeq(s, m, m - 1) = <<>>
  OBVIOUS
<1>2. \A v \in S : SubSeq(Append(s, v), m, Len(s) + 1)
                     = Append(SubSeq(s, m, Len(s)), v)
  OBVIOUS
<1>3. \A n \in Nat, r \in Seq(S) :
        /\ m <= n + 1 /\ n <= Len(s) /\ n <= Len(r)
        /\ \A i \in 1 .. n : r[i] = s[i]
        => SubSeq(r, m, n) = SubSeq(s, m, n)
  OBVIOUS
<1> QED
  BY <1>1, <1>2, <1>3
=============================================================================
