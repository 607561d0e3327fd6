--------------------------- MODULE Btsdio_proofs ----------------------------
(***************************************************************************)
(* The arithmetic of the rings, for every ring size: what the masks, the   *)
(* split transfers and the index differences of Btsdio come to; and what   *)
(* becomes of a sequence of whole packets when one is added or taken out.  *)
(***************************************************************************)
EXTENDS Btsdio, SequenceTheorems, TLAPS

(* The index n bytes further round the ring. *)
Advance(x, n) == IF x + n < FwBufSize THEN x + n ELSE x + n - FwBufSize

(* Masking brings a number from just above, or just below, into the ring. *)
LEMMA MaskCases ==
  ASSUME NEW x \in Int, x >= -FwBufSize, x < 2 * FwBufSize
  PROVE  Mask(x) = IF x < 0 THEN x + FwBufSize
                   ELSE IF x < FwBufSize THEN x ELSE x - FwBufSize
<1>1. FwBufSize \in Nat /\ FwBufSize >= 8
  BY FwBufSizeAssumption
<1>2. CASE x < 0 /\ x # -FwBufSize
  BY <1>1, <1>2 DEF Mask
<1>3. CASE x = -FwBufSize
  BY <1>1, <1>3 DEF Mask
<1>4. CASE x >= 0 /\ x < FwBufSize
  BY <1>1, <1>4 DEF Mask
<1>5. CASE x >= FwBufSize
  BY <1>1, <1>5 DEF Mask
<1> QED
  BY <1>1, <1>2, <1>3, <1>4, <1>5

(* What the indices are. *)
LEMMA OffsetFacts ==
  ASSUME NEW o \in WordOffsets
  PROVE  o \in Nat /\ o < FwBufSize /\ o <= FwBufSize - 4 /\ o % 4 = 0
  BY FwBufSizeAssumption DEF WordOffsets

(* Rounding keeps a length and makes it a whole number of words. *)
LEMMA RoundUpFacts ==
  ASSUME NEW n \in Nat
  PROVE  /\ RoundUp(n) \in Nat
         /\ RoundUp(n) >= n
         /\ RoundUp(n) % 4 = 0
  BY DEF RoundUp

(* A packet takes at least its header. *)
LEMMA RoundedLenFacts ==
  ASSUME NEW p \in Packets
  PROVE  /\ RoundedLen(p) \in Nat
         /\ RoundedLen(p) >= 4
         /\ RoundedLen(p) % 4 = 0
<1>1. HeaderSize + PayloadLen[p] \in Nat /\ HeaderSize + PayloadLen[p] >= 4
  BY PacketsAssumption DEF HeaderSize
<1> QED
  BY <1>1, RoundUpFacts DEF RoundedLen

(* The difference of two indices, without the mask. *)
LEMMA CircCountIs ==
  ASSUME NEW in \in WordOffsets, NEW out \in WordOffsets
  PROVE  /\ CircCount(in, out) = IF out <= in THEN in - out ELSE in - out + FwBufSize
         /\ CircCount(in, out) \in WordOffsets
<1>1. /\ in - out \in Int /\ in - out >= -FwBufSize /\ in - out < 2 * FwBufSize
      /\ in - out < FwBufSize
  BY OffsetFacts, FwBufSizeAssumption
<1>2. CircCount(in, out) = IF out <= in THEN in - out ELSE in - out + FwBufSize
  BY <1>1, MaskCases, OffsetFacts, FwBufSizeAssumption DEF CircCount
<1>3. CircCount(in, out) \in WordOffsets
  BY <1>2, OffsetFacts, FwBufSizeAssumption DEF WordOffsets
<1> QED
  BY <1>2, <1>3

(* One word always stays free. *)
LEMMA CircSpaceIs ==
  ASSUME NEW in \in WordOffsets, NEW out \in WordOffsets
  PROVE  CircSpace(in, out) = FwBufSize - 4 - CircCount(in, out)
<1>1. out - (in + 4) \in Int /\ out - (in + 4) >= -FwBufSize /\ out - (in + 4) < FwBufSize
  BY OffsetFacts, FwBufSizeAssumption
<1>2. CircSpace(in, out) =
        IF out - (in + 4) < 0 THEN out - (in + 4) + FwBufSize ELSE out - (in + 4)
  BY <1>1, MaskCases, FwBufSizeAssumption DEF CircSpace, CircCount
<1>3. out <= in \/ out >= in + 4
  BY OffsetFacts
<1>4. CircCount(in, out) = IF out <= in THEN in - out ELSE in - out + FwBufSize
  BY CircCountIs
<1> QED
  BY <1>2, <1>3, <1>4, OffsetFacts, FwBufSizeAssumption

(* Going round the ring stays in the ring. *)
LEMMA AdvanceType ==
  ASSUME NEW x \in WordOffsets, NEW n \in Nat, n % 4 = 0, n <= FwBufSize
  PROVE  Advance(x, n) \in WordOffsets
  BY OffsetFacts, FwBufSizeAssumption DEF Advance, WordOffsets

(* A transfer split at the end of the ring goes where an endless one would.*)
LEMMA RingAddrIs ==
  ASSUME NEW start \in WordOffsets, NEW len \in Nat, NEW j \in Nat, j < len
  PROVE  RingAddr(start, len, j) = Advance(start, j)
  BY OffsetFacts, FwBufSizeAssumption DEF RingAddr, Advance

LEMMA RingNextIs ==
  ASSUME NEW start \in WordOffsets, NEW len \in Nat, len <= FwBufSize
  PROVE  Mask(RingNext(start, len)) = Advance(start, len)
<1>1. RingNext(start, len) =
        IF start + len <= FwBufSize THEN start + len ELSE start + len - FwBufSize
  BY OffsetFacts, FwBufSizeAssumption DEF RingNext
<1>2. /\ RingNext(start, len) \in Int /\ RingNext(start, len) >= -FwBufSize
      /\ RingNext(start, len) >= 0 /\ RingNext(start, len) < 2 * FwBufSize
  BY <1>1, OffsetFacts, FwBufSizeAssumption
<1> QED
  BY <1>1, <1>2, MaskCases, OffsetFacts, FwBufSizeAssumption DEF Advance

LEMMA MaskIsAdvance ==
  ASSUME NEW x \in WordOffsets, NEW n \in Nat, n <= FwBufSize
  PROVE  Mask(x + n) = Advance(x, n)
<1>1. /\ x + n \in Int /\ x + n >= -FwBufSize
      /\ x + n >= 0 /\ x + n < 2 * FwBufSize
  BY OffsetFacts, FwBufSizeAssumption
<1> QED
  BY <1>1, MaskCases, OffsetFacts, FwBufSizeAssumption DEF Advance

(* The writer adds n bytes to the count, unless that fills the ring ... *)
LEMMA CountGrows ==
  ASSUME NEW in \in WordOffsets, NEW out \in WordOffsets,
         NEW n \in Nat, n % 4 = 0, CircCount(in, out) + n < FwBufSize
  PROVE  CircCount(Advance(in, n), out) = CircCount(in, out) + n
<1>1. CircCount(in, out) = IF out <= in THEN in - out ELSE in - out + FwBufSize
  BY CircCountIs
<1>2. n <= FwBufSize
  BY <1>1, OffsetFacts, FwBufSizeAssumption
<1>3. Advance(in, n) \in WordOffsets
  BY <1>2, AdvanceType
<1>4. CircCount(Advance(in, n), out) =
        IF out <= Advance(in, n) THEN Advance(in, n) - out
                                 ELSE Advance(in, n) - out + FwBufSize
  BY <1>3, CircCountIs
<1> QED
  BY <1>1, <1>4, OffsetFacts, FwBufSizeAssumption DEF Advance

(* ... and the reader takes away as much as it goes forward. *)
LEMMA CountShrinks ==
  ASSUME NEW in \in WordOffsets, NEW out \in WordOffsets,
         NEW n \in Nat, n % 4 = 0, n <= CircCount(in, out)
  PROVE  CircCount(in, Advance(out, n)) = CircCount(in, out) - n
<1>1. CircCount(in, out) = IF out <= in THEN in - out ELSE in - out + FwBufSize
  BY CircCountIs
<1>2. n <= FwBufSize
  BY <1>1, OffsetFacts, FwBufSizeAssumption
<1>3. Advance(out, n) \in WordOffsets
  BY <1>2, AdvanceType
<1>4. CircCount(in, Advance(out, n)) =
        IF Advance(out, n) <= in THEN in - Advance(out, n)
                                 ELSE in - Advance(out, n) + FwBufSize
  BY <1>3, CircCountIs
<1> QED
  BY <1>1, <1>4, OffsetFacts, FwBufSizeAssumption DEF Advance

(* Going on from there; and two places are the same only after a round. *)
LEMMA AdvanceTwice ==
  ASSUME NEW x \in WordOffsets, NEW n \in Nat, NEW m \in Nat, n + m < FwBufSize
  PROVE  Advance(Advance(x, n), m) = Advance(x, n + m)
  BY OffsetFacts, FwBufSizeAssumption DEF Advance

LEMMA AdvanceDiffers ==
  ASSUME NEW x \in WordOffsets, NEW n \in Nat, NEW m \in Nat, n < m, m < FwBufSize
  PROVE  Advance(x, n) # Advance(x, m)
  BY OffsetFacts, FwBufSizeAssumption DEF Advance

(* The writer's index is what there is to read beyond the reader's. *)
LEMMA CountLeadsToIn ==
  ASSUME NEW in \in WordOffsets, NEW out \in WordOffsets
  PROVE  Advance(out, CircCount(in, out)) = in
  BY CircCountIs, OffsetFacts, FwBufSizeAssumption DEF Advance

-----------------------------------------------------------------------------
(* A sequence of whole packets: each word belongs to one that is all there.*)
WordCount(p) == RoundedLen(p) \div 4

PacketAt(s, h) ==
  /\ s[h].pkt \in Packets
  /\ h + WordCount(s[h].pkt) - 1 <= Len(s)
  /\ \A j \in 0 .. WordCount(s[h].pkt) - 1 : s[h + j] = Word(s[h].pkt, 4 * j)

Whole(s) ==
  \A i \in 1 .. Len(s) :
    \E h \in 1 .. i : PacketAt(s, h) /\ i < h + WordCount(s[h].pkt)

LEMMA WordCountFacts ==
  ASSUME NEW p \in Packets
  PROVE  WordCount(p) \in Nat \ {0} /\ RoundedLen(p) = 4 * WordCount(p)
  BY RoundedLenFacts DEF WordCount

LEMMA PacketWordsFacts ==
  ASSUME NEW p \in Packets, NEW S, \A j \in Nat : Word(p, j) \in S
  PROVE  /\ PacketWords(p) \in Seq(S)
         /\ Len(PacketWords(p)) = WordCount(p)
         /\ \A i \in 1 .. WordCount(p) : PacketWords(p)[i] = Word(p, 4 * (i - 1))
<1>1. WordCount(p) \in Nat
  BY WordCountFacts
<1>2. \A i \in 1 .. WordCount(p) : Word(p, 4 * (i - 1)) \in S
  OBVIOUS
<1> QED
  BY <1>1, <1>2 DEF PacketWords, WordCount

(* A packet is added. *)
LEMMA WholePut ==
  ASSUME NEW S, NEW s \in Seq(S), Whole(s),
         NEW p \in Packets, \A j \in Nat : Word(p, j) \in S
  PROVE  Whole(s \o PacketWords(p))
<1> DEFINE w == PacketWords(p)
           n == WordCount(p)
           t == s \o w
<1>1. /\ w \in Seq(S) /\ Len(w) = n /\ n \in Nat \ {0}
      /\ \A i \in 1 .. n : w[i] = Word(p, 4 * (i - 1))
  BY PacketWordsFacts, WordCountFacts
<1> HIDE DEF w, n
<1>2. /\ t \in Seq(S) /\ Len(t) = Len(s) + n /\ Len(s) \in Nat
      /\ \A i \in 1 .. Len(s) : t[i] = s[i]
      /\ \A i \in 1 .. n : t[Len(s) + i] = w[i]
  <2>1. t \in Seq(S) /\ Len(t) = Len(s) + n /\ Len(s) \in Nat
    BY <1>1
  <2>2. \A i \in 1 .. Len(s) + n : t[i] = IF i <= Len(s) THEN s[i] ELSE w[i - Len(s)]
    BY <1>1
  <2>3. ASSUME NEW i \in 1 .. n PROVE t[Len(s) + i] = w[i]
    <3>1. Len(s) + i \in 1 .. Len(s) + n /\ ~(Len(s) + i <= Len(s)) /\ Len(s) + i - Len(s) = i
      BY <1>1, <2>1
    <3> HIDE DEF t
    <3> QED
      BY <2>2, <3>1
  <2>4. ASSUME NEW i \in 1 .. Len(s) PROVE t[i] = s[i]
    <3>1. i \in 1 .. Len(s) + n /\ i <= Len(s)
      BY <1>1, <2>1
    <3> HIDE DEF t
    <3> QED
      BY <2>2, <3>1
  <2> QED
    BY <2>1, <2>3, <2>4
<1> HIDE DEF t
<1>3. ASSUME NEW i \in 1 .. Len(s)
      PROVE  \E h \in 1 .. i : PacketAt(t, h) /\ i < h + WordCount(t[h].pkt)
  <2>1. PICK h \in 1 .. i : PacketAt(s, h) /\ i < h + WordCount(s[h].pkt)
    BY DEF Whole
  <2>2. h \in 1 .. Len(s) /\ t[h] = s[h]
    BY <1>2
  <2>3. WordCount(s[h].pkt) \in Nat \ {0}
    BY <2>1, WordCountFacts DEF PacketAt
  <2>4. \A j \in 0 .. WordCount(s[h].pkt) - 1 : h + j \in 1 .. Len(s)
    BY <1>2, <2>1, <2>2, <2>3 DEF PacketAt
  <2>5. PacketAt(t, h)
    <3> DEFINE m == WordCount(s[h].pkt)
    <3> HIDE DEF m
    <3>1. ASSUME NEW j \in 0 .. m - 1 PROVE t[h + j] = Word(s[h].pkt, 4 * j)
      <4>1. t[h + j] = s[h + j]
        BY <1>2, <2>4 DEF m
      <4> QED
        BY <2>1, <4>1 DEF PacketAt, m
    <3>2. h + m - 1 <= Len(t)
      BY <1>1, <1>2, <2>1, <2>3 DEF PacketAt, m
    <3> QED
      BY <2>1, <2>2, <3>1, <3>2 DEF PacketAt, m
  <2> QED
    BY <2>1, <2>2, <2>5
<1>4. ASSUME NEW i \in 1 .. Len(t), i > Len(s)
      PROVE  \E h \in 1 .. i : PacketAt(t, h) /\ i < h + WordCount(t[h].pkt)
  <2> DEFINE h == Len(s) + 1
  <2>1. h \in 1 .. i /\ i < h + n
    BY <1>1, <1>2, <1>4
  <2>2. t[h].pkt = p
    BY <1>1, <1>2 DEF Word
  <2>3. \A j \in 0 .. n - 1 : t[h + j] = Word(p, 4 * j)
    <3> SUFFICES ASSUME NEW j \in 0 .. n - 1 PROVE t[h + j] = Word(p, 4 * j)
      OBVIOUS
    <3>1. j + 1 \in 1 .. n /\ h + j = Len(s) + (j + 1) /\ (j + 1) - 1 = j
      BY <1>1, <1>2
    <3>2. t[h + j] = w[j + 1] /\ w[j + 1] = Word(p, 4 * ((j + 1) - 1))
      BY <1>1, <1>2, <3>1
    <3> QED
      BY <3>1, <3>2
  <2>4. h + n - 1 <= Len(t)
    BY <1>1, <1>2
  <2> HIDE DEF h
  <2>5. PacketAt(t, h)
    BY <2>2, <2>3, <2>4 DEF PacketAt, n
  <2> QED
    BY <2>1, <2>2, <2>5 DEF n
<1>5. Whole(t)
  <2> SUFFICES ASSUME NEW i \in 1 .. Len(t)
               PROVE  \E h \in 1 .. i : PacketAt(t, h) /\ i < h + WordCount(t[h].pkt)
    BY DEF Whole
  <2>1. i \in 1 .. Len(s) \/ i > Len(s)
    BY <1>1, <1>2
  <2> QED
    BY <1>3, <1>4, <2>1
<1> QED
  BY <1>5 DEF t, w

(* The words from a header on are whole packets again, ... *)
LEMMA WholeFrom ==
  ASSUME NEW S, NEW s \in Seq(S), Whole(s),
         NEW n \in 0 .. Len(s), n < Len(s) => s[n + 1].off = 0
  PROVE  Whole(SubSeq(s, n + 1, Len(s)))
<1> DEFINE t == SubSeq(s, n + 1, Len(s))
<1>1. /\ Len(s) \in Nat /\ n \in Nat
      /\ Len(t) = Len(s) - n
      /\ \A i \in 1 .. Len(s) - n : t[i] = s[n + i]
  BY DEF t
<1> HIDE DEF t
<1>2. ASSUME NEW i \in 1 .. Len(t)
      PROVE  \E h \in 1 .. i : PacketAt(t, h) /\ i < h + WordCount(t[h].pkt)
  <2>1. n + i \in 1 .. Len(s)
    BY <1>1
  <2>2. PICK g \in 1 .. n + i : PacketAt(s, g) /\ n + i < g + WordCount(s[g].pkt)
    BY <2>1 DEF Whole
  <2>3. WordCount(s[g].pkt) \in Nat \ {0}
    BY <2>2, WordCountFacts DEF PacketAt
  <2>4. g > n
    <3> SUFFICES ASSUME g <= n PROVE FALSE
      BY <1>1
    <3>1. n < Len(s) /\ n + 1 - g \in 0 .. WordCount(s[g].pkt) - 1
      BY <1>1, <2>1, <2>2, <2>3
    <3>2. s[g + (n + 1 - g)] = Word(s[g].pkt, 4 * (n + 1 - g))
      BY <2>2, <3>1 DEF PacketAt
    <3>3. g + (n + 1 - g) = n + 1 /\ 4 * (n + 1 - g) # 0
      BY <1>1
    <3> QED
      BY <3>1, <3>2, <3>3 DEF Word
  <2> DEFINE h == g - n
  <2>5. h \in 1 .. i /\ h \in 1 .. Len(t) /\ t[h] = s[g]
    <3>1. h \in 1 .. i /\ h \in 1 .. Len(s) - n /\ n + h = g
      BY <1>1, <2>4
    <3> QED
      BY <1>1, <3>1
  <2>6. PacketAt(t, h)
    <3> DEFINE m == WordCount(s[g].pkt)
    <3>1. g + m - 1 <= Len(s) /\ m \in Nat
      BY <2>2, <2>3 DEF PacketAt
    <3>2. h + m - 1 <= Len(t)
      BY <1>1, <3>1
    <3>3. ASSUME NEW j \in 0 .. m - 1
          PROVE  t[h + j] = Word(s[g].pkt, 4 * j)
      <4>1. h + j \in 1 .. Len(s) - n /\ n + (h + j) = g + j
        BY <1>1, <2>5, <3>1
      <4>2. t[h + j] = s[g + j]
        BY <1>1, <4>1
      <4> QED
        BY <2>2, <4>2 DEF PacketAt
    <3> QED
      BY <2>2, <2>5, <3>2, <3>3 DEF PacketAt
  <2>7. i < h + WordCount(t[h].pkt)
    BY <1>1, <2>2, <2>3, <2>5
  <2> QED
    BY <2>5, <2>6, <2>7
<1> QED
  BY <1>2 DEF Whole, t

(* ... and those in front of the second header are the first packet. *)
LEMMA WholeFirst ==
  ASSUME NEW S, NEW s \in Seq(S), Whole(s), s # <<>>
  PROVE  LET p == s[1].pkt  n == WordCount(p)
         IN  /\ p \in Packets /\ s[1] = Word(p, 0)
             /\ n \in Nat \ {0} /\ n <= Len(s)
             /\ \A i \in 1 .. n : s[i] = PacketWords(p)[i]
             /\ SubSeq(s, 1, n) = PacketWords(p)
             /\ n < Len(s) => s[n + 1].off = 0
<1> DEFINE p == s[1].pkt
           n == WordCount(p)
<1>1. Len(s) \in Nat \ {0}
  OBVIOUS
<1>2. PacketAt(s, 1)
  <2>1. PICK h \in 1 .. 1 : PacketAt(s, h)
    BY <1>1 DEF Whole
  <2> QED
    BY <2>1
<1>3. p \in Packets /\ n \in Nat \ {0} /\ n <= Len(s)
  BY <1>1, <1>2, WordCountFacts DEF PacketAt
<1>4. \A j \in 0 .. n - 1 : s[1 + j] = Word(p, 4 * j)
  BY <1>2 DEF PacketAt
<1> HIDE DEF p, n
<1>5. ASSUME NEW i \in 1 .. n PROVE s[i] = Word(p, 4 * (i - 1))
  <2>1. i - 1 \in 0 .. n - 1 /\ 1 + (i - 1) = i
    BY <1>3
  <2> QED
    BY <1>4, <2>1
<1>6. PacketWords(p) = [i \in 1 .. n |-> Word(p, 4 * (i - 1))]
  BY DEF PacketWords, WordCount, n
<1>7. SubSeq(s, 1, n) = PacketWords(p)
  <2>1. SubSeq(s, 1, n) = [i \in 1 .. n |-> s[i]]
    BY <1>3
  <2> QED
    BY <1>5, <1>6, <2>1
<1>8. ASSUME n < Len(s) PROVE s[n + 1].off = 0
  <2>1. n + 1 \in 1 .. Len(s)
    BY <1>1, <1>3, <1>8
  <2>2. PICK g \in 1 .. n + 1 : PacketAt(s, g) /\ n + 1 < g + WordCount(s[g].pkt)
    BY <2>1 DEF Whole
  <2>3. WordCount(s[g].pkt) \in Nat \ {0} /\ s[g] = Word(s[g].pkt, 0)
    <3>1. WordCount(s[g].pkt) \in Nat \ {0}
      BY <2>2, WordCountFacts DEF PacketAt
    <3>2. s[g + 0] = Word(s[g].pkt, 4 * 0)
      BY <2>2, <3>1 DEF PacketAt
    <3> QED
      BY <3>1, <3>2
  <2>4. g \notin 1 .. n
    <3> SUFFICES ASSUME g \in 1 .. n PROVE FALSE
      OBVIOUS
    <3>1. s[g] = Word(p, 4 * (g - 1))
      BY <1>5
    <3>2. g = 1
      BY <1>3, <2>3, <3>1 DEF Word
    <3>3. n + 1 < 1 + n
      BY <2>2, <3>2 DEF p, n
    <3> QED
      BY <1>3, <3>3
  <2>5. g = n + 1
    BY <1>3, <2>4
  <2> QED
    BY <2>3, <2>5 DEF Word
<1>9. s[1] = Word(p, 0)
  <2>1. 1 \in 1 .. n /\ 4 * (1 - 1) = 0
    BY <1>3
  <2> QED
    BY <1>5, <2>1
<1> QED
  BY <1>3, <1>5, <1>6, <1>7, <1>8, <1>9 DEF p, n

-----------------------------------------------------------------------------
(* The words between the indices of a ring, the oldest first. *)
Between(buf, in, out) ==
  [i \in 1 .. CircCount(in, out) \div 4 |-> buf[Mask(out + 4 * (i - 1))]]

LEMMA BetweenLen ==
  ASSUME NEW buf, NEW in \in WordOffsets, NEW out \in WordOffsets
  PROVE  /\ Len(Between(buf, in, out)) \in Nat
         /\ 4 * Len(Between(buf, in, out)) = CircCount(in, out)
<1> DEFINE c == CircCount(in, out)
<1>1. c \in Nat /\ c % 4 = 0
  BY CircCountIs, OffsetFacts
<1> HIDE DEF c
<1>2. c \div 4 \in Nat /\ 4 * (c \div 4) = c
  BY <1>1
<1>3. Len(Between(buf, in, out)) = c \div 4
  BY <1>2 DEF Between, c
<1> QED
  BY <1>2, <1>3 DEF c

LEMMA BetweenAt ==
  ASSUME NEW buf, NEW in \in WordOffsets, NEW out \in WordOffsets,
         NEW i \in 1 .. Len(Between(buf, in, out))
  PROVE  /\ 4 * (i - 1) \in WordOffsets
         /\ 4 * (i - 1) < CircCount(in, out)
         /\ Advance(out, 4 * (i - 1)) \in WordOffsets
         /\ Between(buf, in, out)[i] = buf[Advance(out, 4 * (i - 1))]
<1> DEFINE c == CircCount(in, out)
           k == Len(Between(buf, in, out))
           n == 4 * (i - 1)
<1>1. c \in Nat /\ c < FwBufSize /\ k \in Nat /\ 4 * k = c
  BY CircCountIs, OffsetFacts, BetweenLen
<1>2. i \in 1 .. c \div 4 /\ Between(buf, in, out)[i] = buf[Mask(out + n)]
  <2>1. i \in 1 .. k
    OBVIOUS
  <2> HIDE DEF c, k
  <2>2. i \in 1 .. c \div 4
    BY <1>1, <2>1
  <2> QED
    BY <2>2 DEF Between, c
<1> HIDE DEF c, k
<1>3. n \in Nat /\ n % 4 = 0 /\ n < c
  BY <1>1, <1>2
<1> HIDE DEF n
<1>4. n <= FwBufSize /\ n \in WordOffsets
  BY <1>1, <1>3, FwBufSizeAssumption DEF WordOffsets
<1>5. Mask(out + n) = Advance(out, n) /\ Advance(out, n) \in WordOffsets
  BY <1>3, <1>4, MaskIsAdvance, AdvanceType
<1> QED
  BY <1>2, <1>3, <1>4, <1>5 DEF n, c

LEMMA BetweenType ==
  ASSUME NEW S, NEW buf \in [WordOffsets -> S],
         NEW in \in WordOffsets, NEW out \in WordOffsets
  PROVE  Between(buf, in, out) \in Seq(S)
<1> DEFINE s == Between(buf, in, out)
<1>1. Len(s) \in Nat /\ s = [i \in 1 .. Len(s) |-> s[i]]
  <2>1. CircCount(in, out) \div 4 \in Nat
    BY CircCountIs, OffsetFacts
  <2> QED
    BY <2>1 DEF Between
<1>2. ASSUME NEW i \in 1 .. Len(s) PROVE s[i] \in S
  BY BetweenAt
<1> HIDE DEF s
<1>3. s \in Seq(S)
  BY <1>1, <1>2
<1> QED
  BY <1>3 DEF s

(* All of this at once. *)
IsBetween(s, buf, in, out) ==
  /\ Len(s) \in Nat /\ 4 * Len(s) = CircCount(in, out)
  /\ \A i \in 1 .. Len(s) :
       /\ 4 * (i - 1) \in WordOffsets /\ 4 * (i - 1) < CircCount(in, out)
       /\ s[i] = buf[Advance(out, 4 * (i - 1))]

LEMMA BetweenFacts ==
  ASSUME NEW S, NEW buf \in [WordOffsets -> S],
         NEW in \in WordOffsets, NEW out \in WordOffsets
  PROVE  /\ Between(buf, in, out) \in Seq(S)
         /\ IsBetween(Between(buf, in, out), buf, in, out)
<1> DEFINE s == Between(buf, in, out)
<1>1. s \in Seq(S) /\ Len(s) \in Nat /\ 4 * Len(s) = CircCount(in, out)
  BY BetweenType, BetweenLen
<1>2. ASSUME NEW i \in 1 .. Len(s)
      PROVE  /\ 4 * (i - 1) \in WordOffsets /\ 4 * (i - 1) < CircCount(in, out)
             /\ s[i] = buf[Advance(out, 4 * (i - 1))]
  BY BetweenAt
<1> HIDE DEF s
<1>3. IsBetween(s, buf, in, out)
  BY <1>1, <1>2 DEF IsBetween
<1> QED
  BY <1>1, <1>3 DEF s

(* A write elsewhere does not change them. *)
AgreeBetween(buf, other, in, out) ==
  \A n \in WordOffsets :
    n < CircCount(in, out) => other[Advance(out, n)] = buf[Advance(out, n)]

LEMMA BetweenKept ==
  ASSUME NEW buf, NEW other, NEW in \in WordOffsets, NEW out \in WordOffsets,
         AgreeBetween(buf, other, in, out)
  PROVE  Between(other, in, out) = Between(buf, in, out)
<1> DEFINE s == Between(buf, in, out)
           t == Between(other, in, out)
<1>1. /\ Len(s) \in Nat /\ 4 * Len(s) = CircCount(in, out)
      /\ Len(t) \in Nat /\ 4 * Len(t) = CircCount(in, out)
  BY BetweenLen
<1>2. /\ s = [i \in 1 .. Len(s) |-> s[i]]
      /\ t = [i \in 1 .. Len(t) |-> t[i]]
  <2>1. CircCount(in, out) \div 4 \in Nat
    BY CircCountIs, OffsetFacts
  <2> QED
    BY <2>1 DEF Between
<1>3. ASSUME NEW i \in 1 .. Len(s)
      PROVE  /\ 4 * (i - 1) \in WordOffsets /\ 4 * (i - 1) < CircCount(in, out)
             /\ s[i] = buf[Advance(out, 4 * (i - 1))]
  BY BetweenAt
<1>4. ASSUME NEW i \in 1 .. Len(t) PROVE t[i] = other[Advance(out, 4 * (i - 1))]
  BY BetweenAt
<1> HIDE DEF s, t
<1>5. Len(s) = Len(t)
  BY <1>1
<1>6. ASSUME NEW i \in 1 .. Len(s) PROVE t[i] = s[i]
  BY <1>3, <1>4, <1>5 DEF AgreeBetween
<1>7. t = s
  BY <1>2, <1>5, <1>6
<1> QED
  BY <1>7 DEF s, t

(* The writer's index moves past a packet: it is added. *)
LiesAt(buf, in, p) ==
  \A j \in WordOffsets : j < RoundedLen(p) => buf[Advance(in, j)] = Word(p, j)

LEMMA BetweenPut ==
  ASSUME NEW buf, NEW in \in WordOffsets, NEW out \in WordOffsets, NEW p \in Packets,
         CircCount(in, out) + RoundedLen(p) < FwBufSize, LiesAt(buf, in, p)
  PROVE  Between(buf, Advance(in, RoundedLen(p)), out) =
           Between(buf, in, out) \o PacketWords(p)
<1> DEFINE n == WordCount(p)
           c == CircCount(in, out)
           new == Advance(in, RoundedLen(p))
           s == Between(buf, in, out)
           t == Between(buf, new, out)
           w == PacketWords(p)
           S == {buf[o] : o \in WordOffsets} \cup {Word(p, j) : j \in Nat}
<1>1. n \in Nat \ {0} /\ RoundedLen(p) = 4 * n
  BY WordCountFacts
<1>2. /\ w \in Seq(S) /\ Len(w) = n
      /\ \A i \in 1 .. n : w[i] = Word(p, 4 * (i - 1))
  <2>1. \A j \in Nat : Word(p, j) \in S
    OBVIOUS
  <2> HIDE DEF S
  <2> QED
    BY <2>1, PacketWordsFacts
<1>3. c \in Nat /\ c < FwBufSize /\ c + 4 * n < FwBufSize
  BY <1>1, CircCountIs, OffsetFacts
<1> HIDE DEF n, w, c
<1>4. new \in WordOffsets /\ CircCount(new, out) = c + 4 * n
  <2>1. 4 * n \in Nat /\ (4 * n) % 4 = 0 /\ 4 * n <= FwBufSize
    BY <1>1, <1>3, FwBufSizeAssumption
  <2>2. CircCount(in, out) + 4 * n < FwBufSize
    BY <1>3 DEF c
  <2> QED
    BY <1>1, <2>1, <2>2, AdvanceType, CountGrows DEF c
<1> HIDE DEF new
<1>5. /\ s \in Seq(S) /\ Len(s) \in Nat /\ 4 * Len(s) = c
      /\ t \in Seq(S) /\ Len(t) \in Nat /\ 4 * Len(t) = c + 4 * n
      /\ \A i \in 1 .. Len(s) : s[i] = buf[Advance(out, 4 * (i - 1))]
      /\ \A i \in 1 .. Len(t) : t[i] = buf[Advance(out, 4 * (i - 1))]
  <2> DEFINE b == [o \in WordOffsets |-> buf[o]]
  <2>1. b \in [WordOffsets -> S] /\ \A o \in WordOffsets : b[o] = buf[o]
    OBVIOUS
  <2> HIDE DEF S, b
  <2>2. \A o \in WordOffsets : Advance(out, o) \in WordOffsets
    BY OffsetFacts, AdvanceType, FwBufSizeAssumption
  <2>3. AgreeBetween(b, buf, in, out) /\ AgreeBetween(b, buf, new, out)
    BY <2>1, <2>2 DEF AgreeBetween
  <2>4. s = Between(b, in, out) /\ t = Between(b, new, out)
    BY <1>4, <2>3, BetweenKept
  <2>5. /\ s \in Seq(S) /\ IsBetween(s, b, in, out)
        /\ t \in Seq(S) /\ IsBetween(t, b, new, out)
    BY <1>4, <2>1, <2>4, BetweenFacts
  <2> HIDE DEF s, t
  <2> QED
    BY <1>4, <2>1, <2>2, <2>5 DEF IsBetween, c
<1> HIDE DEF s, t, S
<1>6. Len(t) = Len(s) + n
  BY <1>1, <1>5
<1>7. ASSUME NEW i \in 1 .. Len(t), i > Len(s)
      PROVE  t[i] = w[i - Len(s)]
  <2> DEFINE j == 4 * (i - Len(s) - 1)
  <2>1. /\ i - Len(s) \in 1 .. n /\ j \in Nat /\ j < 4 * n /\ j % 4 = 0
        /\ 4 * (i - 1) = c + j
    BY <1>1, <1>5, <1>6, <1>7
  <2>2. w[i - Len(s)] = Word(p, j)
    BY <1>2, <2>1
  <2>3. t[i] = buf[Advance(out, c + j)]
    BY <1>5, <2>1
  <2> HIDE DEF j
  <2>4. c + j < FwBufSize /\ j \in WordOffsets
    BY <1>1, <1>3, <2>1, FwBufSizeAssumption DEF WordOffsets
  <2>5. Advance(out, c + j) = Advance(in, j)
    <3>1. Advance(out, c) = in
      BY CountLeadsToIn DEF c
    <3>2. Advance(Advance(out, c), j) = Advance(out, c + j)
      BY <1>3, <2>1, <2>4, AdvanceTwice
    <3> QED
      BY <3>1, <3>2
  <2>6. buf[Advance(in, j)] = Word(p, j)
    BY <1>1, <2>1, <2>4 DEF LiesAt
  <2> QED
    BY <2>2, <2>3, <2>5, <2>6
<1>8. ASSUME NEW i \in 1 .. Len(t)
      PROVE  t[i] = (s \o w)[i]
  <2>1. (s \o w)[i] = IF i <= Len(s) THEN s[i] ELSE w[i - Len(s)]
    BY <1>2, <1>5, <1>6, ConcatProperties
  <2>2. CASE i <= Len(s)
    BY <1>5, <2>1, <2>2
  <2>3. CASE i > Len(s)
    BY <1>5, <1>7, <2>1, <2>3
  <2>4. i <= Len(s) \/ i > Len(s)
    BY <1>5
  <2> QED
    BY <2>2, <2>3, <2>4
<1>9. s \o w \in Seq(S) /\ Len(s \o w) = Len(t)
  BY <1>2, <1>5, <1>6, ConcatProperties
<1>10. t = s \o w
  BY <1>5, <1>8, <1>9, SeqEqual
<1> QED
  BY <1>10 DEF s, t, w, new

(* The reader's index moves: those it passes are taken out. *)
LEMMA BetweenTake ==
  ASSUME NEW S, NEW buf \in [WordOffsets -> S],
         NEW in \in WordOffsets, NEW out \in WordOffsets,
         NEW n \in Nat, 4 * n <= CircCount(in, out)
  PROVE  LET s == Between(buf, in, out)
         IN  /\ n <= Len(s)
             /\ Between(buf, in, Advance(out, 4 * n)) = SubSeq(s, n + 1, Len(s))
<1> DEFINE c == CircCount(in, out)
           new == Advance(out, 4 * n)
           s == Between(buf, in, out)
           t == Between(buf, in, new)
           u == SubSeq(s, n + 1, Len(s))
<1>1. c \in Nat /\ c < FwBufSize /\ 4 * n <= c
  BY CircCountIs, OffsetFacts
<1> HIDE DEF c
<1>2. new \in WordOffsets /\ CircCount(in, new) = c - 4 * n
  <2>1. 4 * n \in Nat /\ (4 * n) % 4 = 0 /\ 4 * n <= FwBufSize
    BY <1>1, FwBufSizeAssumption
  <2> QED
    BY <2>1, AdvanceType, CountShrinks DEF c
<1> HIDE DEF new
<1>3. /\ s \in Seq(S) /\ Len(s) \in Nat /\ 4 * Len(s) = c
      /\ t \in Seq(S) /\ Len(t) \in Nat /\ 4 * Len(t) = c - 4 * n
      /\ \A i \in 1 .. Len(s) : s[i] = buf[Advance(out, 4 * (i - 1))]
      /\ \A i \in 1 .. Len(t) : t[i] = buf[Advance(new, 4 * (i - 1))]
  <2>1. /\ s \in Seq(S) /\ IsBetween(s, buf, in, out)
        /\ t \in Seq(S) /\ IsBetween(t, buf, in, new)
    BY <1>2, BetweenFacts
  <2> HIDE DEF s, t
  <2> QED
    BY <1>2, <2>1 DEF IsBetween, c
<1> HIDE DEF s, t
<1>4. Len(t) = Len(s) - n /\ n <= Len(s)
  BY <1>1, <1>3
<1>5. /\ u \in Seq(S) /\ Len(u) = Len(s) - n
      /\ \A i \in 1 .. Len(s) - n : u[i] = s[n + i]
  BY <1>3, <1>4
<1> HIDE DEF u
<1>6. ASSUME NEW i \in 1 .. Len(t)
      PROVE  t[i] = u[i]
  <2>1. /\ n + i \in 1 .. Len(s) /\ 4 * (i - 1) \in Nat
        /\ 4 * n + 4 * (i - 1) = 4 * (n + i - 1) /\ 4 * n + 4 * (i - 1) < FwBufSize
    <3>1. i \in Nat \ {0} /\ n + i \in 1 .. Len(s)
      BY <1>3, <1>4
    <3>2. 4 * (n + i - 1) < 4 * Len(s)
      BY <1>3, <3>1
    <3>3. FwBufSize \in Nat /\ 4 * Len(s) = c
      BY <1>3, FwBufSizeAssumption
    <3>4. 4 * n + 4 * (i - 1) = 4 * (n + i - 1)
      BY <3>1
    <3>5. 4 * (n + i - 1) < FwBufSize
      BY <1>1, <3>1, <3>2, <3>3
    <3> QED
      BY <3>1, <3>4, <3>5
  <2>2. Advance(new, 4 * (i - 1)) = Advance(out, 4 * n + 4 * (i - 1))
    BY <2>1, AdvanceTwice DEF new
  <2>3. t[i] = buf[Advance(new, 4 * (i - 1))]
    BY <1>3
  <2>4. s[n + i] = buf[Advance(out, 4 * (n + i - 1))]
    BY <1>3, <2>1
  <2>5. u[i] = s[n + i]
    BY <1>4, <1>5
  <2> QED
    BY <2>1, <2>2, <2>3, <2>4, <2>5
<1>7. t = u
  BY <1>3, <1>4, <1>5, <1>6, SeqEqual
<1> QED
  BY <1>4, <1>7 DEF s, t, u, new
=============================================================================
