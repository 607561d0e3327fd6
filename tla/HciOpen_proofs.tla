--------------------------- MODULE HciOpen_proofs ---------------------------
(***************************************************************************)
(* Theorems about the firmware download and open around it, for any blobs, *)
(* files cut anywhere, sizes of words, chunks, windows and the buffer, and *)
(* any number of retries.                                                  *)
(*                                                                         *)
(* DInv is the invariant of the download.  It carries the image from one   *)
(* record to the next: while a record is written the block holds what the  *)
(* image with that record says, the bytes verified so far are in the       *)
(* memory, and all others are as the image before it says.  That the       *)
(* parser stays within the records comes from the bytes that are left: no  *)
(* more of them than the records that are left take.                       *)
(*                                                                         *)
(* OInv adds the order of open's steps.  At the end: each step lowers      *)
(* open's rank, an order without infinite descent (OpenIsOnItsWay,         *)
(* RanksRunOut), and its two calls are those of OpenCalls (CallsOfOpen).   *)
(***************************************************************************)
EXTENDS HciOpen, SequenceTheorems, WellFoundedInduction, TLAPS

-----------------------------------------------------------------------------
(* The order of the natural numbers, for proofs by a least counterexample. *)
Less == {p \in Nat \X Nat : p[1] < p[2]}

(* Less is well-founded on the natural numbers, ... *)
LEMMA LessWF == IsWellFoundedOn(Less, Nat)
<1>1. Less = OpToRel(<, Nat)
  BY DEF OpToRel, Less
<1> QED
  BY <1>1, NatLessThanWellFounded

(* ... so that a set of them has a least element: this is how something is *)
(* proved here for every record of a blob.                                 *)
LEMMA LeastWF ==
  ASSUME NEW S \in SUBSET Nat, S # {}
  PROVE  \E m \in S : \A k \in S : m <= k
<1>1. PICK m \in S : \A k \in S : <<k, m>> \notin Less
  BY WFMin, LessWF, Zenon
<1>2. ASSUME NEW k \in S PROVE m <= k
  <2>1. k \in Nat /\ m \in Nat /\ <<k, m>> \notin Less
    BY <1>1
  <2> QED
    BY <2>1 DEF Less
<1> QED
  BY <1>2

(* A set of natural numbers that is bounded has a greatest element. *)
LEMMA GreatestIn ==
  ASSUME NEW n \in Nat, NEW S \in SUBSET (0 .. n), S # {}
  PROVE  \E m \in S : \A k \in S : k <= m
<1> DEFINE R == {x \in Nat : n - x \in S}
<1>0. PICK s \in S : TRUE
  OBVIOUS
<1>1. R \in SUBSET Nat /\ R # {}
  <2>1. n - (n - s) = s /\ n - s \in Nat
    OBVIOUS
  <2>2. n - s \in R
    BY <2>1
  <2> QED
    BY <2>2
<1>2. PICK m \in R : \A k \in R : m <= k
  BY LeastWF, <1>1
<1>3. n - m \in S
  OBVIOUS
<1>4. ASSUME NEW k \in S PROVE k <= n - m
  <2>1. k \in 0 .. n /\ n - (n - k) = k
    OBVIOUS
  <2>2. n - k \in R
    BY <2>1
  <2> QED
    BY <2>1, <2>2, <1>2
<1> QED
  BY <1>3, <1>4

(* What holds of 0, and of each number up to n if of the one before, holds *)
(* of them all: S is where it does.                                        *)
LEMMA UpTo ==
  ASSUME NEW n \in Nat, NEW S, 0 \in S,
         \A k \in 1 .. n : k - 1 \in S => k \in S
  PROVE  \A k \in 0 .. n : k \in S
<1> DEFINE Bad == {k \in 0 .. n : k \notin S}
<1> SUFFICES ASSUME Bad # {} PROVE FALSE
  OBVIOUS
<1>1. PICK k \in Bad : \A j \in Bad : k <= j
  <2>1. Bad \in SUBSET Nat
    OBVIOUS
  <2> HIDE DEF Bad
  <2> QED
    BY <2>1, LeastWF
<1>2. k \in 0 .. n /\ k \notin S
  OBVIOUS
<1>3. k \in 1 .. n
  BY <1>2
<1>4. k - 1 \in 0 .. n /\ ~(k <= k - 1)
  BY <1>3
<1>5. k - 1 \in S
  BY <1>1, <1>4
<1> QED
  BY <1>2, <1>3, <1>5

(* The bytes before the first k records of a blob can be summed up, ... *)
Sums(b, k, g) ==
  /\ g \in [0 .. k -> Nat]
  /\ g[0] = VersionLen + 2
  /\ \A j \in 1 .. k : g[j] = g[j - 1] + 4 + b[j].len

LEMMA SumsStep ==
  ASSUME NEW b, NEW k \in Nat \ {0}, b[k].len \in Nat, NEW g, Sums(b, k - 1, g)
  PROVE  \E h : Sums(b, k, h)
<1> DEFINE h == [j \in 0 .. k |-> IF j = k THEN g[k - 1] + 4 + b[k].len ELSE g[j]]
<1>1. /\ g \in [0 .. k - 1 -> Nat] /\ g[0] = VersionLen + 2
      /\ \A j \in 1 .. k - 1 : g[j] = g[j - 1] + 4 + b[j].len
  BY DEF Sums
<1>2. h[0] = g[0] /\ \A j \in 0 .. k - 1 : h[j] = g[j]
  OBVIOUS
<1>3. h[k] = g[k - 1] + 4 + b[k].len /\ g[k - 1] \in Nat
  BY <1>1
<1>4. h \in [0 .. k -> Nat]
  BY <1>1, <1>3
<1> HIDE DEF h
<1>5. ASSUME NEW j \in 1 .. k PROVE h[j] = h[j - 1] + 4 + b[j].len
  <2>1. h[j - 1] = g[j - 1]
    BY <1>2
  <2>2. CASE j = k
    BY <1>3, <2>1, <2>2
  <2>3. CASE j # k
    <3>1. j \in 1 .. k - 1 /\ j \in 0 .. k - 1
      BY <2>3
    <3>2. h[j] = g[j] /\ g[j] = g[j - 1] + 4 + b[j].len
      BY <1>1, <1>2, <3>1
    <3> QED
      BY <2>1, <3>2
  <2> QED
    BY <2>2, <2>3
<1>6. Sums(b, k, h)
  BY <1>1, <1>2, <1>4, <1>5 DEF Sums
<1> QED
  BY <1>6

LEMMA SumsExist ==
  ASSUME NEW n \in Nat, NEW b, \A k \in 1 .. n : b[k].len \in Nat
  PROVE  \E g : Sums(b, n, g)
<1> DEFINE S == {k \in 0 .. n : \E g : Sums(b, k, g)}
<1>1. 0 \in S
  <2>1. Sums(b, 0, [j \in 0 .. 0 |-> VersionLen + 2])
    BY DownloadAssumption DEF Sums
  <2>2. \E g : Sums(b, 0, g)
    BY <2>1
  <2> QED
    BY <2>2
<1>2. ASSUME NEW k \in 1 .. n, k - 1 \in S PROVE k \in S
  <2>1. PICK g : Sums(b, k - 1, g)
    BY <1>2
  <2>2. k \in Nat \ {0} /\ b[k].len \in Nat
    OBVIOUS
  <2>3. \E h : Sums(b, k, h)
    BY <2>1, <2>2, SumsStep
  <2> QED
    BY <2>3
<1>3. n \in S
  <2> HIDE DEF S
  <2>1. \A k \in 0 .. n : k \in S
    BY <1>1, <1>2, UpTo
  <2>2. n \in 0 .. n
    OBVIOUS
  <2> QED
    BY <2>1, <2>2
<1> QED
  BY <1>3

(* ... so that the recursive definition of BytesBefore has a solution, and *)
(* BytesBefore is one.                                                     *)
LEMMA BytesBeforeIs ==
  ASSUME NEW b \in Blobs
  PROVE  /\ BytesBefore(b) \in [0 .. Len(b) -> Nat]
         /\ BytesBefore(b)[0] = VersionLen + 2
         /\ \A n \in 1 .. Len(b) : BytesBefore(b)[n] = BytesBefore(b)[n - 1] + 4 + b[n].len
<1> DEFINE n == Len(b)
<1>1. n \in Nat /\ VersionLen + 2 \in Nat /\ \A k \in 1 .. n : b[k].len \in Nat
  <2>1. b \in Seq(Records) /\ VersionLen \in Nat
    BY DownloadAssumption
  <2>2. \A k \in 1 .. n : b[k] \in Records
    BY <2>1
  <2> QED
    BY <2>1, <2>2 DEF Records
<1>2. PICK g : Sums(b, n, g)
  BY <1>1, SumsExist
<1> DEFINE F(f) ==
      [k \in 0 .. n |-> IF k = 0 THEN VersionLen + 2 ELSE f[k - 1] + 4 + b[k].len]
<1>3. g = F(g)
  <2>1. \A k \in 0 .. n : g[k] = F(g)[k]
    BY <1>1, <1>2 DEF Sums
  <2>2. DOMAIN g = 0 .. n
    BY <1>2 DEF Sums
  <2> QED
    BY <1>2, <2>1 DEF Sums
<1>4. BytesBefore(b) = F(BytesBefore(b))
  <2>1. BytesBefore(b) = CHOOSE f : f = F(f)
    BY DEF BytesBefore
  <2> QED
    BY <1>3, <2>1
<1> DEFINE B == BytesBefore(b)
<1> HIDE DEF B
<1>5. B = [k \in 0 .. n |-> B[k]] /\ DOMAIN B = 0 .. n
  <2>1. B = [k \in 0 .. n |-> IF k = 0 THEN VersionLen + 2 ELSE B[k - 1] + 4 + b[k].len]
    BY <1>4 DEF B
  <2> QED
    BY <2>1
<1>6. B[0] = VersionLen + 2 /\ \A k \in 1 .. n : B[k] = B[k - 1] + 4 + b[k].len
  <2>1. B = [k \in 0 .. n |-> IF k = 0 THEN VersionLen + 2 ELSE B[k - 1] + 4 + b[k].len]
    BY <1>4 DEF B
  <2>2. \A k \in 0 .. n : B[k] = IF k = 0 THEN VersionLen + 2 ELSE B[k - 1] + 4 + b[k].len
    BY <2>1
  <2> HIDE DEF F
  <2> QED
    BY <1>1, <2>2
<1>7. \A k \in 0 .. n : B[k] \in Nat
  <2> DEFINE T == {k \in 0 .. n : B[k] \in Nat}
  <2>1. 0 \in T
    BY <1>1, <1>6
  <2>2. ASSUME NEW k \in 1 .. n, k - 1 \in T PROVE k \in T
    <3>1. B[k] = B[k - 1] + 4 + b[k].len /\ b[k].len \in Nat /\ B[k - 1] \in Nat
      BY <1>1, <1>6, <2>2
    <3>2. k \in 0 .. n /\ B[k] \in Nat
      BY <1>1, <3>1
    <3> QED
      BY <3>2
  <2> HIDE DEF T
  <2>3. \A k \in 0 .. n : k \in T
    BY <1>1, <2>1, <2>2, UpTo
  <2> QED
    BY <2>3 DEF T
<1>8. B \in [0 .. n -> Nat]
  BY <1>5, <1>7
<1> QED
  BY <1>6, <1>8 DEF B

-----------------------------------------------------------------------------
(* What the rounding to words gives, for any size of a word. *)
LEMMA Rounding ==
  ASSUME NEW n \in Nat
  PROVE  RoundDown(n) \in Nat /\ RoundDown(n) <= n /\ n < RoundDown(n) + Unit
<1>1. Unit \in Nat \ {0}
  BY DownloadAssumption
<1> HIDE DownloadAssumption
<1> QED
  BY <1>1 DEF RoundDown

(* The block of whole words has the record in it. *)
LEMMA BlockCovers ==
  ASSUME NEW d \in Nat, NEW len \in Nat
  PROVE  /\ RoundDown(d) \in Nat /\ RoundDown(d) <= d
         /\ WriteLen(d, len) \in Nat
         /\ d + len <= RoundDown(d) + WriteLen(d, len)
<1>1. Unit \in Nat \ {0}
  BY DownloadAssumption
<1>2. RoundDown(d) \in Nat /\ RoundDown(d) <= d
  BY Rounding
<1> DEFINE n == d - RoundDown(d) + len
<1>3. n \in Nat /\ n + Unit - 1 \in Nat
  BY <1>1, <1>2
<1> HIDE DEF n
<1>4. /\ RoundDown(n + Unit - 1) \in Nat
      /\ n + Unit - 1 < RoundDown(n + Unit - 1) + Unit
  BY <1>3, Rounding
<1>5. RoundUp(n) \in Nat /\ n <= RoundUp(n)
  BY <1>1, <1>3, <1>4 DEF RoundUp
<1>6. WriteLen(d, len) = RoundUp(n)
  BY DEF WriteLen, n
<1> QED
  BY <1>2, <1>5, <1>6 DEF n

(* The length of a function from 1 .. n. *)
LEMMA LenIs ==
  ASSUME NEW n \in Nat, NEW f, DOMAIN f = 1 .. n, f = [i \in 1 .. n |-> f[i]]
  PROVE  Len(f) = n
<1> DEFINE S == {f[i] : i \in 1 .. n}
<1>1. f \in [1 .. n -> S]
  OBVIOUS
<1> HIDE DEF S
<1>2. f \in Seq(S)
  BY <1>1, SeqDef
<1> QED
  BY <1>1, <1>2, LenProperties

(* A transfer takes no more than there is, and stays in its window. *)
LEMMA ChunkFits ==
  ASSUME NEW a \in Nat, NEW n \in Nat
  PROVE  /\ Chunk(a, n) \in 0 .. n
         /\ (a % Window) + Chunk(a, n) <= Window
<1>1. Window \in Nat \ {0} /\ MaxChunk \in Nat \ {0}
  BY DownloadAssumption
<1>2. a % Window \in 0 .. Window - 1
  BY <1>1
<1> HIDE DownloadAssumption
<1> QED
  BY <1>1, <1>2 DEF Chunk

(* In the window that is mapped an address is reached by its offset ... *)
LEMMA ChunkReaches ==
  ASSUME NEW a \in Nat, NEW h \in Nat, NEW c \in Nat,
         a \div Window = h \div Window, (h % Window) + c <= Window,
         (a - h) % Window < c
  PROVE  (a - h) % Window = a - h /\ a >= h
<1>1. Window \in Nat \ {0}
  BY DownloadAssumption
<1> HIDE DownloadAssumption
<1>2. CASE a >= h
  BY <1>1, <1>2
<1>3. CASE a < h
  <2>1. (a - h) % Window = a - h + Window
    BY <1>1, <1>3
  <2>2. h % Window = (a % Window) + (h - a)
    BY <1>1, <1>3
  <2>3. a % Window >= 0
    BY <1>1
  <2> QED
    BY <1>1, <2>1, <2>2, <2>3
<1> QED
  BY <1>2, <1>3

(* ... and all addresses of the transfer are. *)
LEMMA ReachesAll ==
  ASSUME NEW a \in Nat, NEW h \in Nat, NEW c \in Nat,
         (h % Window) + c <= Window, a >= h, a < h + c
  PROVE  a \div Window = h \div Window /\ (a - h) % Window = a - h
<1>1. Window \in Nat \ {0}
  BY DownloadAssumption
<1> HIDE DownloadAssumption
<1> QED
  BY <1>1
-----------------------------------------------------------------------------
(* What a blob asks for. *)

(* The records and the bytes of a blob. *)
LEMMA BlobFacts ==
  ASSUME NEW b \in Blobs
  PROVE  /\ b \in Seq(Records) /\ Len(b) \in Nat
         /\ \A i \in 1 .. Len(b) : b[i] \in Records
         /\ FileLens[b] \in SUBSET Nat
         /\ \A n \in FileLens[b] : n <= BytesBefore(b)[Len(b)]
<1>1. /\ b \in Seq(Records) /\ FileLens[b] \in SUBSET Nat
      /\ FileLens[b] \subseteq 0 .. BlobBytes(b)
  BY DownloadAssumption
<1>2. Len(b) \in Nat /\ \A i \in 1 .. Len(b) : b[i] \in Records
  BY <1>1
<1>3. BytesBefore(b)[Len(b)] \in Nat
  BY <1>2, BytesBeforeIs
<1> QED
  BY <1>1, <1>2, <1>3 DEF BlobBytes

(* The greatest element of a set, when one is at hand. *)
LEMMA LastOfWithTop ==
  ASSUME NEW s, NEW n \in Nat, n \in s, \A k \in s : k \in Nat /\ k <= n
  PROVE  LastOf(s) = n
<1>1. \E j \in s : \A k \in s : k <= j
  OBVIOUS
<1>2. LastOf(s) \in s /\ \A k \in s : k <= LastOf(s)
  BY <1>1 DEF LastOf
<1>3. LastOf(s) \in Nat /\ n <= LastOf(s) /\ LastOf(s) <= n
  BY <1>2
<1> QED
  BY <1>3

(* What the address records before record n add to its address. *)
BaseBefore(n) ==
  LET moves == {j \in 1 .. n - 1 : blob[j].type \in AddressTypes}
  IN  IF moves = {} THEN 0 ELSE BaseOf(blob[LastOf(moves)])

(* What a byte of the memory can be. *)
Bytes == ({0} \X {0, 1}) \cup (Nat \X Nat)

(* An address record asks for a number, ... *)
LEMMA BaseIsNat ==
  ASSUME NEW r \in Records, r.type \in AddressTypes
  PROVE  BaseOf(r) \in Nat
<1>1. r.base \in Nat /\ ExtendedUnit \in Nat /\ SegmentUnit \in Nat
  BY DownloadAssumption DEF Records
<1>2. r.base * ExtendedUnit \in Nat /\ r.base * SegmentUnit \in Nat
  BY <1>1
<1> QED
  BY <1>1, <1>2 DEF BaseOf, AddressTypes

(* ... so that the parser always adds one, ... *)
LEMMA BaseFacts == TypeOK => Base \in Nat
<1> SUFFICES ASSUME TypeOK PROVE Base \in Nat
  OBVIOUS
<1>1. /\ hi_addr \in Nat /\ abs_base_addr \in Nat /\ addr_mode \in AddressTypes
      /\ ExtendedUnit \in Nat /\ SegmentUnit \in Nat
  BY DownloadAssumption DEF TypeOK
<1>2. hi_addr * ExtendedUnit \in Nat /\ hi_addr * SegmentUnit \in Nat
  BY <1>1
<1> QED
  BY <1>1, <1>2 DEF Base, AddressTypes

(* ... which is what the last address record stated, though two modes      *)
(* share one of the variables, ...                                         *)
LEMMA BaseStated == AddressRecord => Base' = BaseOf(Rec)
<1> SUFFICES ASSUME AddressRecord PROVE Base' = BaseOf(Rec)
  OBVIOUS
<1>1. addr_mode' = Rec.type /\ Rec.type \in AddressTypes
  BY DEF AddressRecord, NextRecord
<1>2. /\ Rec.type = "absolute" => abs_base_addr' = Rec.base
      /\ Rec.type # "absolute" => hi_addr' = Rec.base
  BY DEF AddressRecord
<1> QED
  BY <1>1, <1>2 DEF Base, BaseOf, AddressTypes

LEMMA SameBase == UNCHANGED addrVars => Base' = Base
BY DEF addrVars, Base

(* ... another record changes nothing, ... *)
LEMMA BaseStays ==
  ASSUME blob \in Blobs, NEW n \in 1 .. Len(blob), blob[n].type \notin AddressTypes
  PROVE  BaseBefore(n + 1) = BaseBefore(n)
<1>1. n \in Nat /\ Len(blob) \in Nat
  BY BlobFacts
<1>2. {j \in 1 .. (n + 1) - 1 : blob[j].type \in AddressTypes}
        = {j \in 1 .. n - 1 : blob[j].type \in AddressTypes}
  BY <1>1
<1> QED
  BY <1>2 DEF BaseBefore

(* ... and from the address record on its number counts. *)
LEMMA BaseMoves ==
  ASSUME blob \in Blobs, NEW n \in 1 .. Len(blob), blob[n].type \in AddressTypes
  PROVE  BaseBefore(n + 1) = BaseOf(blob[n])
<1> DEFINE moves == {j \in 1 .. (n + 1) - 1 : blob[j].type \in AddressTypes}
<1>1. n \in Nat /\ n \in moves /\ \A k \in moves : k \in Nat /\ k <= n
  BY BlobFacts
<1>2. LastOf(moves) = n
  <2> HIDE DEF moves
  <2> QED
    BY <1>1, LastOfWithTop
<1> QED
  BY <1>1, <1>2 DEF BaseBefore

(* The parser's base address makes the address that First defines. *)
LEMMA FirstIs ==
  ASSUME blob \in Blobs, NEW n \in 1 .. Len(blob), blob[n].type = "data"
  PROVE  First[blob][n] = BaseBefore(n) + blob[n].addr
<1>1. n \in Nat /\ blob[n] \in Records
  BY BlobFacts
<1> DEFINE M(k) == {j \in 1 .. k : blob[j].type \in AddressTypes}
<1>2. M(n) = M(n - 1)
  BY <1>1 DEF AddressTypes
<1>3. First[blob][n] = blob[n].addr + IF M(n) = {} THEN 0 ELSE BaseOf(blob[LastOf(M(n))])
  BY DEF First
<1>4. BaseBefore(n) = IF M(n - 1) = {} THEN 0 ELSE BaseOf(blob[LastOf(M(n - 1))])
  BY DEF BaseBefore
<1> HIDE DEF M
<1> DEFINE B == IF M(n) = {} THEN 0 ELSE BaseOf(blob[LastOf(M(n))])
<1>5. BaseBefore(n) = B /\ First[blob][n] = blob[n].addr + B
  BY <1>2, <1>3, <1>4
<1>6. B \in Nat
  <2> SUFFICES ASSUME M(n) # {} PROVE BaseOf(blob[LastOf(M(n))]) \in Nat
    OBVIOUS
  <2>1. /\ M(n) \subseteq 0 .. n
        /\ M(n) \subseteq {j \in 1 .. Len(blob) : blob[j].type \in AddressTypes}
    BY BlobFacts, <1>1 DEF M
  <2>2. PICK j \in M(n) : \A k \in M(n) : k <= j
    BY <2>1, <1>1, GreatestIn
  <2>3. LastOf(M(n)) \in M(n)
    BY <2>2 DEF LastOf
  <2> QED
    BY <2>1, <2>3, BlobFacts, BaseIsNat
<1>7. blob[n].addr \in Nat
  BY <1>1 DEF Records
<1> HIDE DEF B
<1> QED
  BY <1>5, <1>6, <1>7

(* The image is the entry of the table. *)
LEMMA ImageIs ==
  ASSUME blob \in Blobs, NEW n \in 0 .. Len(blob)
  PROVE  Image(n) =
           [a \in Addresses |->
              LET by == {i \in 1 .. n : Covers(i, a)}
              IN  IF by = {} THEN Untouched
                  ELSE <<LastOf(by), a - First[blob][LastOf(by)] + 1>>]
BY DEF Image, Images, Covers

(* One more record changes the bytes that it covers. *)
LEMMA ImageStep ==
  ASSUME blob \in Blobs, NEW n \in Nat, n + 1 \in 1 .. Len(blob), NEW a \in Addresses
  PROVE  Image(n + 1)[a] = IF Covers(n + 1, a) THEN <<n + 1, a - First[blob][n + 1] + 1>>
                           ELSE Image(n)[a]
<1> DEFINE By(k) == {i \in 1 .. k : Covers(i, a)}
           I(S) == IF S = {} THEN Untouched
                   ELSE <<LastOf(S), a - First[blob][LastOf(S)] + 1>>
<1>1. Image(n)[a] = I(By(n)) /\ Image(n + 1)[a] = I(By(n + 1))
  <2>1. n \in 0 .. Len(blob) /\ n + 1 \in 0 .. Len(blob)
    BY BlobFacts
  <2> QED
    BY <2>1, ImageIs
<1>2. CASE Covers(n + 1, a)
  <2>1. n + 1 \in By(n + 1) /\ \A k \in By(n + 1) : k \in Nat /\ k <= n + 1
    BY <1>2
  <2>2. By(n + 1) # {} /\ LastOf(By(n + 1)) = n + 1
    <3>1. n + 1 \in Nat
      OBVIOUS
    <3> HIDE DEF By
    <3> QED
      BY <2>1, <3>1, LastOfWithTop
  <2> HIDE DEF By
  <2> QED
    BY <1>1, <1>2, <2>2
<1>3. CASE ~Covers(n + 1, a)
  <2>1. By(n + 1) = By(n)
    BY <1>3
  <2> HIDE DEF By, I
  <2> QED
    BY <1>1, <1>3, <2>1
<1> QED
  BY <1>2, <1>3
-----------------------------------------------------------------------------
(* The inductive invariant of the download. *)

(* Among the records; within one. *)
InLoop == dl_pc \in {"record", "write", "verify"}
Writing == dl_pc \in {"write", "verify"}

(* Parsing: the records behind us are no ends, base is what they ask for,  *)
(* and the bytes that are left go with the records that are left.          *)
ParseInv ==
  /\ \A i \in 1 .. pos - 1 : blob[i].type # "end" /\ blob[i].len # 0
  /\ Base = BaseBefore(pos)
  /\ dl_pc = "preamble" => remaining \in FileLens[blob]
  /\ dl_pc \in {"preamble", "power_up"} => pos = 1
  /\ dl_pc = "power_up" \/ InLoop =>
       \E n \in FileLens[blob] : remaining + BytesBefore(blob)[pos - 1] <= n

(* Writing a record: it is a data record that is whole and fits, ...       *)
RecordInv ==
  Writing =>
    /\ pos \in 1 .. Len(blob) /\ Rec.type = "data" /\ Rec.len # 0
    /\ remaining >= 4 + Rec.len
    /\ dest = Base + Rec.addr
    /\ Len(aligned) = WriteLen(dest, Rec.len)
    /\ done <= Len(aligned)
    /\ attempt < WriteRetries

(* The block as addresses. *)
InBlock(a) == a \in RoundDown(dest) .. RoundDown(dest) + Len(aligned) - 1
ByteAt(a) == aligned[a - RoundDown(dest) + 1]

(* ... the block is what the memory has to be there when it is written, ... *)
BlockInv ==
  Writing =>
    \A a \in Addresses :
      InBlock(a) => ByteAt(a) \in Bytes /\ ByteAt(a) = Image(pos)[a]

(* ... and what has been verified is in the memory. *)
VerifyInv ==
  dl_pc = "verify" =>
    \A a \in Addresses : a \in RoundDown(dest) .. Here - 1 => mem[a] = ByteAt(a)

(* Between two records the counters are back at 0. *)
RestInv ==
  dl_pc \in {"preamble", "power_up", "record"} => done = 0 /\ attempt = 0

(* Between two records, and after success, nothing is left to write. *)
LoadedInv ==
  dl_pc \in {"preamble", "power_up", "record"} \/ dl_ret = "ok" => mem = Image(pos - 1)

ResultInv == (dl_pc = "done") <=> (dl_ret # "none")

DInv ==
  /\ TypeOK
  /\ ParseInv /\ RecordInv /\ BlockInv /\ VerifyInv
  /\ RestInv /\ OthersKept /\ LoadedInv /\ ResultInv /\ WholeUnlessCut

(* Facts about a state. *)
LEMMA StateFacts ==
  ASSUME DInv
  PROVE  /\ blob \in Blobs /\ blob \in Seq(Records) /\ Len(blob) \in Nat
         /\ pos \in Nat \ {0} /\ remaining \in Nat /\ Base \in Nat /\ dest \in Nat
         /\ done \in Nat /\ attempt \in Nat
         /\ \A i \in 1 .. Len(blob) : blob[i] \in Records
  BY BlobFacts, BaseFacts DEF DInv, TypeOK

LEMMA RecordFields ==
  ASSUME NEW r \in Records
  PROVE  r.type \in Types /\ r.addr \in Nat /\ r.len \in Nat /\ r.base \in Nat
  BY DEF Records

(* While there are four bytes left there is a record. *)
LEMMA RecordIsThere ==
  ASSUME DInv, InLoop, remaining >= 4
  PROVE  pos \in 1 .. Len(blob) /\ Rec \in Records
<1>1. PICK n \in FileLens[blob] : remaining + BytesBefore(blob)[pos - 1] <= n
  BY DEF DInv, ParseInv, InLoop
<1>2. n \in Nat /\ n <= BytesBefore(blob)[Len(blob)]
  BY StateFacts, BlobFacts
<1>3. pos \in 1 .. Len(blob) + 1 /\ Len(blob) \in Nat /\ remaining \in Nat
  BY StateFacts DEF DInv, TypeOK
<1>4. \A i \in 0 .. Len(blob) : BytesBefore(blob)[i] \in Nat
  BY StateFacts, BytesBeforeIs
<1>5. pos # Len(blob) + 1
  <2> SUFFICES ASSUME pos = Len(blob) + 1 PROVE FALSE
    OBVIOUS
  <2>1. pos - 1 = Len(blob) /\ Len(blob) \in 0 .. Len(blob)
    BY <1>3
  <2>2. /\ remaining + BytesBefore(blob)[Len(blob)] <= n
        /\ BytesBefore(blob)[Len(blob)] \in Nat
    BY <1>1, <1>4, <2>1
  <2> QED
    BY <1>2, <1>3, <2>2
<1>6. pos \in 1 .. Len(blob)
  BY <1>3, <1>5
<1> QED
  BY <1>6, StateFacts DEF Rec

(* A record that is not refused is there as a whole. *)
LEMMA RecFacts ==
  ASSUME DInv, dl_pc = "record", NEW types, NextRecord(types)
  PROVE  /\ pos \in 1 .. Len(blob) /\ Rec \in Records /\ Rec.len \in Nat \ {0}
         /\ remaining >= 4 + Rec.len /\ Rec.type # "end" /\ Rec.type \in types
         /\ Rec.type = "data" => WriteLen(Base + Rec.addr, Rec.len) <= BufSize
<1>1. remaining >= 4 /\ remaining \in Nat
  BY StateFacts DEF NextRecord, AtEnd
<1>2. pos \in 1 .. Len(blob) /\ Rec \in Records
  BY <1>1, RecordIsThere DEF InLoop
<1>3. Rec.len \in Nat /\ Rec.len # 0 /\ Rec.type # "end" /\ Rec.type \in types
  BY <1>2 DEF NextRecord, AtEnd, Records
<1>4. ~(Rec.len > remaining - 4)
  BY DEF NextRecord, BadRecord
<1>5. Rec.type = "data" => ~(WriteLen(Base + Rec.addr, Rec.len) > BufSize)
  BY DEF NextRecord, BadRecord
<1>6. Rec.type = "data" => WriteLen(Base + Rec.addr, Rec.len) \in Nat
  <2>1. Rec.addr \in Nat /\ Base \in Nat
    BY <1>2, RecordFields, StateFacts
  <2>2. Base + Rec.addr \in Nat /\ Rec.len \in Nat
    BY <1>3, <2>1
  <2> QED
    BY <2>2, BlockCovers
<1>7. BufSize \in Nat
  BY DownloadAssumption
<1> QED
  BY <1>1, <1>2, <1>3, <1>4, <1>5, <1>6, <1>7

(* Facts about a record that is being written. *)
LEMMA WriteFacts ==
  ASSUME DInv, Writing
  PROVE  /\ pos \in 1 .. Len(blob) /\ Rec \in Records
         /\ RoundDown(dest) \in Nat /\ RoundDown(dest) <= dest
         /\ Len(aligned) \in Nat
         /\ done \in 0 .. Len(aligned)
         /\ Here \in Nat
         /\ ThisChunk \in 0 .. Len(aligned) - done
         /\ (Here % Window) + ThisChunk <= Window
         /\ \A a \in Addresses : Covers(pos, a) => InBlock(a)
<1>1. pos \in 1 .. Len(blob) /\ Rec \in Records
  BY StateFacts DEF DInv, RecordInv, Rec
<1>2. dest \in Nat /\ done \in Nat /\ Rec.len \in Nat
  BY <1>1, StateFacts DEF Records
<1>3. /\ RoundDown(dest) \in Nat /\ RoundDown(dest) <= dest
      /\ Len(aligned) \in Nat
      /\ dest + Rec.len <= RoundDown(dest) + Len(aligned)
  BY <1>2, BlockCovers DEF DInv, RecordInv
<1>4. done \in 0 .. Len(aligned)
  BY <1>2, <1>3 DEF DInv, RecordInv
<1>5. Here \in Nat
  BY <1>3, <1>4 DEF Here
<1>6. ThisChunk \in 0 .. Len(aligned) - done /\ (Here % Window) + ThisChunk <= Window
  <2>1. Len(aligned) - done \in Nat
    BY <1>3, <1>4
  <2> QED
    BY <1>5, <2>1, ChunkFits DEF ThisChunk
<1>7. First[blob][pos] = dest
  BY <1>1, FirstIs, StateFacts DEF DInv, RecordInv, ParseInv, Rec
<1>8. ASSUME NEW a \in Addresses, Covers(pos, a) PROVE InBlock(a)
  <2>1. a \in Nat /\ a >= dest /\ a <= dest + Rec.len - 1
    BY <1>2, <1>7, <1>8, DownloadAssumption DEF Covers, CoversIn, Rec
  <2> QED
    BY <1>2, <1>3, <2>1 DEF InBlock
<1> QED
  BY <1>1, <1>3, <1>4, <1>5, <1>6, <1>8

(* What one transfer reaches. *)
LEMMA ReachedIs ==
  ASSUME DInv, Writing, NEW a \in Addresses
  PROVE  /\ Reached(a) <=> a \in Here .. Here + ThisChunk - 1
         /\ Reached(a) => InBlock(a) /\ ByteFor(a) = ByteAt(a)
<1>1. /\ a \in Nat /\ Here \in Nat /\ ThisChunk \in Nat
      /\ (Here % Window) + ThisChunk <= Window
  BY WriteFacts, DownloadAssumption
<1>2. ASSUME Reached(a) PROVE a >= Here /\ OffsetOf(a) = a - Here /\ a < Here + ThisChunk
  <2>1. a >= Here /\ OffsetOf(a) = a - Here
    BY <1>1, <1>2, ChunkReaches DEF Reached, OffsetOf
  <2> QED
    BY <1>1, <1>2, <2>1 DEF Reached
<1>3. ASSUME a >= Here, a < Here + ThisChunk PROVE Reached(a)
  BY <1>1, <1>3, ReachesAll DEF Reached, OffsetOf
<1>4. ASSUME Reached(a) PROVE InBlock(a) /\ ByteFor(a) = ByteAt(a)
  <2>1. /\ Here = RoundDown(dest) + done /\ RoundDown(dest) \in Nat
        /\ done \in Nat /\ Len(aligned) \in Nat
        /\ ThisChunk <= Len(aligned) - done
    BY WriteFacts DEF Here
  <2>2. a >= Here /\ OffsetOf(a) = a - Here /\ a < Here + ThisChunk
    BY <1>2, <1>4
  <2>3. InBlock(a)
    <3> DEFINE r == RoundDown(dest)
               l == Len(aligned)
               t == ThisChunk
    <3>1. /\ a \in Nat /\ r \in Nat /\ done \in Nat /\ l \in Nat /\ t \in Nat
          /\ t <= l - done /\ a >= r + done /\ a < r + done + t
      BY <1>1, <2>1, <2>2
    <3> HIDE DEF r, l, t
    <3>2. a \in r .. r + l - 1
      BY <3>1
    <3> QED
      BY <3>2 DEF InBlock, r, l
  <2>4. done + 1 + OffsetOf(a) = a - RoundDown(dest) + 1
    <3> DEFINE r == RoundDown(dest)
               o == OffsetOf(a)
    <3>1. a \in Nat /\ r \in Nat /\ done \in Nat /\ o = a - (r + done)
      BY <1>1, <2>1, <2>2
    <3> HIDE DEF r, o
    <3>2. done + 1 + o = a - r + 1
      BY <3>1
    <3> QED
      BY <3>2 DEF r, o
  <2> QED
    BY <2>3, <2>4 DEF ByteFor, ByteAt
<1> QED
  BY <1>1, <1>2, <1>3, <1>4
-----------------------------------------------------------------------------
(* The steps. *)

(* The image and the base depend on the blob alone. *)
LEMMA SameImage ==
  ASSUME blob' = blob
  PROVE  /\ \A n \in Nat : Image(n)' = Image(n)
         /\ \A n \in Nat : BaseBefore(n)' = BaseBefore(n)
         /\ \A n \in Nat : \A a \in Addresses : Covers(n, a)' <=> Covers(n, a)
<1>1. \A n \in Nat : \A a \in Addresses : Covers(n, a)' <=> Covers(n, a)
  BY DEF Covers, CoversIn
<1>2. ASSUME NEW n \in Nat PROVE Image(n)' = Image(n)
  BY DEF Image, Covers, CoversIn
<1>3. ASSUME NEW n \in Nat PROVE BaseBefore(n)' = BaseBefore(n)
  BY DEF BaseBefore
<1> QED
  BY <1>1, <1>2, <1>3

(* The block that DataRecord puts together. *)
LEMMA BlockFacts ==
  ASSUME DInv, NextRecord({"data"}), dl_pc = "record",
         NEW d, d = Base + Rec.addr, NEW block, block = Block(d, Rec.len)
  PROVE  /\ d \in Nat
         /\ Len(block) = WriteLen(d, Rec.len)
         /\ WriteLen(d, Rec.len) \in Nat /\ WriteLen(d, Rec.len) <= BufSize
         /\ \A a \in Addresses :
              a \in RoundDown(d) .. RoundDown(d) + WriteLen(d, Rec.len) - 1 =>
                /\ block[a - RoundDown(d) + 1] \in Bytes
                /\ block[a - RoundDown(d) + 1] = Image(pos)[a]
<1>1. /\ pos \in 1 .. Len(blob) /\ Rec \in Records /\ Rec.type = "data"
      /\ Rec.len \in Nat \ {0} /\ WriteLen(Base + Rec.addr, Rec.len) <= BufSize
  BY RecFacts
<1>2. d \in Nat /\ Rec.addr \in Nat
  <2>1. Rec.addr \in Nat /\ Base \in Nat
    BY <1>1, RecordFields, StateFacts
  <2> QED
    BY <2>1
<1> DEFINE len == Rec.len
           n == WriteLen(d, Rec.len)
           r == RoundDown(d)
<1>3. r \in Nat /\ r <= d /\ n \in Nat /\ d + len <= r + n
  BY <1>1, <1>2, BlockCovers
<1>4. n <= BufSize
  BY <1>1
<1>5. Len(block) = n
  <2>1. DOMAIN block = 1 .. n /\ block = [i \in 1 .. n |-> block[i]]
    BY DEF Block
  <2> HIDE DEF n
  <2> QED
    BY <1>3, <2>1, LenIs
<1>6. ASSUME NEW a \in Addresses, a \in r .. r + n - 1
      PROVE  block[a - r + 1] \in Bytes /\ block[a - r + 1] = Image(pos)[a]
  <2>1. a \in Nat /\ a - r + 1 \in 1 .. n /\ r + (a - r + 1) - 1 = a
    <3>1. a \in Nat
      BY DownloadAssumption
    <3> HIDE DEF r, n
    <3> QED
      BY <1>3, <1>6, <3>1
  <2>2. block[a - r + 1] =
          CASE a \in d .. d + len - 1 -> <<pos, a - d + 1>>
            [] a \notin d .. d + len - 1 /\ NeedsRead(d, len) -> mem[a]
            [] OTHER -> Garbage
    BY <2>1 DEF Block
  <2>3. a \notin d .. d + len - 1 => NeedsRead(d, len)
    <3> SUFFICES ASSUME d = r, n = len PROVE a \in d .. d + len - 1
      BY DEF NeedsRead
    <3> QED
      BY <1>6
  <2>4. First[blob][pos] = d
    BY <1>1, <1>2, FirstIs, StateFacts DEF Rec, DInv, ParseInv
  <2>5. Covers(pos, a) <=> a \in d .. d + len - 1
    BY <1>1, <2>4 DEF Covers, CoversIn, Rec
  <2>6. Image(pos)[a] = IF a \in d .. d + len - 1 THEN <<pos, a - d + 1>>
                        ELSE Image(pos - 1)[a]
    <3>1. /\ pos - 1 \in Nat /\ (pos - 1) + 1 = pos
          /\ blob \in Blobs /\ pos \in 1 .. Len(blob)
      BY <1>1, StateFacts
    <3>2. Image(pos)[a] = IF Covers(pos, a) THEN <<pos, a - First[blob][pos] + 1>>
                          ELSE Image(pos - 1)[a]
      BY <3>1, ImageStep
    <3> QED
      BY <2>4, <2>5, <3>2
  <2>7. mem = Image(pos - 1) /\ mem[a] \in Bytes
    BY DEF DInv, LoadedInv, TypeOK, Bytes
  <2>8. CASE a \in d .. d + len - 1
    <3>1. <<pos, a - d + 1>> \in Bytes
      <4>1. pos \in Nat /\ a - d + 1 \in Nat
        <5>1. pos \in Nat
          BY StateFacts
        <5>2. a \in Nat /\ d \in Nat /\ a >= d
          BY <1>2, <2>1, <2>8
        <5> QED
          BY <5>1, <5>2
      <4> QED
        BY <4>1 DEF Bytes
    <3> QED
      BY <2>2, <2>6, <2>8, <3>1
  <2>9. CASE a \notin d .. d + len - 1
    BY <2>2, <2>3, <2>6, <2>7, <2>9
  <2> QED
    BY <2>8, <2>9
<1> QED
  BY <1>2, <1>3, <1>4, <1>5, <1>6

(* No step breaks the type invariant. *)
LEMMA NextTypeOK == DInv /\ DlNext => TypeOK'
<1> SUFFICES ASSUME DInv, DlNext PROVE TypeOK'
  OBVIOUS
<1> USE DEF TypeOK, Finish, GoTo, parseVars, addrVars, writeVars
<1>0. /\ TypeOK /\ VersionLen \in Nat /\ BufSize \in Nat \ {0}
      /\ WriteRetries \in Nat \ {0}
  BY DownloadAssumption DEF DInv
<1>1. CASE Preamble
  BY <1>0, <1>1 DEF Preamble
<1>2. CASE PowerUp
  BY <1>0, <1>2 DEF PowerUp
<1>3. CASE StopAtRecord
  BY <1>0, <1>3 DEF StopAtRecord
<1>4. CASE AddressRecord
  <2>1. dl_pc = "record" /\ NextRecord(AddressTypes)
    BY <1>4 DEF AddressRecord, NextRecord
  <2>2. pos \in 1 .. Len(blob) /\ Rec \in Records /\ Rec.type \in AddressTypes
        /\ Rec.len \in Nat /\ remaining >= 4 + Rec.len
    BY <2>1, RecFacts
  <2>3. BaseOf(Rec) \in Nat
    BY <2>2, BaseIsNat
  <2>4. pos' \in 1 .. Len(blob)' + 1 /\ remaining' \in Nat
    <3>1. pos' = pos + 1 /\ remaining' = remaining - 4 - Rec.len /\ blob' = blob
      BY <1>4 DEF AddressRecord, Advance
    <3>2. Len(blob) \in Nat /\ remaining \in Nat
      BY StateFacts
    <3> QED
      BY <2>2, <3>1, <3>2
  <2> QED
    BY <1>0, <1>4, <2>2, <2>3, <2>4 DEF AddressRecord, Advance, AddressTypes, Records
<1>5. CASE DataRecord
  <2>1. dl_pc = "record" /\ NextRecord({"data"})
    BY <1>5 DEF DataRecord, NextRecord
  <2>2. dest' \in Nat /\ Len(aligned') <= BufSize
    <3>1. CASE UNCHANGED <<dest, aligned>>
      BY <1>0, <3>1
    <3>2. CASE dest' = Base + Rec.addr /\ aligned' = Block(Base + Rec.addr, Rec.len)
      BY <2>1, <3>2, BlockFacts
    <3> QED
      BY <1>5, <3>1, <3>2 DEF DataRecord
  <2> QED
    BY <1>0, <1>5, <2>2 DEF DataRecord
<1>6. ASSUME Writing, Retry, mem' \in [Addresses -> Bytes] PROVE TypeOK'
  <2>1. attempt' \in 0 .. WriteRetries
    BY <1>0, <1>6 DEF Retry, Attempts, DInv, RecordInv
  <2> QED
    BY <1>0, <1>6, <2>1 DEF Retry, Bytes
<1>7. ASSUME Writing PROVE done + ThisChunk \in 0 .. BufSize
  <2>1. Len(aligned) <= BufSize
    BY <1>0
  <2> QED
    BY <1>0, <1>7, <2>1, WriteFacts
<1>8. CASE WriteChunk
  <2>1. mem' \in [Addresses -> Bytes]
    <3>1. mem \in [Addresses -> Bytes]
      BY <1>0 DEF Bytes
    <3>2. ASSUME NEW a \in Addresses, Reached(a) PROVE ByteFor(a) \in Bytes
      <4>1. Writing
        BY <1>8 DEF WriteChunk, Writing
      <4>2. InBlock(a) /\ ByteFor(a) = ByteAt(a)
        BY <3>2, <4>1, ReachedIs
      <4> QED
        BY <4>1, <4>2 DEF DInv, BlockInv
    <3>3. ASSUME NEW words PROVE Landed(words) \in [Addresses -> Bytes]
      BY <3>1, <3>2 DEF Landed
    <3> QED
      BY <1>8, <3>3 DEF WriteChunk
  <2>2. CASE Retry
    BY <1>6, <1>8, <2>1, <2>2 DEF WriteChunk, Writing
  <2>3. CASE ~Retry
    <3>1. done + ThisChunk \in 0 .. BufSize
      BY <1>7, <1>8 DEF WriteChunk, Writing
    <3>2. \/ done' = done + ThisChunk /\ UNCHANGED dl_pc
          \/ done' = 0 /\ dl_pc' = "verify"
      BY <1>8, <2>3 DEF WriteChunk
    <3>3. done' \in 0 .. BufSize
      BY <1>0, <3>1, <3>2
    <3>4. UNCHANGED <<parseVars, dest, aligned, attempt, dl_ret>>
      BY <1>8, <2>3 DEF WriteChunk
    <3> QED
      BY <1>0, <2>1, <3>2, <3>3, <3>4 DEF Bytes
  <2> QED
    BY <2>2, <2>3
<1>9. CASE VerifyChunk
  <2>1. Writing
    BY <1>9 DEF VerifyChunk, Writing
  <2>2. CASE done + ThisChunk < Len(aligned)
    BY <1>0, <1>7, <1>9, <2>1, <2>2 DEF VerifyChunk
  <2>3. CASE ~(done + ThisChunk < Len(aligned))
    <3>1. pos \in 1 .. Len(blob) /\ Rec \in Records
      BY <2>1, WriteFacts
    <3>2. remaining >= 4 + Rec.len /\ Rec.len \in Nat
      BY <2>1, <3>1 DEF DInv, RecordInv, Records
    <3>3. pos' \in 1 .. Len(blob)' + 1 /\ remaining' \in Nat
      <4>1. pos' = pos + 1 /\ remaining' = remaining - 4 - Rec.len /\ blob' = blob
        BY <1>9, <2>3 DEF VerifyChunk, Advance
      <4>2. Len(blob) \in Nat /\ remaining \in Nat
        BY StateFacts
      <4> QED
        BY <3>1, <3>2, <4>1, <4>2
    <3>4. Len(aligned') <= BufSize
      BY <1>0, <1>9, <2>3 DEF VerifyChunk
    <3> QED
      BY <1>0, <1>9, <2>3, <3>3, <3>4 DEF VerifyChunk, Advance
  <2> QED
    BY <2>2, <2>3
<1>10. CASE VerifyFail
  BY <1>0, <1>6, <1>10 DEF VerifyFail, Writing, Bytes
<1> QED
  BY <1>1, <1>2, <1>3, <1>4, <1>5, <1>8, <1>9, <1>10 DEF DlNext

(* The step from one record to the next, past an address record or a data  *)
(* record, and the steps that stay at a record.                            *)
Passes(types) ==
  /\ InLoop /\ pos \in 1 .. Len(blob) /\ Rec \in Records
  /\ Rec.type \in types /\ Rec.type # "end" /\ Rec.len # 0
  /\ remaining >= 4 + Rec.len
  /\ blob' = blob /\ pos' = pos + 1 /\ remaining' = remaining - 4 - Rec.len
  /\ dl_pc' = "record" /\ dl_ret' = dl_ret

(* The steps by whether they go on to the next record. *)
LEMMA Stepwise ==
  ASSUME DInv, DlNext
  PROVE  \/ Preamble \/ PowerUp \/ StopAtRecord
         \/ Passes(AddressTypes) /\ Base' = BaseOf(Rec) /\ AddressRecord
         \/ Passes({"data"}) /\ Base' = Base /\ mem' = mem /\ dl_pc = "verify"
              /\ Matches /\ ~(done + ThisChunk < Len(aligned))
         \/ DataRecord
         \/ WriteChunk /\ UNCHANGED parseVars
         \/ VerifyChunk /\ UNCHANGED <<parseVars, dest, aligned, attempt, dl_pc>>
         \/ VerifyFail /\ UNCHANGED parseVars
<1>1. CASE AddressRecord
  <2>1. dl_pc = "record" /\ NextRecord(AddressTypes)
    BY <1>1 DEF AddressRecord, NextRecord
  <2> QED
    BY <1>1, <2>1, RecFacts, BaseStated DEF AddressRecord, Advance, Passes, InLoop
<1>2. CASE VerifyChunk
  <2>1. CASE done + ThisChunk < Len(aligned)
    BY <1>2, <2>1 DEF VerifyChunk
  <2>2. CASE ~(done + ThisChunk < Len(aligned))
    <3>1. Writing
      BY <1>2 DEF VerifyChunk, Writing
    <3>2. pos \in 1 .. Len(blob) /\ Rec \in Records
      BY <3>1, WriteFacts
    <3>3. Rec.type = "data" /\ Rec.len # 0 /\ remaining >= 4 + Rec.len
      BY <3>1 DEF DInv, RecordInv
    <3> QED
      BY <1>2, <2>2, <3>2, <3>3, SameBase DEF VerifyChunk, Advance, Passes, InLoop
  <2> QED
    BY <2>1, <2>2
<1>3. CASE WriteChunk
  BY <1>3 DEF WriteChunk, Retry
<1>4. CASE VerifyFail
  BY <1>4 DEF VerifyFail, Retry
<1> QED
  BY <1>1, <1>2, <1>3, <1>4 DEF DlNext

(* The parser stays at a record with the bytes that go with it. *)
LEMMA NextParse == DInv /\ DlNext => ParseInv'
<1> SUFFICES ASSUME DInv, DlNext PROVE ParseInv'
  OBVIOUS
<1>0. ParseInv /\ pos \in Nat \ {0} /\ blob \in Blobs
  BY StateFacts DEF DInv
<1>1. BytesBefore(blob) \in [0 .. Len(blob) -> Nat]
  BY <1>0, BytesBeforeIs
<1>2. CASE Preamble
  <2>1. UNCHANGED <<blob, pos, Base>> /\ pos = 1 /\ BaseBefore(pos)' = BaseBefore(pos)
    BY <1>0, <1>2, SameImage, SameBase DEF Preamble, ParseInv
  <2>2. CASE remaining >= VersionLen + 2
    <3>1. remaining' + BytesBefore(blob)'[0] = remaining
      <4>1. /\ BytesBefore(blob)[0] = VersionLen + 2
            /\ BytesBefore(blob)' = BytesBefore(blob)
        BY <1>0, <2>1, BytesBeforeIs
      <4>2. remaining' = remaining - VersionLen - 2
        BY <1>2, <2>2 DEF Preamble
      <4>3. remaining \in Nat /\ VersionLen \in Nat
        BY StateFacts, DownloadAssumption
      <4>4. BytesBefore(blob)'[0] = VersionLen + 2
        BY <4>1
      <4> HIDE DownloadAssumption
      <4> QED
        BY <4>2, <4>3, <4>4
    <3>2. remaining \in FileLens[blob] /\ remaining \in Nat
      BY <1>0, <1>2, StateFacts DEF Preamble, ParseInv
    <3>3. pos' - 1 = 0 /\ dl_pc' = "power_up"
      BY <1>2, <2>1, <2>2 DEF Preamble, GoTo
    <3>4. \E n \in FileLens[blob]' : remaining' + BytesBefore(blob)'[pos' - 1] <= n
      BY <2>1, <3>1, <3>2, <3>3
    <3> QED
      BY <1>0, <2>1, <3>3, <3>4 DEF ParseInv
  <2>3. CASE ~(remaining >= VersionLen + 2)
    <3>1. dl_pc' = "done"
      BY <1>2, <2>3 DEF Preamble, Finish
    <3> QED
      BY <1>0, <2>1, <3>1 DEF ParseInv, InLoop
  <2> QED
    BY <2>2, <2>3
<1>3. ASSUME UNCHANGED parseVars, dl_pc' # "preamble", dl_pc' # "power_up",
             dl_pc' = "done" \/ dl_pc = "power_up" \/ InLoop
      PROVE  ParseInv'
  BY <1>0, <1>3, SameImage, SameBase DEF ParseInv, parseVars, InLoop
<1>4. ASSUME NEW types, Passes(types), Base' = BaseBefore(pos + 1) PROVE ParseInv'
  <2>1. BaseBefore(pos)' = BaseBefore(pos + 1)
    BY <1>4 DEF Passes, BaseBefore
  <2>2. \A i \in 1 .. pos' - 1 : blob'[i].type # "end" /\ blob'[i].len # 0
    <3> SUFFICES ASSUME NEW i \in 1 .. pos' - 1
                 PROVE  blob[i].type # "end" /\ blob[i].len # 0
      BY <1>4 DEF Passes
    <3>1. i \in 1 .. pos - 1 \/ i = pos
      BY <1>0, <1>4 DEF Passes
    <3> QED
      BY <1>0, <1>4, <3>1 DEF Passes, Rec, ParseInv
  <2>3. \E n \in FileLens[blob]' : remaining' + BytesBefore(blob)'[pos' - 1] <= n
    <3>1. PICK n \in FileLens[blob] : remaining + BytesBefore(blob)[pos - 1] <= n
      BY <1>0, <1>4 DEF ParseInv, Passes
    <3>2. /\ BytesBefore(blob)[pos] = BytesBefore(blob)[pos - 1] + 4 + Rec.len
          /\ BytesBefore(blob)[pos - 1] \in Nat /\ Rec.len \in Nat
      <4>1. pos \in 1 .. Len(blob) /\ Rec.len \in Nat /\ pos - 1 \in 0 .. Len(blob)
        BY <1>0, <1>4, StateFacts DEF Passes, Records
      <4> QED
        BY <1>0, <1>1, <4>1, BytesBeforeIs DEF Rec
    <3>3. remaining' + BytesBefore(blob)[pos] = remaining + BytesBefore(blob)[pos - 1]
      <4>1. remaining' = remaining - 4 - Rec.len
        BY <1>4 DEF Passes
      <4>2. remaining \in Nat
        BY StateFacts
      <4> QED
        BY <3>2, <4>1, <4>2
    <3>4. pos' - 1 = pos
      BY <1>0, <1>4 DEF Passes
    <3> QED
      BY <1>4, <3>1, <3>3, <3>4 DEF Passes
  <2> QED
    BY <1>0, <1>4, <2>1, <2>2, <2>3 DEF ParseInv, Passes
<1>5. CASE Passes(AddressTypes) /\ Base' = BaseOf(Rec)
  <2>1. Base' = BaseBefore(pos + 1)
    BY <1>0, <1>5, BaseMoves DEF Passes, Rec
  <2> QED
    BY <1>4, <1>5, <2>1
<1>6. CASE Passes({"data"}) /\ Base' = Base
  <2>1. Base' = BaseBefore(pos + 1)
    BY <1>0, <1>6, BaseStays DEF Passes, Rec, ParseInv, AddressTypes
  <2> QED
    BY <1>4, <1>6, <2>1
<1>7. CASE PowerUp
  BY <1>3, <1>7 DEF PowerUp, GoTo, Finish
<1>8. CASE StopAtRecord
  BY <1>3, <1>8 DEF StopAtRecord, Finish
<1>9. CASE DataRecord
  BY <1>3, <1>9 DEF DataRecord, GoTo, Finish, NextRecord, InLoop
<1>10. CASE WriteChunk /\ UNCHANGED parseVars
  BY <1>3, <1>10 DEF WriteChunk, Retry, GoTo, Finish, InLoop
<1>11. CASE VerifyChunk /\ UNCHANGED <<parseVars, dl_pc>>
  BY <1>3, <1>11 DEF VerifyChunk, InLoop
<1>12. CASE VerifyFail /\ UNCHANGED parseVars
  BY <1>3, <1>12 DEF VerifyFail, Retry, GoTo, Finish, InLoop
<1> QED
  BY <1>2, <1>5, <1>6, <1>7, <1>8, <1>9, <1>10, <1>11, <1>12, Stepwise

(* Being written, a record stays one that is whole and fits. *)
LEMMA NextRecordInv == DInv /\ DlNext => RecordInv'
<1> SUFFICES ASSUME DInv, DlNext, Writing' PROVE RecordInv'
  BY DEF RecordInv
<1> USE DEF parseVars, addrVars, GoTo, Finish
<1>1. CASE DataRecord
  <2>1. dl_pc = "record" /\ NextRecord({"data"})
    BY <1>1 DEF DataRecord, NextRecord
  <2>2. /\ pos \in 1 .. Len(blob) /\ Rec.type = "data" /\ Rec.len \in Nat \ {0}
        /\ remaining >= 4 + Rec.len
    BY <2>1, RecFacts
  <2>3. /\ dest' = Base + Rec.addr /\ aligned' = Block(Base + Rec.addr, Rec.len)
        /\ UNCHANGED <<blob, remaining, pos, Base, done, attempt>> /\ Rec' = Rec
    BY <1>1, SameBase DEF DataRecord, Writing, Rec
  <2>4. Len(aligned') = WriteLen(dest', Rec.len) /\ Len(aligned') \in Nat
    BY <2>1, <2>3, BlockFacts
  <2>5. done = 0 /\ attempt = 0
    BY <2>1 DEF DInv, RestInv
  <2>6. 0 < WriteRetries
    BY DownloadAssumption
  <2> QED
    BY <2>2, <2>3, <2>4, <2>5, <2>6 DEF RecordInv
<1>2. ASSUME Writing, UNCHANGED <<parseVars, dest, aligned>>,
             done' <= Len(aligned), attempt' < WriteRetries
      PROVE  RecordInv'
  BY <1>2, SameBase DEF RecordInv, DInv, Rec
<1>3. ASSUME Writing PROVE done + ThisChunk <= Len(aligned) /\ 0 <= Len(aligned)
  BY <1>3, WriteFacts
<1>4. ASSUME Writing PROVE attempt < WriteRetries
  BY <1>4 DEF DInv, RecordInv
<1>5. CASE WriteChunk
  <2>1. Writing
    BY <1>5 DEF WriteChunk, Writing
  <2>2. CASE Retry
    BY <1>2, <1>3, <2>1, <2>2 DEF Retry, Writing
  <2>3. CASE ~Retry
    BY <1>2, <1>3, <1>4, <1>5, <2>1, <2>3 DEF WriteChunk
  <2> QED
    BY <2>2, <2>3
<1>6. CASE VerifyChunk
  <2>1. Writing
    BY <1>6 DEF VerifyChunk, Writing
  <2> QED
    BY <1>2, <1>3, <1>4, <1>6, <2>1 DEF VerifyChunk, Writing
<1>7. CASE VerifyFail
  <2>1. Writing
    BY <1>7 DEF VerifyFail, Writing
  <2> QED
    BY <1>2, <1>3, <1>7, <2>1 DEF VerifyFail, Retry, Writing
<1> QED
  BY <1>1, <1>5, <1>6, <1>7
     DEF DlNext, Preamble, PowerUp, StopAtRecord, AddressRecord, NextRecord,
         Writing

(* The counters start at 0 for each record. *)
LEMMA NextRest == DInv /\ DlNext => RestInv' /\ ResultInv'
<1> SUFFICES ASSUME DInv, DlNext PROVE RestInv' /\ ResultInv'
  OBVIOUS
<1>1. RestInv /\ ResultInv
  BY DEF DInv
<1>2. RestInv'
  BY <1>1
     DEF RestInv, DlNext, Preamble, PowerUp, StopAtRecord, AddressRecord,
         DataRecord, WriteChunk, VerifyChunk, VerifyFail, Retry, NextRecord,
         GoTo, Finish, writeVars
<1>3. ResultInv'
  BY <1>1
     DEF ResultInv, DlNext, Preamble, PowerUp, StopAtRecord, AddressRecord,
         DataRecord, WriteChunk, VerifyChunk, VerifyFail, Retry, NextRecord,
         GoTo, Finish
<1> QED
  BY <1>2, <1>3

(* The block to be written is the image's. *)
LEMMA NextBlock == DInv /\ DlNext => BlockInv'
<1> SUFFICES ASSUME DInv, DlNext, Writing',
                    NEW a \in Addresses, InBlock(a)'
             PROVE  ByteAt(a)' \in Bytes /\ ByteAt(a)' = Image(pos)'[a]
  BY DEF BlockInv
<1>1. CASE DataRecord
  <2>1. dl_pc = "record" /\ NextRecord({"data"})
    BY <1>1 DEF DataRecord, NextRecord
  <2>2. /\ dest' = Base + Rec.addr /\ aligned' = Block(Base + Rec.addr, Rec.len)
        /\ UNCHANGED <<blob, pos>>
    BY <1>1 DEF DataRecord, Writing, Finish, parseVars, addrVars
  <2>3. Image(pos)' = Image(pos)
    BY <2>2, SameImage, StateFacts
  <2>4. Len(aligned') = WriteLen(dest', Rec.len)
    BY <2>1, <2>2, BlockFacts
  <2>5. a \in RoundDown(dest') .. RoundDown(dest') + WriteLen(dest', Rec.len) - 1
    BY <2>4 DEF InBlock
  <2> QED
    BY <2>1, <2>2, <2>3, <2>5, BlockFacts DEF ByteAt
<1>2. CASE Writing /\ UNCHANGED <<blob, pos, dest, aligned>>
  <2>1. Image(pos)' = Image(pos)
    BY <1>2, SameImage, StateFacts
  <2>2. InBlock(a) /\ ByteAt(a)' = ByteAt(a)
    BY <1>2 DEF InBlock, ByteAt
  <2> QED
    BY <1>2, <2>1, <2>2 DEF DInv, BlockInv
<1>3. ASSUME ~DataRecord PROVE Writing /\ UNCHANGED <<blob, pos, dest, aligned>>
  BY <1>3
     DEF DlNext, Preamble, PowerUp, StopAtRecord, AddressRecord, WriteChunk,
         VerifyChunk, VerifyFail, Retry, NextRecord, GoTo, Finish, Writing,
         parseVars, addrVars
<1> QED
  BY <1>1, <1>2, <1>3

(* A transfer of the verification adds its bytes to those that match. *)
LEMMA VerifiedSoFar ==
  ASSUME DInv, dl_pc = "verify", Matches, NEW a \in Addresses,
         a \in RoundDown(dest) .. Here + ThisChunk - 1
  PROVE  mem[a] = ByteAt(a)
<1>1. Writing
  BY DEF Writing
<1>2. a \in Nat /\ Here \in Nat /\ RoundDown(dest) \in Nat /\ ThisChunk \in Nat
  BY <1>1, WriteFacts, DownloadAssumption
<1>3. CASE a < Here
  BY <1>2, <1>3 DEF DInv, VerifyInv
<1>4. CASE a >= Here
  <2>1. a \in Here .. Here + ThisChunk - 1
    BY <1>2, <1>4
  <2>2. Reached(a) /\ ByteFor(a) = ByteAt(a)
    BY <1>1, <2>1, ReachedIs
  <2> QED
    BY <2>2 DEF Matches
<1> QED
  BY <1>2, <1>3, <1>4

(* What was verified stays in the memory. *)
LEMMA NextVerify == DInv /\ DlNext => VerifyInv'
<1> SUFFICES ASSUME DInv, DlNext, dl_pc' = "verify",
                    NEW a \in Addresses, a \in RoundDown(dest') .. Here' - 1
             PROVE  mem'[a] = ByteAt(a)'
  BY DEF VerifyInv
<1>1. CASE WriteChunk
  <2>1. Writing
    BY <1>1 DEF WriteChunk, Writing
  <2>2. dest' = dest /\ done' = 0
    BY <1>1 DEF WriteChunk, Retry, GoTo, Finish
  <2>3. /\ Here' = RoundDown(dest) /\ RoundDown(dest) \in Nat
        /\ RoundDown(dest') = RoundDown(dest)
    BY <2>1, <2>2, WriteFacts DEF Here
  <2> QED
    BY <2>3
<1>2. CASE VerifyChunk
  <2>1. /\ UNCHANGED <<mem, dest, aligned>> /\ done' = done + ThisChunk
        /\ dl_pc = "verify" /\ Matches
    BY <1>2 DEF VerifyChunk
  <2>2. ByteAt(a)' = ByteAt(a) /\ RoundDown(dest') = RoundDown(dest)
    BY <2>1 DEF ByteAt
  <2>3. Here' = Here + ThisChunk
    <3>1. RoundDown(dest) \in Nat /\ done \in Nat /\ ThisChunk \in Nat
      BY <2>1, WriteFacts, StateFacts DEF Writing
    <3>2. Here' = RoundDown(dest) + (done + ThisChunk)
      BY <2>1, <2>2 DEF Here
    <3>3. Here = RoundDown(dest) + done
      BY DEF Here
    <3> QED
      BY <3>1, <3>2, <3>3
  <2>4. a \in RoundDown(dest) .. Here + ThisChunk - 1
    <3>1. RoundDown(dest) \in Nat /\ Here \in Nat /\ ThisChunk \in Nat
      BY <2>1, WriteFacts DEF Writing
    <3> QED
      BY <2>2, <2>3, <3>1
  <2> QED
    BY <2>1, <2>2, <2>4, VerifiedSoFar
<1> QED
  BY <1>1, <1>2
     DEF DlNext, Preamble, PowerUp, StopAtRecord, AddressRecord, DataRecord,
         VerifyFail, Retry, NextRecord, GoTo, Finish

(* The last transfer of the verification: all of the record is in the      *)
(* memory, and nothing else has changed there.                             *)
LEMMA RecordLoaded ==
  ASSUME DInv, dl_pc = "verify", Matches, ~(done + ThisChunk < Len(aligned))
  PROVE  mem = Image(pos)
<1>1. Writing
  BY DEF Writing
<1>2. pos \in Nat \ {0} /\ pos - 1 \in Nat /\ (pos - 1) + 1 = pos
  BY StateFacts
<1>3. ASSUME NEW a \in Addresses PROVE mem[a] = Image(pos)[a]
  <2>1. CASE InBlock(a)
    <3>1. a \in RoundDown(dest) .. Here + ThisChunk - 1
      <4>1. /\ /\ Here = RoundDown(dest) + done /\ RoundDown(dest) \in Nat
            /\ done \in Nat
            /\ ThisChunk \in Nat /\ Len(aligned) \in Nat
        BY <1>1, WriteFacts DEF Here
      <4>2. a \in RoundDown(dest) .. RoundDown(dest) + Len(aligned) - 1
        BY <2>1 DEF InBlock
      <4> QED
        BY <4>1, <4>2
    <3>2. mem[a] = ByteAt(a)
      BY <3>1, VerifiedSoFar
    <3> QED
      BY <1>1, <2>1, <3>2 DEF DInv, BlockInv
  <2>2. CASE ~InBlock(a)
    <3>1. ~Covers(pos, a)
      BY <1>1, <2>2, WriteFacts
    <3>2. mem[a] = Image(pos - 1)[a]
      BY <3>1 DEF DInv, OthersKept
    <3>3. Image(pos)[a] = Image(pos - 1)[a]
      BY <1>1, <1>2, <3>1, WriteFacts, StateFacts, ImageStep
    <3> QED
      BY <3>2, <3>3
  <2> QED
    BY <2>1, <2>2
<1>4. /\ mem = [a \in Addresses |-> mem[a]]
      /\ Image(pos) = [a \in Addresses |-> Image(pos)[a]]
  <2>1. pos \in 0 .. Len(blob)
    BY <1>1, WriteFacts, StateFacts
  <2> QED
    BY <2>1, StateFacts, ImageIs DEF DInv, TypeOK
<1> QED
  BY <1>3, <1>4

(* An address record asks for no byte. *)
LEMMA MoveLoads ==
  ASSUME DInv, pos \in 1 .. Len(blob), Rec.type \in AddressTypes
  PROVE  Image(pos) = Image(pos - 1)
<1>1. /\ pos \in Nat \ {0} /\ pos - 1 \in Nat /\ (pos - 1) + 1 = pos
      /\ blob \in Blobs /\ pos \in 0 .. Len(blob) /\ pos - 1 \in 0 .. Len(blob)
  BY StateFacts
<1>2. ASSUME NEW a \in Addresses PROVE Image(pos)[a] = Image(pos - 1)[a]
  <2>1. ~Covers(pos, a)
    BY DEF Covers, CoversIn, Rec, AddressTypes
  <2> QED
    BY <1>1, <2>1, ImageStep
<1>3. /\ Image(pos) = [a \in Addresses |-> Image(pos)[a]]
      /\ Image(pos - 1) = [a \in Addresses |-> Image(pos - 1)[a]]
  BY <1>1, ImageIs
<1> QED
  BY <1>2, <1>3

(* The image before the next record is that up to this one. *)
LEMMA ImageNext ==
  ASSUME blob' = blob, NEW n \in Nat, pos' - 1 = n
  PROVE  Image(pos - 1)' = Image(n)
  BY DEF Image, Covers, CoversIn

(* After either kind of record the memory is what the records up to it ask *)
(* for.                                                                    *)
LEMMA PassLoads ==
  ASSUME DInv, DlNext, pos' # pos
  PROVE  dl_pc' = "record" /\ mem' = Image(pos - 1)'
<1>1. CASE Passes(AddressTypes) /\ AddressRecord
  <2>1. mem' = mem /\ dl_pc = "record" /\ Rec.type \in AddressTypes
    BY <1>1 DEF AddressRecord, NextRecord
  <2>2. mem = Image(pos - 1) /\ Image(pos) = Image(pos - 1)
    BY <1>1, <2>1, MoveLoads DEF DInv, LoadedInv, Passes
  <2>3. Image(pos - 1)' = Image(pos)
    <3>1. pos' - 1 = pos /\ pos \in Nat
      BY <1>1, StateFacts DEF Passes
    <3> QED
      BY <1>1, <3>1, ImageNext DEF Passes
  <2> QED
    BY <1>1, <2>1, <2>2, <2>3 DEF Passes
<1>2. CASE /\ Passes({"data"}) /\ mem' = mem /\ dl_pc = "verify"
           /\ Matches /\ ~(done + ThisChunk < Len(aligned))
  <2>1. mem = Image(pos)
    BY <1>2, RecordLoaded
  <2>2. Image(pos - 1)' = Image(pos)
    <3>1. pos' - 1 = pos /\ pos \in Nat
      BY <1>2, StateFacts DEF Passes
    <3> QED
      BY <1>2, <3>1, ImageNext DEF Passes
  <2> QED
    BY <1>2, <2>1, <2>2 DEF Passes
<1> QED
  BY <1>1, <1>2, Stepwise
     DEF Preamble, PowerUp, StopAtRecord, DataRecord, parseVars, addrVars

(* No write reaches another byte than the record's. *)
LEMMA NextOthers == DInv /\ DlNext => OthersKept'
<1> SUFFICES ASSUME DInv, DlNext, NEW a \in Addresses
             PROVE  mem'[a] = Image(pos - 1)'[a] \/ (pos <= Len(blob) /\ Covers(pos, a))'
  BY DEF OthersKept
<1>0. mem[a] = Image(pos - 1)[a] \/ (pos <= Len(blob) /\ Covers(pos, a))
  BY DEF DInv, OthersKept
<1>1. CASE pos' # pos
  BY <1>1, PassLoads
<1>2. CASE pos' = pos
  <2>1. blob' = blob
    BY Stepwise, <1>2
       DEF Passes, Preamble, PowerUp, StopAtRecord, DataRecord, parseVars, addrVars
  <2>2. /\ Image(pos - 1)' = Image(pos - 1)
        /\ (pos <= Len(blob) /\ Covers(pos, a))'
             = (pos <= Len(blob) /\ Covers(pos, a))
    <3>1. pos - 1 \in Nat
      BY StateFacts
    <3>2. Image(pos - 1)' = Image(pos - 1)
      BY <1>2, <2>1, <3>1, ImageNext
    <3> QED
      BY <1>2, <2>1, <3>2 DEF Covers, CoversIn
  <2>3. CASE mem' = mem
    BY <1>0, <2>2, <2>3
  <2>4. CASE WriteChunk
    <3>1. Writing
      BY <2>4 DEF WriteChunk, Writing
    <3>2. CASE mem'[a] = mem[a]
      BY <1>0, <2>2, <3>2
    <3>3. CASE mem'[a] # mem[a]
      <4>1. mem'[a] = Image(pos)[a]
        <5>1. Reached(a) /\ mem'[a] = ByteFor(a)
          BY <2>4, <3>3 DEF WriteChunk, Landed
        <5>2. InBlock(a) /\ ByteFor(a) = ByteAt(a)
          BY <3>1, <5>1, ReachedIs
        <5> QED
          BY <3>1, <5>1, <5>2 DEF DInv, BlockInv
      <4>2. /\ pos \in 1 .. Len(blob) /\ pos \in Nat /\ pos - 1 \in Nat
            /\ (pos - 1) + 1 = pos /\ Len(blob) \in Nat
        BY <3>1, WriteFacts, StateFacts
      <4>3. Covers(pos, a) \/ Image(pos)[a] = Image(pos - 1)[a]
        BY <4>2, StateFacts, ImageStep
      <4> QED
        BY <2>2, <4>1, <4>2, <4>3
    <3> QED
      BY <3>2, <3>3
  <2> QED
    BY <2>3, <2>4
       DEF DlNext, Preamble, PowerUp, StopAtRecord, AddressRecord, DataRecord,
           WriteChunk, VerifyChunk, VerifyFail
<1> QED
  BY <1>1, <1>2

(* Going on to the next record means that this one is loaded. *)
LEMMA NextLoaded == DInv /\ DlNext => LoadedInv'
<1> SUFFICES ASSUME DInv, DlNext,
                    dl_pc' \in {"preamble", "power_up", "record"} \/ dl_ret' = "ok"
             PROVE  mem' = Image(pos - 1)'
  BY DEF LoadedInv
<1>1. CASE pos' # pos
  BY <1>1, PassLoads
<1>2. CASE pos' = pos
  <2>1. /\ dl_pc \in {"preamble", "power_up", "record"} /\ mem' = mem /\ blob' = blob
    BY <1>2, Stepwise
       DEF DInv, ResultInv, Passes, Preamble, PowerUp, StopAtRecord, DataRecord,
           WriteChunk, VerifyChunk, VerifyFail, Retry, GoTo, Finish, parseVars, addrVars,
           NextRecord
  <2>2. mem = Image(pos - 1)
    BY <2>1 DEF DInv, LoadedInv
  <2>3. Image(pos - 1)' = Image(pos - 1)
    BY <1>2, <2>1, ImageNext, StateFacts
  <2> QED
    BY <2>1, <2>2, <2>3
<1> QED
  BY <1>1, <1>2

(* The record at which the parser stops with bytes left is the first that  *)
(* says that it is the last.                                               *)
LEMMA CountedIs ==
  ASSUME DInv, dl_pc = "record", AtEnd, remaining >= 4
  PROVE  Counted = pos - 1
<1> DEFINE ends == {i \in 1 .. Len(blob) : blob[i].type = "end" \/ blob[i].len = 0}
           Least(i) == i \in ends /\ \A j \in ends : i <= j
<1>1. pos \in 1 .. Len(blob) /\ pos \in Nat
  BY RecordIsThere, StateFacts DEF InLoop
<1>2. pos \in ends
  BY <1>1 DEF AtEnd, Rec
<1>3. \A j \in ends : j \in Nat /\ pos <= j
  <2> SUFFICES ASSUME NEW j \in ends, j < pos PROVE FALSE
    BY <1>1
  <2>1. j \in 1 .. pos - 1
    BY <1>1
  <2> QED
    BY <2>1 DEF DInv, ParseInv
<1>4. Counted = (CHOOSE i \in ends : \A j \in ends : i <= j) - 1
  BY <1>2 DEF Counted, CountedOf
<1> HIDE DEF ends
<1>5. (CHOOSE i \in ends : \A j \in ends : i <= j) = pos
  <2>1. \A i \in ends : (\A j \in ends : i <= j) => i = pos
    BY <1>1, <1>2, <1>3
  <2> QED
    BY <1>2, <1>3, <2>1
<1> QED
  BY <1>4, <1>5

(* Success means that the parser has come to the last record. *)
LEMMA NextWhole == DInv /\ DlNext => WholeUnlessCut'
<1> SUFFICES ASSUME DInv, DlNext, dl_ret' = "ok", ~(remaining' < 4)
             PROVE  mem' = Image(Counted)'
  BY DEF WholeUnlessCut
<1>1. /\ dl_pc = "record" /\ AtEnd
      /\ UNCHANGED <<mem, blob, remaining, pos>>
  BY DEF DInv, ResultInv, DlNext, Preamble, PowerUp, StopAtRecord,
         AddressRecord, DataRecord, WriteChunk, VerifyChunk, VerifyFail, Retry,
         GoTo, Finish, parseVars, addrVars, NextRecord
<1>2. remaining >= 4
  BY <1>1, StateFacts
<1>3. mem = Image(pos - 1) /\ Counted = pos - 1
  BY <1>1, <1>2, CountedIs DEF DInv, LoadedInv
<1>4. Image(Counted)' = Image(Counted)
  BY <1>1 DEF Image, Covers, CoversIn, Counted, CountedOf
<1> QED
  BY <1>1, <1>3, <1>4

(* Every step of the download, and stuttering, keeps its invariant. *)
LEMMA NextDInv == DInv /\ [DlNext]_dlVars => DInv'
<1>1. DInv /\ DlNext => DInv'
  BY NextTypeOK, NextParse, NextRecordInv, NextRest, NextBlock, NextVerify,
     NextOthers, NextLoaded, NextWhole
     DEF DInv
<1>2. DInv /\ UNCHANGED dlVars => DInv'
  <2> SUFFICES ASSUME DInv, UNCHANGED dlVars PROVE DInv'
    OBVIOUS
  <2> USE DEF dlVars, parseVars, addrVars, writeVars
  <2>1. pos \in Nat /\ pos - 1 \in Nat
    BY StateFacts
  <2>2. /\ Image(pos - 1)' = Image(pos - 1) /\ Image(pos)' = Image(pos)
        /\ BaseBefore(pos)' = BaseBefore(pos)
    BY <2>1 DEF Image, Covers, CoversIn, BaseBefore
  <2>3. TypeOK' /\ RestInv' /\ ResultInv' /\ LoadedInv'
    BY <2>2 DEF DInv, TypeOK, RestInv, ResultInv, LoadedInv
  <2>4. ParseInv'
    BY <2>2, SameBase DEF DInv, ParseInv, InLoop
  <2>5. RecordInv'
    BY SameBase DEF DInv, RecordInv, Writing, Rec
  <2>6. BlockInv'
    BY <2>2 DEF DInv, BlockInv, Writing, InBlock, ByteAt
  <2>7. VerifyInv'
    BY DEF DInv, VerifyInv, Here, ByteAt
  <2>8. OthersKept'
    BY <2>2 DEF DInv, OthersKept, Covers, CoversIn
  <2>9. WholeUnlessCut'
    <3>1. Image(Counted)' = Image(Counted)
      BY DEF Image, Covers, CoversIn, Counted, CountedOf
    <3> QED
      BY <3>1 DEF DInv, WholeUnlessCut
  <2> QED
    BY <2>3, <2>4, <2>5, <2>6, <2>7, <2>8, <2>9 DEF DInv
<1> QED
  BY <1>1, <1>2

(* The invariant of the download holds at first. *)
LEMMA InitDInv == Init => DInv
<1> SUFFICES ASSUME Init PROVE DInv
  OBVIOUS
<1>1. /\ blob \in Blobs /\ Len(blob) \in Nat /\ remaining \in FileLens[blob]
      /\ remaining \in Nat
  BY BlobFacts DEF Init
<1>2. mem = Image(0) /\ pos - 1 = 0
  <2>1. \A a \in Addresses : {i \in 1 .. 0 : Covers(i, a)} = {}
    OBVIOUS
  <2>2. 0 \in 0 .. Len(blob)
    BY <1>1
  <2>3. Image(0) = [a \in Addresses |->
                      LET by == {i \in 1 .. 0 : Covers(i, a)}
                      IN  IF by = {} THEN Untouched
                          ELSE <<LastOf(by), a - First[blob][LastOf(by)] + 1>>]
    BY <1>1, <2>2, ImageIs
  <2> QED
    BY <2>1, <2>3 DEF Init
<1>3. TypeOK
  <2>1. BufSize \in Nat /\ WriteRetries \in Nat
    BY DownloadAssumption
  <2>2. mem \in [Addresses -> {<<0, 0>>}]
    BY DEF Init, Untouched
  <2>3. mem \in [Addresses -> ({0} \X {0, 1}) \cup (Nat \X Nat)]
    BY <2>2
  <2> QED
    BY <1>1, <2>1, <2>3 DEF Init, TypeOK, AddressTypes
<1>4. ParseInv
  <2>1. BaseBefore(1) = 0
    BY DEF BaseBefore
  <2>2. Base = 0
    BY DownloadAssumption DEF Init, Base
  <2> QED
    BY <1>1, <2>1, <2>2 DEF Init, ParseInv, InLoop
<1>5. RecordInv /\ BlockInv /\ VerifyInv /\ RestInv /\ ResultInv /\ LoadedInv
  BY <1>2
     DEF Init, RecordInv, BlockInv, VerifyInv, RestInv, ResultInv, LoadedInv,
         Writing
<1>6. OthersKept /\ WholeUnlessCut
  BY <1>2 DEF Init, OthersKept, WholeUnlessCut
<1> QED
  BY <1>3, <1>4, <1>5, <1>6 DEF DInv
-----------------------------------------------------------------------------
(* A well-formed blob. *)

(* The bytes before a record are no more than those of the whole blob. *)
LEMMA BytesGrow ==
  ASSUME NEW b \in Blobs, NEW i \in 0 .. Len(b)
  PROVE  BytesBefore(b)[i] <= BytesBefore(b)[Len(b)]
<1> DEFINE n == Len(b)
           B == BytesBefore(b)
           S == {k \in 0 .. n : B[n - k] <= B[n]}
<1>1. n \in Nat /\ B \in [0 .. n -> Nat]
  BY BlobFacts, BytesBeforeIs
<1>2. \A k \in 1 .. n : B[k] = B[k - 1] + 4 + b[k].len /\ b[k].len \in Nat
  BY BytesBeforeIs, BlobFacts, RecordFields
<1> HIDE DEF B
<1>3. 0 \in S
  BY <1>1
<1>4. ASSUME NEW k \in 1 .. n, k - 1 \in S PROVE k \in S
  <2> DEFINE m == n - (k - 1)
  <2>1. m \in 1 .. n /\ m - 1 = n - k /\ m - 1 \in 0 .. n /\ k \in 0 .. n
    BY <1>1
  <2>2. B[m] <= B[n]
    BY <1>4
  <2> HIDE DEF m
  <2>3. B[m] = B[m - 1] + 4 + b[m].len /\ b[m].len \in Nat
    BY <1>2, <2>1
  <2>4. B[m] \in Nat /\ B[m - 1] \in Nat /\ B[n] \in Nat
    BY <1>1, <2>1
  <2>5. B[n - k] <= B[n]
    BY <2>1, <2>2, <2>3, <2>4
  <2> QED
    BY <2>1, <2>5
<1>5. n - i \in S
  <2> HIDE DEF S
  <2>1. \A k \in 0 .. n : k \in S
    BY <1>1, <1>3, <1>4, UpTo
  <2>2. n - i \in 0 .. n
    BY <1>1
  <2> QED
    BY <2>1, <2>2
<1>6. n - (n - i) = i
  BY <1>1
<1> QED
  BY <1>5, <1>6 DEF B

(* A record that says it is the last, with none before it that does, is    *)
(* behind all that count; without one all count.                           *)
LEMMA CountedIsHere ==
  ASSUME NEW b \in Blobs, NEW n \in 1 .. Len(b) + 1,
         \A i \in 1 .. n - 1 : b[i].type # "end" /\ b[i].len # 0,
         n <= Len(b) => b[n].type = "end" \/ b[n].len = 0
  PROVE  CountedOf(b) = n - 1
<1> DEFINE ends == {i \in 1 .. Len(b) : b[i].type = "end" \/ b[i].len = 0}
<1>1. Len(b) \in Nat /\ n \in Nat
  BY BlobFacts
<1>2. \A j \in ends : j \in Nat /\ n <= j
  <2> SUFFICES ASSUME NEW j \in ends, j < n PROVE FALSE
    BY <1>1
  <2>1. j \in 1 .. n - 1
    BY <1>1
  <2> QED
    BY <2>1
<1>3. CASE n = Len(b) + 1
  <2>1. ends = {}
    BY <1>1, <1>2, <1>3
  <2> QED
    BY <1>1, <1>3, <2>1 DEF CountedOf
<1>4. CASE n # Len(b) + 1
  <2>1. n \in ends
    BY <1>1, <1>4
  <2>2. CountedOf(b) = (CHOOSE i \in ends : \A j \in ends : i <= j) - 1
    BY <2>1 DEF CountedOf
  <2> HIDE DEF ends
  <2>3. \A i \in ends : (\A j \in ends : i <= j) => i = n
    BY <1>1, <1>2, <2>1
  <2>4. (CHOOSE i \in ends : \A j \in ends : i <= j) = n
    BY <1>2, <2>1, <2>3
  <2> QED
    BY <2>2, <2>4
<1> QED
  BY <1>3, <1>4

(* A record that does not say so, with none before it that does, counts. *)
LEMMA ItCounts ==
  ASSUME NEW b \in Blobs, NEW n \in 1 .. Len(b),
         \A i \in 1 .. n : b[i].type # "end" /\ b[i].len # 0
  PROVE  n \in 1 .. CountedOf(b)
<1> DEFINE ends == {i \in 1 .. Len(b) : b[i].type = "end" \/ b[i].len = 0}
<1>1. Len(b) \in Nat /\ n \in Nat
  BY BlobFacts
<1>2. CASE ends = {}
  BY <1>1, <1>2 DEF CountedOf
<1>3. CASE ends # {}
  <2>1. ends \in SUBSET Nat
    BY <1>1
  <2>2. CountedOf(b) = (CHOOSE i \in ends : \A j \in ends : i <= j) - 1
    BY <1>3 DEF CountedOf
  <2>3. \A j \in ends : j > n
    BY <1>1
  <2> HIDE DEF ends
  <2>4. \E i \in ends : \A j \in ends : i <= j
    BY <1>3, <2>1, LeastWF
  <2> DEFINE c == CHOOSE i \in ends : \A j \in ends : i <= j
  <2>5. c \in ends
    BY <2>4
  <2> HIDE DEF c
  <2>6. c \in Nat /\ c > n
    BY <2>1, <2>3, <2>5
  <2>7. CountedOf(b) = c - 1
    BY <2>2 DEF c
  <2> QED
    BY <1>1, <2>6, <2>7
<1> QED
  BY <1>2, <1>3

(* As long as a well-formed blob is parsed, the bytes that are left are    *)
(* just those of the records that are left.                                *)
WellInv ==
  WellFormed(blob) /\ (dl_pc = "power_up" \/ InLoop) =>
    remaining + BytesBefore(blob)[pos - 1] = BytesBefore(blob)[Len(blob)]

(* At a record of it the parser has no reason to complain. *)
LEMMA NotBad ==
  ASSUME DInv, WellInv, WellFormed(blob), dl_pc = "record"
  PROVE  ~(~AtEnd /\ BadRecord)
<1> SUFFICES ASSUME ~AtEnd, BadRecord PROVE FALSE
  OBVIOUS
<1>1. remaining >= 4 /\ Rec.len # 0 /\ Rec.type # "end"
  BY DEF AtEnd
<1>2. pos \in 1 .. Len(blob) /\ Rec \in Records /\ blob \in Blobs
  BY <1>1, RecordIsThere, StateFacts DEF InLoop
<1>3. pos \in 1 .. CountedOf(blob)
  <2>1. pos \in Nat /\ \A i \in 1 .. pos - 1 : blob[i].type # "end" /\ blob[i].len # 0
    BY StateFacts DEF DInv, ParseInv
  <2>2. \A i \in 1 .. pos : i \in 1 .. pos - 1 \/ i = pos
    BY <2>1
  <2>3. \A i \in 1 .. pos : blob[i].type # "end" /\ blob[i].len # 0
    BY <1>1, <2>1, <2>2 DEF Rec
  <2> QED
    BY <1>2, <2>3, ItCounts
<1>4. ~(Rec.len > remaining - 4)
  <2>1. remaining + BytesBefore(blob)[pos - 1] = BytesBefore(blob)[Len(blob)]
    BY DEF WellInv, InLoop
  <2>2. /\ BytesBefore(blob)[pos] = BytesBefore(blob)[pos - 1] + 4 + Rec.len
        /\ BytesBefore(blob) \in [0 .. Len(blob) -> Nat]
    BY <1>2, BytesBeforeIs DEF Rec
  <2>3. BytesBefore(blob)[pos] <= BytesBefore(blob)[Len(blob)]
    BY <1>2, BytesGrow
  <2>4. /\ pos \in 0 .. Len(blob) /\ pos - 1 \in 0 .. Len(blob)
        /\ Len(blob) \in 0 .. Len(blob)
    BY <1>2, StateFacts
  <2>5. /\ BytesBefore(blob)[pos] \in Nat /\ BytesBefore(blob)[pos - 1] \in Nat
        /\ BytesBefore(blob)[Len(blob)] \in Nat /\ Rec.len \in Nat /\ remaining \in Nat
    BY <1>2, <2>2, <2>4, StateFacts, RecordFields
  <2> QED
    BY <2>1, <2>2, <2>3, <2>5
<1>5. /\ Rec.type # "other"
      /\ Rec.type \in AddressTypes => Rec.len >= BaseLen[Rec.type]
      /\ Rec.type = "data" => WriteLen(First[blob][pos], Rec.len) <= BufSize
  BY <1>3 DEF WellFormed, Rec
<1>6. Rec.type \in AddressTypes => LeastLen(Rec.type) = BaseLen[Rec.type]
  BY DEF AddressTypes, LeastLen, BaseLen
<1>7. Rec.type \in AddressTypes => ~(Rec.len < LeastLen(Rec.type))
  <2>1. Rec.len \in Nat
    BY <1>2, RecordFields
  <2>2. Rec.type \in AddressTypes => LeastLen(Rec.type) \in Nat
    BY DEF LeastLen
  <2> QED
    BY <1>5, <1>6, <2>1, <2>2
<1>8. Rec.type = "data" => ~(WriteLen(Base + Rec.addr, Rec.len) > BufSize)
  <2> SUFFICES ASSUME Rec.type = "data"
               PROVE  ~(WriteLen(Base + Rec.addr, Rec.len) > BufSize)
    OBVIOUS
  <2>1. First[blob][pos] = Base + Rec.addr
    BY <1>2, FirstIs DEF DInv, ParseInv, Rec
  <2>2. Base + Rec.addr \in Nat /\ Rec.len \in Nat
    BY <1>2, StateFacts, RecordFields
  <2>3. WriteLen(Base + Rec.addr, Rec.len) \in Nat /\ BufSize \in Nat
    BY <2>2, BlockCovers, DownloadAssumption
  <2> QED
    BY <1>5, <2>1, <2>3
<1> QED
  BY <1>4, <1>5, <1>7, <1>8 DEF BadRecord

(* Where it stops, all that counts is behind it. *)
LEMMA StopsAtLast ==
  ASSUME DInv, WellInv, WellFormed(blob), dl_pc = "record", AtEnd
  PROVE  Counted = pos - 1
<1>1. CASE remaining >= 4
  BY <1>1, CountedIs
<1>2. CASE ~(remaining >= 4)
  <2>1. remaining + BytesBefore(blob)[pos - 1] = BytesBefore(blob)[Len(blob)]
    BY DEF WellInv, InLoop
  <2>2. blob \in Blobs /\ pos \in 1 .. Len(blob) + 1 /\ Len(blob) \in Nat
    BY StateFacts DEF DInv, TypeOK
  <2>3. pos = Len(blob) + 1
    <3> SUFFICES ASSUME pos \in 1 .. Len(blob) PROVE FALSE
      BY <2>2
    <3>1. /\ BytesBefore(blob)[pos] = BytesBefore(blob)[pos - 1] + 4 + blob[pos].len
          /\ BytesBefore(blob) \in [0 .. Len(blob) -> Nat]
      BY <2>2, BytesBeforeIs
    <3>2. BytesBefore(blob)[pos] <= BytesBefore(blob)[Len(blob)]
      BY <2>2, BytesGrow
    <3>3. pos - 1 \in 0 .. Len(blob) /\ Len(blob) \in 0 .. Len(blob) /\ blob[pos] \in Records
      BY <2>2, StateFacts
    <3>4. /\ BytesBefore(blob)[pos - 1] \in Nat /\ blob[pos].len \in Nat
          /\ BytesBefore(blob)[Len(blob)] \in Nat /\ remaining \in Nat
      BY <3>1, <3>3, RecordFields, StateFacts
    <3> QED
      BY <1>2, <2>1, <3>1, <3>2, <3>4
  <2>4. \A i \in 1 .. pos - 1 : blob[i].type # "end" /\ blob[i].len # 0
    BY DEF DInv, ParseInv
  <2>5. CountedOf(blob) = pos - 1
    <3>1. ~(pos <= Len(blob))
      BY <2>2, <2>3
    <3> QED
      BY <2>2, <2>4, <3>1, CountedIsHere
  <2> QED
    BY <2>5 DEF Counted
<1> QED
  BY <1>1, <1>2

(* All bytes of the file are there when the first record is reached. *)
LEMMA PreambleFits ==
  ASSUME DInv, WellFormed(blob), dl_pc = "preamble"
  PROVE  /\ remaining = BytesBefore(blob)[Len(blob)] /\ pos = 1
         /\ BytesBefore(blob)[0] = VersionLen + 2
         /\ remaining >= VersionLen + 2
<1>1. blob \in Blobs /\ remaining \in FileLens[blob] /\ pos = 1 /\ Len(blob) \in Nat
  BY StateFacts DEF DInv, ParseInv
<1>2. remaining = BytesBefore(blob)[Len(blob)]
  BY <1>1 DEF WellFormed, BlobBytes
<1>3. BytesBefore(blob)[0] = VersionLen + 2
  BY <1>1, BytesBeforeIs
<1>4. BytesBefore(blob)[0] <= BytesBefore(blob)[Len(blob)]
  BY <1>1, BytesGrow
<1>5. VersionLen \in Nat /\ remaining \in Nat
  BY StateFacts, DownloadAssumption
<1> QED
  BY <1>1, <1>2, <1>3, <1>4, <1>5

(* Every step of the download keeps what is said of a well-formed blob. *)
LEMMA NextWell ==
  ASSUME DInv, WellInv, WellFormedLoads, [DlNext]_dlVars
  PROVE  WellInv' /\ WellFormedLoads'
<1>0. CASE UNCHANGED dlVars
  <2>1. Image(Counted)' = Image(Counted)
    BY <1>0 DEF dlVars, parseVars, addrVars, Image, Covers, CoversIn, Counted, CountedOf
  <2> QED
    BY <1>0, <2>1 DEF dlVars, parseVars, addrVars, WellInv, WellFormedLoads, InLoop
<1> SUFFICES ASSUME DlNext, WellFormed(blob)
             PROVE  WellInv' /\ WellFormedLoads'
  <2>1. DlNext => blob' = blob
    BY DEF DlNext, Preamble, PowerUp, StopAtRecord, AddressRecord, DataRecord,
       WriteChunk, VerifyChunk, VerifyFail, Retry, Advance, parseVars, addrVars
  <2>2. DlNext /\ ~WellFormed(blob) => ~WellFormed(blob')
    BY <2>1
  <2> QED
    BY <1>0, <2>2 DEF WellInv, WellFormedLoads
<1>1. dl_ret = "none" /\ blob \in Blobs /\ pos \in 1 .. Len(blob) + 1
  <2>1. dl_pc # "done"
    BY DEF DlNext, Preamble, PowerUp, StopAtRecord, AddressRecord, DataRecord,
       WriteChunk, VerifyChunk, VerifyFail, NextRecord
  <2> QED
    BY <2>1, StateFacts DEF DInv, ResultInv, TypeOK
<1>2. CASE Preamble
  <2>1. /\ remaining = BytesBefore(blob)[Len(blob)] /\ pos = 1
        /\ BytesBefore(blob)[0] = VersionLen + 2
        /\ remaining >= VersionLen + 2
    BY <1>2, PreambleFits DEF Preamble
  <2>2. /\ remaining' = remaining - VersionLen - 2 /\ dl_ret' = dl_ret
        /\ UNCHANGED <<blob, pos>>
    BY <1>2, <2>1 DEF Preamble, GoTo
  <2>3. remaining' + BytesBefore(blob)[0] = BytesBefore(blob)[Len(blob)]
    <3>1. remaining \in Nat /\ VersionLen \in Nat
      BY StateFacts, DownloadAssumption
    <3>2. remaining' + (VersionLen + 2) = remaining
      BY <2>2, <3>1
    <3> QED
      BY <2>1, <3>2
  <2>4. pos' - 1 = 0
    BY <2>1, <2>2
  <2> QED
    BY <1>1, <2>2, <2>3, <2>4 DEF WellInv, WellFormedLoads
<1>3. ASSUME UNCHANGED parseVars, dl_pc = "power_up" \/ InLoop,
             dl_ret' \notin {"ENOENT", "EINVAL", "ok"}
      PROVE  WellInv' /\ WellFormedLoads'
  BY <1>3 DEF parseVars, addrVars, WellInv, WellFormedLoads
<1>4. CASE StopAtRecord
  <2>1. dl_pc = "record" /\ UNCHANGED <<mem, parseVars>> /\ dl_pc' = "done"
    BY <1>4 DEF StopAtRecord, Finish
  <2>2. AtEnd /\ dl_ret' = "ok"
    BY <1>4, <2>1, NotBad DEF StopAtRecord, Finish
  <2>3. mem = Image(pos - 1) /\ Counted = pos - 1
    BY <2>1, <2>2, StopsAtLast DEF DInv, LoadedInv
  <2>4. Image(Counted)' = Image(Counted)
    BY <2>1 DEF parseVars, addrVars, Image, Covers, CoversIn, Counted, CountedOf
  <2> QED
    BY <2>1, <2>2, <2>3, <2>4 DEF WellInv, WellFormedLoads, InLoop
<1>5. ASSUME NEW types, Passes(types) PROVE WellInv' /\ WellFormedLoads'
  <2>1. /\ pos \in 1 .. Len(blob) /\ Rec \in Records /\ InLoop
        /\ blob' = blob /\ pos' = pos + 1 /\ remaining' = remaining - 4 - Rec.len
        /\ dl_ret' = dl_ret
    BY <1>5 DEF Passes
  <2>2. remaining + BytesBefore(blob)[pos - 1] = BytesBefore(blob)[Len(blob)]
    BY <2>1 DEF WellInv
  <2>3. /\ BytesBefore(blob)[pos] = BytesBefore(blob)[pos - 1] + 4 + Rec.len
        /\ BytesBefore(blob) \in [0 .. Len(blob) -> Nat]
    BY <1>1, <2>1, BytesBeforeIs DEF Rec
  <2>4. /\ pos - 1 \in 0 .. Len(blob) /\ pos' - 1 = pos
        /\ remaining \in Nat /\ Rec.len \in Nat
    BY <2>1, StateFacts, RecordFields
  <2>5. BytesBefore(blob)[pos - 1] \in Nat
    BY <2>3, <2>4
  <2>6. remaining' + BytesBefore(blob)[pos] = BytesBefore(blob)[Len(blob)]
    BY <2>1, <2>2, <2>3, <2>4, <2>5
  <2> QED
    BY <1>1, <2>1, <2>4, <2>6 DEF WellInv, WellFormedLoads
<1>6. CASE PowerUp
  BY <1>1, <1>3, <1>6 DEF PowerUp, GoTo, Finish
<1>7. CASE DataRecord
  BY <1>1, <1>3, <1>7 DEF DataRecord, GoTo, Finish, NextRecord, InLoop
<1>8. CASE WriteChunk /\ UNCHANGED parseVars
  BY <1>1, <1>3, <1>8 DEF WriteChunk, Retry, GoTo, Finish, InLoop
<1>9. CASE VerifyChunk /\ UNCHANGED <<parseVars, dl_pc>>
  BY <1>1, <1>3, <1>9 DEF VerifyChunk, InLoop
<1>10. CASE VerifyFail /\ UNCHANGED parseVars
  BY <1>1, <1>3, <1>10 DEF VerifyFail, Retry, GoTo, Finish, InLoop
<1> QED
  BY <1>2, <1>4, <1>5, <1>6, <1>7, <1>8, <1>9, <1>10, Stepwise

-----------------------------------------------------------------------------
(* open around the download. *)

All == {Indices[i] : i \in 1 .. 4}
AfterDownload ==
  {"wait_ready", "read_base", "zero", "wait_awake", "host_ready", "toggle", "running"}
AfterZero == {"wait_awake", "host_ready", "toggle", "running"}

OpenTypes ==
  /\ open_pc \in {"probe", "download", "failed"} \cup AfterDownload
  /\ open_ret \in {"none", "ENODEV", "ENOENT", "EINVAL", "EIO", "ETIMEDOUT"}
  /\ probe \in 0 .. Len(Probes)
  /\ open_pc = "probe" => probe < Len(Probes)
  /\ polls \in 0 .. PollRetries - 1
  /\ written \in 0 .. 4
  /\ write_ret \in {"ok", "EIO"}
  /\ host_ctrl \in SUBSET Bits
  /\ host_ctrl_cache \in SUBSET Bits
  /\ zeroed \subseteq All
  /\ {fw_rdy, bt_awake, base_published, bt_live, edge} \subseteq BOOLEAN

(* The order of open's steps: the image is loaded before the BT core is    *)
(* waited for, ...                                                         *)
LoadedFirst == open_pc \in AfterDownload => dl_ret = "ok"

(* ... all four indices are zero when `ret' says so, ... *)
ZeroedSoFar ==
  /\ open_pc \in {"probe", "download", "wait_ready", "read_base"} =>
       written = 0 /\ write_ret = "ok"
  /\ open_pc = "zero" /\ write_ret = "ok" =>
       {Indices[i] : i \in 1 .. written} \subseteq zeroed
  /\ open_pc \in AfterZero => zeroed = All

(* ... and the cache is that of the register from the first call on.       *)
CacheOfRegister ==
  /\ open_pc \in ({"probe", "download"} \cup AfterDownload) \ {"toggle", "running"} =>
       host_ctrl_cache = {} /\ ~edge
  /\ open_pc = "toggle" => host_ctrl_cache = {"SW_RDY"} /\ host_ctrl = {"SW_RDY"}

EdgeWhenReady == edge => zeroed = All /\ dl_ret = "ok"

OInv ==
  /\ DInv
  /\ OpenTypes /\ LoadedFirst /\ ZeroedSoFar /\ CacheOfRegister /\ EdgeWhenReady
  /\ bt_live => edge
  /\ HandsOver

(* The index registers, one after the other. *)
LEMMA IndicesAre ==
  /\ All = {"h2b_in", "h2b_out", "b2h_in", "b2h_out"}
  /\ \A n \in 0 .. 3 :
       {Indices[i] : i \in 1 .. n + 1} = {Indices[i] : i \in 1 .. n} \cup {Indices[n + 1]}
<1>1. All = {"h2b_in", "h2b_out", "b2h_in", "b2h_out"}
  BY DEF All, Indices
<1>2. ASSUME NEW n \in 0 .. 3
      PROVE  {Indices[i] : i \in 1 .. n + 1} =
               {Indices[i] : i \in 1 .. n} \cup {Indices[n + 1]}
  <2>1. \A i \in 1 .. n + 1 : i \in 1 .. n \/ i = n + 1
    OBVIOUS
  <2>2. \A i \in 1 .. n : i \in 1 .. n + 1
    OBVIOUS
  <2> QED
    BY <2>1, <2>2
<1> QED
  BY <1>1, <1>2

(* The type invariant of open follows. *)
LEMMA OpenTypesMean == DInv /\ OpenTypes => OpenTypeOK
  BY DEF DInv, OpenTypes, OpenTypeOK, AfterDownload, All

(* The invariant holds when open is called. *)
LEMMA InitOInv == OpenInit => OInv
<1> SUFFICES ASSUME OpenInit PROVE OInv
  OBVIOUS
<1>1. DInv
  BY InitDInv DEF OpenInit
<1>2. OpenTypes
  <2>1. Len(Probes) \in Nat /\ 0 < Len(Probes) /\ 0 \in 0 .. PollRetries - 1
    <3>1. Len(Probes) \in Nat /\ Len(Probes) # 0
      BY OpenAssumption, EmptySeq
    <3>2. PollRetries \in Nat \ {0}
      BY OpenAssumption
    <3> HIDE OpenAssumption
    <3> QED
      BY <3>1, <3>2
  <2>2. host_ctrl \in SUBSET Bits /\ host_ctrl_cache \in SUBSET Bits
    BY DEF OpenInit
  <2>3. /\ zeroed \subseteq All
        /\ {fw_rdy, bt_awake, base_published, bt_live, edge} \subseteq BOOLEAN
    BY DEF OpenInit
  <2>4. /\ /\ open_pc = "probe" /\ open_ret = "none" /\ probe = 0 /\ polls = 0
        /\ written = 0
        /\ write_ret = "ok"
    BY DEF OpenInit
  <2> HIDE OpenAssumption
  <2> QED
    BY <2>1, <2>2, <2>3, <2>4 DEF OpenTypes
<1> QED
  BY <1>1, <1>2
     DEF OpenInit, OInv, LoadedFirst, ZeroedSoFar, CacheOfRegister,
         EdgeWhenReady, HandsOver, AfterDownload, AfterZero

(* open leaves the download alone, or does a step of it. *)
LEMMA NextODownload == OInv /\ OpenNext => DInv'
<1> SUFFICES ASSUME OInv, OpenNext PROVE DInv'
  OBVIOUS
<1>1. [DlNext]_dlVars
  BY DEF OpenNext, OpenStep, Probe, Download, Downloaded, Poll, WaitReady,
         ReadBase, ReadBaseFail, ZeroIndex, Zeroed, WaitAwake, SetHostReady,
         ToggleIntr, HostCtrlCall, BtCore
<1> QED
  BY <1>1, NextDInv DEF OInv

(* No step of open or of the BT core breaks open's types. *)
LEMMA NextOpenTypes == OInv /\ OpenNext => OpenTypes'
<1> SUFFICES ASSUME OInv, OpenNext PROVE OpenTypes'
  OBVIOUS
<1>0. OpenTypes /\ Len(Probes) \in Nat \ {0} /\ PollRetries \in Nat \ {0}
  BY OpenAssumption DEF OInv
<1> USE DEF OpenTypes, AfterDownload, GoOn, Fail, loopVars, regVars, btVars
<1>1. CASE Probe
  BY <1>0, <1>1 DEF Probe
<1>2. CASE Download
  BY <1>0, <1>2 DEF Download
<1>3. CASE Downloaded
  <2>1. dl_ret \in {"ok", "ENOENT", "EINVAL", "EIO"}
    BY <1>3 DEF Downloaded, OInv, DInv, ResultInv, TypeOK
  <2> QED
    BY <1>0, <1>3, <2>1 DEF Downloaded
<1>4. CASE WaitReady \/ ReadBase \/ WaitAwake
  BY <1>0, <1>4 DEF WaitReady, ReadBase, WaitAwake, Poll, Turns
<1>5. CASE ReadBaseFail
  BY <1>0, <1>5 DEF ReadBaseFail
<1>6. CASE ZeroIndex
  <2>1. Indices[written + 1] \in All /\ written' \in 0 .. 4
    BY <1>0, <1>6 DEF ZeroIndex, All
  <2> QED
    BY <1>0, <1>6, <2>1 DEF ZeroIndex, WriteRet
<1>7. CASE Zeroed
  BY <1>0, <1>7 DEF Zeroed
<1>8. CASE SetHostReady
  BY <1>0, <1>8 DEF SetHostReady, HostCtrlCall, Register, Bits
<1>9. CASE ToggleIntr
  BY <1>0, <1>9 DEF ToggleIntr, HostCtrlCall, Register, Toggled, Bits
<1>10. CASE BtCore
  BY <1>0, <1>10 DEF BtCore
<1> QED
  BY <1>1, <1>2, <1>3, <1>4, <1>5, <1>6, <1>7, <1>8, <1>9, <1>10
     DEF OpenNext, OpenStep

(* What has been loaded stays loaded. *)
LEMMA NextLoadedFirst ==
  OInv /\ OpenNext => LoadedFirst' /\ (dl_ret = "ok" => dl_ret' = "ok")
<1> SUFFICES ASSUME OInv, OpenNext PROVE LoadedFirst' /\ (dl_ret = "ok" => dl_ret' = "ok")
  OBVIOUS
<1> USE DEF GoOn, Fail, AfterDownload, dlVars
<1>0. LoadedFirst /\ (dl_ret = "ok" => dl_pc = "done")
  BY DEF OInv, DInv, ResultInv, TypeOK
<1>1. CASE Download
  BY <1>0, <1>1
     DEF Download, LoadedFirst, DlNext, Preamble, PowerUp, StopAtRecord,
         AddressRecord, DataRecord, NextRecord, WriteChunk, VerifyChunk,
         VerifyFail
<1>2. CASE ~Download
  BY <1>0, <1>2
     DEF LoadedFirst, OpenNext, OpenStep, Probe, Downloaded, Poll, WaitReady,
         ReadBase, ReadBaseFail, ZeroIndex, Zeroed, WaitAwake, SetHostReady,
         ToggleIntr, HostCtrlCall, BtCore
<1> QED
  BY <1>1, <1>2

(* The indices are zero when init_buffers returns 0, and stay so. *)
LEMMA NextZeroed == OInv /\ OpenNext => ZeroedSoFar' /\ (zeroed = All => zeroed' = All)
<1> SUFFICES ASSUME OInv, OpenNext PROVE ZeroedSoFar' /\ (zeroed = All => zeroed' = All)
  OBVIOUS
<1> USE DEF GoOn, Fail, AfterZero, loopVars
<1>0. ZeroedSoFar /\ zeroed \subseteq All /\ written \in 0 .. 4
  BY DEF OInv, OpenTypes
<1>1. CASE ZeroIndex
  <2>1. /\ open_pc = "zero" /\ open_pc' = "zero"
        /\ written \in 0 .. 3 /\ written' = written + 1
        /\ zeroed \subseteq zeroed'
        /\ write_ret' = "ok" => write_ret = "ok" /\ Indices[written + 1] \in zeroed'
    BY <1>0, <1>1 DEF ZeroIndex, WriteRet
  <2>2. zeroed' \subseteq All
    BY <1>1, NextOpenTypes DEF OpenTypes
  <2>3. write_ret' = "ok" => {Indices[i] : i \in 1 .. written'} \subseteq zeroed'
    <3>1. {Indices[i] : i \in 1 .. written + 1} =
            {Indices[i] : i \in 1 .. written} \cup {Indices[written + 1]}
      BY <2>1, IndicesAre
    <3> QED
      BY <1>0, <2>1, <3>1 DEF ZeroedSoFar
  <2> QED
    BY <2>1, <2>2, <2>3 DEF ZeroedSoFar
<1>2. CASE Zeroed
  <2>1. write_ret = "ok" => zeroed = All
    BY <1>0, <1>2 DEF Zeroed, ZeroedSoFar, All
  <2> QED
    BY <1>0, <1>2, <2>1 DEF Zeroed, ZeroedSoFar
<1>3. CASE ReadBase
  BY <1>0, <1>3 DEF ReadBase, Poll, ZeroedSoFar
<1>4. CASE ~(ZeroIndex \/ Zeroed \/ ReadBase)
  BY <1>0, <1>4
     DEF ZeroedSoFar, OpenNext, OpenStep, Probe, Download, Downloaded, Poll,
         WaitReady, ReadBaseFail, WaitAwake, SetHostReady, ToggleIntr,
         HostCtrlCall, BtCore
<1> QED
  BY <1>1, <1>2, <1>3, <1>4

(* The cache follows the register, and the first toggle is an edge. *)
LEMMA NextEdge ==
  OInv /\ OpenNext =>
    /\ CacheOfRegister' /\ EdgeWhenReady'
    /\ (bt_live => edge)' /\ HandsOver'
<1> SUFFICES ASSUME OInv, OpenNext
             PROVE  /\ CacheOfRegister' /\ EdgeWhenReady'
                    /\ (bt_live => edge)' /\ HandsOver'
  OBVIOUS
<1> USE DEF GoOn, Fail, AfterDownload, loopVars, regVars, btVars,
            CacheOfRegister, EdgeWhenReady, HandsOver
<1>0. /\ CacheOfRegister /\ EdgeWhenReady /\ (bt_live => edge)
      /\ HandsOver /\ edge \in BOOLEAN
  BY DEF OInv, OpenTypes
<1>1. (zeroed = All => zeroed' = All) /\ (dl_ret = "ok" => dl_ret' = "ok")
  BY NextZeroed, NextLoadedFirst
<1>2. open_pc \in {"host_ready", "toggle"} => zeroed = All /\ dl_ret = "ok"
  BY DEF OInv, LoadedFirst, ZeroedSoFar, AfterZero
<1>3. CASE SetHostReady
  BY <1>0, <1>1, <1>2, <1>3 DEF SetHostReady, HostCtrlCall, Register
<1>4. CASE ToggleIntr
  <2>1. Toggled(host_ctrl_cache) = {"SW_RDY", "DATA_VALID"} /\ host_ctrl = {"SW_RDY"}
    BY <1>0, <1>4 DEF ToggleIntr, HostCtrlCall, Toggled
  <2> QED
    BY <1>0, <1>1, <1>2, <1>4, <2>1 DEF ToggleIntr, HostCtrlCall, Register
<1>5. CASE BtCore
  BY <1>0, <1>1, <1>5 DEF BtCore
<1>6. CASE ~(SetHostReady \/ ToggleIntr \/ BtCore)
  <2>1. OpenNext /\ ~(SetHostReady \/ ToggleIntr \/ BtCore)
    BY <1>6
  <2>2. /\ UNCHANGED <<host_ctrl, host_ctrl_cache, edge, bt_live>>
        /\ open_pc' \in {"toggle", "running"} => open_pc' = open_pc
        /\ open_pc' \in {"probe", "download"} \cup AfterDownload =>
             open_pc \in {"probe", "download"} \cup AfterDownload
        /\ open_pc \in {"toggle", "running"} => open_pc' = open_pc
    BY <2>1
       DEF OpenNext, OpenStep, Probe, Download, Downloaded, Poll, WaitReady,
           ReadBase, ReadBaseFail, ZeroIndex, Zeroed, WaitAwake
  <2> HIDE DEF GoOn, Fail, loopVars, regVars, btVars
  <2> QED
    BY <1>0, <1>1, <2>2
<1> QED
  BY <1>3, <1>4, <1>5, <1>6

(* Every step, and stuttering, keeps the invariant. *)
LEMMA NextOInv == OInv /\ [OpenNext]_vars => OInv'
<1>1. OInv /\ OpenNext => OInv'
  BY NextODownload, NextOpenTypes, NextLoadedFirst, NextZeroed, NextEdge DEF OInv
<1>2. OInv /\ UNCHANGED vars => OInv'
  <2> SUFFICES ASSUME OInv, UNCHANGED vars PROVE OInv'
    OBVIOUS
  <2>1. DInv'
    <3>1. UNCHANGED dlVars
      BY DEF vars
    <3> QED
      BY <3>1, NextDInv DEF OInv
  <2> QED
    BY <2>1
       DEF OInv, vars, dlVars, loopVars, regVars, btVars, OpenTypes, LoadedFirst,
           ZeroedSoFar, CacheOfRegister, EdgeWhenReady, HandsOver
<1> QED
  BY <1>1, <1>2

-----------------------------------------------------------------------------
(* The inductive invariant: what open has done so far fits where it is, and*)
(* the download's own invariant goes on holding after the download.        *)
THEOREM OpenInvariant == OpenSpec => []OInv
<1> QED
  BY InitOInv, NextOInv, PTL DEF OpenSpec

(* Every value open and the download keep is one of its kind, whatever the *)
(* blob, its file and the sizes are; above all `pos' stays within the      *)
(* records of the blob, and what is written fits the buffer.               *)
THEOREM OpenTypeCorrect == OpenSpec => []OpenTypeOK
<1>1. OInv => OpenTypeOK
  BY OpenTypesMean DEF OInv
<1> QED
  BY <1>1, OpenInvariant, PTL

(* cyw43_bt_download_firmware goes on to the next record, and returns      *)
(* success, only with the memory as all records before ask for, whatever   *)
(* writes failed silently and however a transfer was cut.                  *)
THEOREM MemoryIsLoaded == OpenSpec => []LoadedSoFar
<1>1. OInv => LoadedSoFar
  BY DEF OInv, DInv, LoadedInv, LoadedSoFar
<1> QED
  BY <1>1, OpenInvariant, PTL

(* write_firmware_record never changes a byte that is not its record's,    *)
(* although it writes whole words, and retries.                            *)
THEOREM OtherBytesKept == OpenSpec => []OthersKept
<1>1. OInv => OthersKept
  BY DEF OInv, DInv
<1> QED
  BY <1>1, OpenInvariant, PTL

(* A download that returns 0 has loaded the whole image, up to the record  *)
(* that is the last, unless the file ends in front of a record.            *)
THEOREM LoadedWhole == OpenSpec => []WholeUnlessCut
<1>1. OInv => WholeUnlessCut
  BY DEF OInv, DInv
<1> QED
  BY <1>1, OpenInvariant, PTL

(* A well-formed blob, of any size, is never refused by the parser, and it *)
(* is all in the memory when the download returns 0.  The patch that is    *)
(* built in is well-formed (MCHciOpen).                                    *)
THEOREM WellFormedIsLoaded == OpenSpec => []WellFormedLoads
<1> DEFINE W == WellInv /\ WellFormedLoads
<1>1. OpenInit => W
  BY DEF OpenInit, Init, WellInv, WellFormedLoads, InLoop
<1>2. OInv /\ W /\ [OpenNext]_vars => W'
  <2> SUFFICES ASSUME OInv, W, [OpenNext]_vars PROVE W'
    OBVIOUS
  <2>1. [DlNext]_dlVars
    BY DEF OpenNext, OpenStep, Probe, Download, Downloaded, Poll, WaitReady,
           ReadBase, ReadBaseFail, ZeroIndex, Zeroed, WaitAwake, SetHostReady,
           ToggleIntr, HostCtrlCall, BtCore, vars
  <2> QED
    BY <2>1, NextWell DEF OInv
<1>3. W => WellFormedLoads
  OBVIOUS
<1> HIDE DEF W
<1> QED
  BY <1>1, <1>2, <1>3, OpenInvariant, PTL DEF OpenSpec

(* The BT core uses the rings only when cyw43_bt_init_buffers has zeroed   *)
(* all four indices, and the image is in its memory.                       *)
THEOREM RingsReadyWhenLive == OpenSpec => []LiveOnlyWhenReady
<1>1. OInv => LiveOnlyWhenReady
  BY DEF OInv, DInv, LoadedInv, EdgeWhenReady, LiveOnlyWhenReady, All
<1> QED
  BY <1>1, OpenInvariant, PTL

(* When open returns 0 its toggle_intr has been an edge for the BT core,   *)
(* and the cache is that of the register, whatever a former boot left      *)
(* there.                                                                  *)
THEOREM OpenRings == OpenSpec => []HandsOver
<1>1. OInv => HandsOver
  BY DEF OInv
<1> QED
  BY <1>1, OpenInvariant, PTL

(* The same for the download by itself. *)
THEOREM DownloadInvariant == Spec => []DInv
<1> QED
  BY InitDInv, NextDInv, PTL DEF Spec

-----------------------------------------------------------------------------
(* That open goes forward.                                                 *)

(* A transfer takes at least a byte while there is one to take. *)
LEMMA ChunkIsNotEmpty ==
  ASSUME NEW a \in Nat, NEW n \in Nat \ {0}
  PROVE  Chunk(a, n) > 0
<1>1. Window \in Nat \ {0} /\ MaxChunk \in Nat \ {0}
  BY DownloadAssumption
<1>2. a % Window \in 0 .. Window - 1
  BY <1>1
<1> HIDE DownloadAssumption
<1> QED
  BY <1>1, <1>2 DEF Chunk

(* In a pass over the block a byte is left, and nowhere fewer than none. *)
LeftInv ==
  /\ Len(aligned) \in Nat /\ done <= Len(aligned)
  /\ Writing => done < Len(aligned)

LEMMA InitLeft == Init => LeftInv
  BY DEF Init, LeftInv, Writing

LEMMA NextLeft ==
  ASSUME DInv, LeftInv, [DlNext]_dlVars
  PROVE  LeftInv'
<1>0. /\ Len(aligned) \in Nat /\ done \in Nat /\ done <= Len(aligned)
      /\ Writing => done < Len(aligned)
  BY StateFacts DEF LeftInv
<1> USE DEF GoTo, Finish
<1>1. CASE UNCHANGED dlVars
  BY <1>0, <1>1 DEF dlVars, writeVars, LeftInv, Writing
<1>2. CASE Preamble \/ PowerUp \/ StopAtRecord \/ AddressRecord
  BY <1>0, <1>2
     DEF Preamble, PowerUp, StopAtRecord, AddressRecord, NextRecord, writeVars,
         LeftInv, Writing
<1>3. CASE DataRecord
  <2>1. dl_pc = "record" /\ NextRecord({"data"}) /\ done = 0 /\ done' = done
    BY <1>3 DEF DataRecord, NextRecord, DInv, RestInv
  <2>2. CASE dl_pc' = "done" /\ UNCHANGED aligned
    BY <1>0, <2>1, <2>2 DEF LeftInv, Writing
  <2>3. CASE aligned' = Block(Base + Rec.addr, Rec.len)
    <3>1. Rec \in Records /\ Rec.type = "data" /\ Rec.len \in Nat \ {0}
          /\ Base + Rec.addr \in Nat
      <4>1. Rec \in Records /\ Rec.len \in Nat \ {0} /\ Rec.type \in {"data"}
        BY <2>1, RecFacts
      <4>2. Rec.addr \in Nat /\ Base \in Nat
        BY <4>1, RecordFields, StateFacts
      <4> QED
        BY <4>1, <4>2
    <3>2. /\ RoundDown(Base + Rec.addr) \in Nat
          /\ RoundDown(Base + Rec.addr) <= Base + Rec.addr
          /\ WriteLen(Base + Rec.addr, Rec.len) \in Nat
          /\ Base + Rec.addr + Rec.len
               <= RoundDown(Base + Rec.addr) + WriteLen(Base + Rec.addr, Rec.len)
      BY <3>1, BlockCovers
    <3>3. Len(aligned') = WriteLen(Base + Rec.addr, Rec.len)
      BY <2>1, <2>3, BlockFacts
    <3>4. WriteLen(Base + Rec.addr, Rec.len) > 0
      BY <3>1, <3>2
    <3> HIDE DEF GoTo, Finish
    <3> QED
      BY <2>1, <3>2, <3>3, <3>4 DEF LeftInv
  <2> QED
    BY <1>3, <2>2, <2>3 DEF DataRecord
<1>4. ASSUME Writing, Retry PROVE LeftInv'
  BY <1>0, <1>4 DEF Retry, LeftInv
<1>5. CASE WriteChunk /\ ~Retry
  <2>1. Writing /\ ThisChunk \in 0 .. Len(aligned) - done
    BY <1>5, WriteFacts DEF WriteChunk, Writing
  <2> QED
    BY <1>0, <1>5, <2>1 DEF WriteChunk, LeftInv
<1>6. CASE VerifyChunk
  <2>1. Writing /\ ThisChunk \in 0 .. Len(aligned) - done
    BY <1>6, WriteFacts DEF VerifyChunk, Writing
  <2>2. CASE done + ThisChunk < Len(aligned)
    BY <1>0, <1>6, <2>1, <2>2 DEF VerifyChunk, LeftInv
  <2>3. CASE ~(done + ThisChunk < Len(aligned))
    BY <1>6, <2>3 DEF VerifyChunk, LeftInv, Writing
  <2> QED
    BY <2>2, <2>3
<1> QED
  BY <1>1, <1>2, <1>3, <1>4, <1>5, <1>6 DEF DlNext, WriteChunk, VerifyFail, Writing

(* Every step of the download lowers the first of the parts of its rank    *)
(* that it changes.                                                        *)
DlLower ==
  \/ DlRank'[1] < DlRank[1]
  \/ /\ DlRank'[1] = DlRank[1]
     /\ \/ DlRank'[2] < DlRank[2]
        \/ /\ DlRank'[2] = DlRank[2]
           /\ \/ DlRank'[3] < DlRank[3]
              \/ /\ DlRank'[3] = DlRank[3]
                 /\ \/ DlRank'[4] < DlRank[4]
                    \/ DlRank'[4] = DlRank[4] /\ DlRank'[5] < DlRank[5]

LEMMA DlGoesForward ==
  ASSUME DInv, LeftInv, DlNext
  PROVE  DlLower
<1>0. /\ Len(aligned) \in Nat /\ done \in Nat /\ done <= Len(aligned)
      /\ Writing => done < Len(aligned)
      /\ WriteRetries \in Nat \ {0} /\ attempt \in 0 .. WriteRetries
      /\ pos \in Nat /\ Len(blob) \in Nat
  BY StateFacts, DownloadAssumption DEF LeftInv, DInv, TypeOK
<1> USE DEF GoTo, Finish, DlLower, DlRank, StagesLeft
<1>1. CASE Preamble \/ PowerUp \/ StopAtRecord
  BY <1>1 DEF Preamble, PowerUp, StopAtRecord
<1>2. ASSUME dl_pc = "record" \/ dl_pc = "verify", dl_pc' = "record",
             pos' = pos + 1, blob' = blob
      PROVE  DlLower
  BY <1>0, <1>2
<1>3. CASE AddressRecord
  BY <1>2, <1>3 DEF AddressRecord, NextRecord, Advance
<1>4. CASE DataRecord
  <2>1. dl_pc = "record" /\ attempt = 0 /\ attempt' = 0 /\ UNCHANGED <<blob, pos>>
    BY <1>4 DEF DataRecord, NextRecord, DInv, RestInv, parseVars, addrVars
  <2>2. dl_pc' = "done" \/ dl_pc' = "write"
    BY <1>4 DEF DataRecord
  <2> QED
    BY <1>0, <2>1, <2>2
<1>5. ASSUME Writing, Retry PROVE DlLower
  BY <1>0, <1>5 DEF Retry, Attempts, Writing, parseVars, addrVars
<1>6. ASSUME Writing PROVE ThisChunk \in Nat \ {0} /\ ThisChunk <= Len(aligned) - done
  <2>1. Here \in Nat /\ ThisChunk \in 0 .. Len(aligned) - done
    BY <1>6, WriteFacts
  <2>2. Len(aligned) - done \in Nat \ {0}
    BY <1>0, <1>6
  <2>3. ThisChunk > 0
    BY <2>1, <2>2, ChunkIsNotEmpty DEF ThisChunk
  <2> QED
    BY <2>1, <2>2, <2>3
<1>7. ASSUME Writing, UNCHANGED <<dl_pc, blob, pos, aligned, attempt>>,
             done' = done + ThisChunk
      PROVE  DlLower
  BY <1>0, <1>6, <1>7 DEF Writing
<1>8. CASE WriteChunk /\ ~Retry
  <2>1. CASE done + ThisChunk < Len(aligned)
    BY <1>7, <1>8, <2>1 DEF WriteChunk, Writing, parseVars, addrVars
  <2>2. CASE ~(done + ThisChunk < Len(aligned))
    BY <1>0, <1>8, <2>2 DEF WriteChunk, parseVars, addrVars
  <2> QED
    BY <2>1, <2>2
<1>9. CASE VerifyChunk
  <2>1. CASE done + ThisChunk < Len(aligned)
    BY <1>7, <1>9, <2>1 DEF VerifyChunk, Writing, parseVars, addrVars
  <2>2. CASE ~(done + ThisChunk < Len(aligned))
    BY <1>2, <1>9, <2>2 DEF VerifyChunk, Advance
  <2> QED
    BY <2>1, <2>2
<1> QED
  BY <1>1, <1>3, <1>4, <1>5, <1>8, <1>9 DEF DlNext, WriteChunk, VerifyFail, Writing

(* The seven parts of the rank of open. *)
LEMMA RankIs ==
  ASSUME NEW a, NEW b, NEW c, NEW d, NEW e, NEW f, NEW g, NEW s,
         s = <<a, b>> \o <<c, d, e, f, g>>
  PROVE  /\ s = [i \in 1 .. 7 |-> s[i]]
         /\ s[1] = a /\ s[2] = b /\ s[3] = c /\ s[4] = d /\ s[5] = e
         /\ s[6] = f /\ s[7] = g
<1> DEFINE S == {a, b, c, d, e, f, g}
<1>1. a \in S /\ b \in S /\ c \in S /\ d \in S /\ e \in S /\ f \in S /\ g \in S
  OBVIOUS
<1> HIDE DEF S
<1>2. <<a, b>> \in Seq(S) /\ <<c, d, e, f, g>> \in Seq(S)
  BY <1>1
<1>3. Len(<<a, b>>) = 2 /\ Len(<<c, d, e, f, g>>) = 5
  OBVIOUS
<1>4. /\ s \in Seq(S) /\ Len(s) = 7
      /\ \A i \in 1 .. 7 :
           s[i] = IF i <= 2 THEN <<a, b>>[i] ELSE <<c, d, e, f, g>>[i - 2]
  <2> DEFINE u == <<a, b>>
             v == <<c, d, e, f, g>>
  <2>1. u \in Seq(S) /\ v \in Seq(S) /\ Len(u) = 2 /\ Len(v) = 5 /\ s = u \o v
    BY <1>2, <1>3
  <2> HIDE DEF u, v
  <2>2. /\ u \o v \in Seq(S) /\ Len(u \o v) = Len(u) + Len(v)
        /\ \A i \in 1 .. Len(u) + Len(v) :
             (u \o v)[i] = IF i <= Len(u) THEN u[i] ELSE v[i - Len(u)]
    BY <2>1, ConcatProperties
  <2>3. /\ s \in Seq(S) /\ Len(s) = 7
        /\ \A i \in 1 .. 7 : s[i] = IF i <= 2 THEN u[i] ELSE v[i - 2]
    <3>1. /\ s \in Seq(S) /\ Len(s) = Len(u) + Len(v)
          /\ \A i \in 1 .. Len(u) + Len(v) :
               s[i] = IF i <= Len(u) THEN u[i] ELSE v[i - Len(u)]
      BY <2>1, <2>2, Zenon
    <3>2. Len(u) + Len(v) = 7
      BY <2>1
    <3> QED
      BY <2>1, <3>1, <3>2
  <2> QED
    BY <2>3 DEF u, v
<1>5. s = [i \in 1 .. 7 |-> s[i]]
  <2>1. s \in [1 .. 7 -> S]
    BY <1>4, LenProperties
  <2> QED
    BY <2>1
<1> QED
  BY <1>4, <1>5 DEF S

LEMMA RankOfNats ==
  ASSUME NEW a \in Nat, NEW b \in Nat, NEW c \in Nat, NEW d \in Nat, NEW e \in Nat,
         NEW f \in Nat, NEW g \in Nat, NEW s, s = <<a, b>> \o <<c, d, e, f, g>>
  PROVE  s \in [1 .. 7 -> Nat]
<1>1. s = [i \in 1 .. 7 |-> s[i]]
  BY RankIs
<1>2. \A i \in 1 .. 7 : s[i] \in Nat
  <2>1. /\ s[1] = a /\ s[2] = b /\ s[3] = c /\ s[4] = d /\ s[5] = e
        /\ s[6] = f /\ s[7] = g
    BY RankIs
  <2> QED
    BY <2>1
<1> QED
  BY <1>1, <1>2

(* How two ranks compare. *)
LEMMA Lowers ==
  ASSUME NEW s, NEW t, NEW j \in 1 .. 7, s[j] < t[j],
         j > 1 => s[1] = t[1], j > 2 => s[2] = t[2], j > 3 => s[3] = t[3],
         j > 4 => s[4] = t[4], j > 5 => s[5] = t[5], j > 6 => s[6] = t[6]
  PROVE  Lower(s, t)
<1>1. ASSUME NEW i \in 1 .. j - 1 PROVE s[i] = t[i]
  <2>1. i \in 1 .. 6 /\ j > i
    OBVIOUS
  <2> QED
    BY <2>1
<1> QED
  BY <1>1 DEF Lower

(* The rank of open by its parts, before and after a step. *)
LEMMA RankParts ==
  /\ Rank[1] = StepsLeft /\ Rank[2] = TurnsLeft
  /\ Rank[3] = DlRank[1] /\ Rank[4] = DlRank[2] /\ Rank[5] = DlRank[3]
  /\ Rank[6] = DlRank[4] /\ Rank[7] = DlRank[5]
  /\ Rank'[1] = StepsLeft' /\ Rank'[2] = TurnsLeft'
  /\ Rank'[3] = DlRank'[1] /\ Rank'[4] = DlRank'[2] /\ Rank'[5] = DlRank'[3]
  /\ Rank'[6] = DlRank'[4] /\ Rank'[7] = DlRank'[5]
<1> DEFINE c == StagesLeft
           d == Len(blob) + 1 - pos
           e == IF dl_pc = "record" THEN WriteRetries + 1 ELSE WriteRetries - attempt
           f == IF dl_pc = "write" THEN 1 ELSE 0
           g == Len(aligned) - done
<1>1. DlRank = <<c, d, e, f, g>> /\ DlRank' = <<c', d', e', f', g'>>
  BY DEF DlRank
<1> HIDE DEF c, d, e, f, g
<1>2. /\ DlRank[1] = c /\ DlRank[2] = d /\ DlRank[3] = e /\ DlRank[4] = f /\ DlRank[5] = g
      /\ DlRank'[1] = c' /\ DlRank'[2] = d' /\ DlRank'[3] = e' /\ DlRank'[4] = f'
      /\ DlRank'[5] = g'
  BY <1>1
<1>3. /\ Rank = <<StepsLeft, TurnsLeft>> \o <<c, d, e, f, g>>
      /\ Rank' = <<StepsLeft', TurnsLeft'>> \o <<c', d', e', f', g'>>
  BY <1>1 DEF Rank
<1>4. /\ Rank[1] = StepsLeft /\ Rank[2] = TurnsLeft /\ Rank[3] = c /\ Rank[4] = d
      /\ Rank[5] = e /\ Rank[6] = f /\ Rank[7] = g
  BY <1>3, RankIs
<1>5. /\ Rank'[1] = StepsLeft' /\ Rank'[2] = TurnsLeft' /\ Rank'[3] = c' /\ Rank'[4] = d'
      /\ Rank'[5] = e' /\ Rank'[6] = f' /\ Rank'[7] = g'
  BY <1>3, RankIs
<1> QED
  BY <1>2, <1>4, <1>5

(* A step of open lowers its rank; a step of the BT core is none of open's.*)
LEMMA StepGoesForward ==
  ASSUME OInv, LeftInv, [OpenNext]_vars
  PROVE  [Lower(Rank', Rank)]_openVars
<1>0. /\ OpenTypes /\ Len(Probes) \in Nat \ {0} /\ PollRetries \in Nat \ {0}
      /\ probe \in 0 .. Len(Probes) /\ written \in 0 .. 4
      /\ polls \in 0 .. PollRetries - 1
  BY OpenAssumption DEF OInv, OpenTypes
<1> USE DEF GoOn, Fail
<1>1. ASSUME StepsLeft' < StepsLeft PROVE Lower(Rank', Rank)
  BY <1>1, RankParts, Lowers
<1>2. ASSUME StepsLeft' = StepsLeft, TurnsLeft' < TurnsLeft PROVE Lower(Rank', Rank)
  BY <1>2, RankParts, Lowers
<1>3. CASE Download
  <2>1. StepsLeft' = StepsLeft /\ TurnsLeft' = TurnsLeft
    BY <1>3 DEF Download, StepsLeft, TurnsLeft
  <2>2. DlLower
    BY <1>3, DlGoesForward DEF Download, OInv
  <2>3. CASE DlRank'[1] < DlRank[1]
    BY <2>1, <2>3, RankParts, Lowers
  <2>4. CASE DlRank'[1] = DlRank[1] /\ DlRank'[2] < DlRank[2]
    BY <2>1, <2>4, RankParts, Lowers
  <2>5. CASE /\ DlRank'[1] = DlRank[1] /\ DlRank'[2] = DlRank[2]
             /\ DlRank'[3] < DlRank[3]
    BY <2>1, <2>5, RankParts, Lowers
  <2>6. CASE /\ DlRank'[1] = DlRank[1] /\ DlRank'[2] = DlRank[2]
             /\ DlRank'[3] = DlRank[3] /\ DlRank'[4] < DlRank[4]
    BY <2>1, <2>6, RankParts, Lowers
  <2>7. CASE /\ DlRank'[1] = DlRank[1] /\ DlRank'[2] = DlRank[2]
             /\ DlRank'[3] = DlRank[3] /\ DlRank'[4] = DlRank[4]
             /\ DlRank'[5] < DlRank[5]
    BY <2>1, <2>7, RankParts, Lowers
  <2> QED
    BY <2>2, <2>3, <2>4, <2>5, <2>6, <2>7 DEF DlLower
<1>4. CASE Probe
  <2>1. probe < Len(Probes)
    BY <1>0, <1>4 DEF Probe, OpenTypes
  <2>2. \/ StepsLeft' < StepsLeft
        \/ StepsLeft' = StepsLeft /\ TurnsLeft' < TurnsLeft
    BY <1>0, <1>4, <2>1 DEF Probe, StepsLeft, TurnsLeft
  <2> QED
    BY <1>1, <1>2, <2>2
<1>5. CASE WaitReady \/ ReadBase \/ WaitAwake
  <2>1. ASSUME NEW pc \in {"wait_ready", "read_base", "wait_awake"}, open_pc = pc,
               polls' = polls + 1, polls + 1 < PollRetries, open_pc' = pc
        PROVE  StepsLeft' = StepsLeft /\ TurnsLeft' < TurnsLeft
    BY <1>0, <2>1 DEF StepsLeft, TurnsLeft
  <2>2. CASE open_pc' # open_pc
    <3>1. \/ open_pc = "wait_ready" /\ open_pc' \in {"read_base", "failed"}
          \/ open_pc = "read_base" /\ open_pc' \in {"zero", "failed"}
          \/ open_pc = "wait_awake" /\ open_pc' \in {"host_ready", "failed"}
      BY <1>5, <2>2 DEF WaitReady, ReadBase, WaitAwake, Poll
    <3>2. StepsLeft' < StepsLeft
      BY <3>1 DEF StepsLeft
    <3> QED
      BY <1>1, <3>2
  <2>3. CASE open_pc' = open_pc
    <3>1. /\ open_pc \in {"wait_ready", "read_base", "wait_awake"}
          /\ polls' = polls + 1 /\ polls + 1 < PollRetries
      BY <1>5, <2>3 DEF WaitReady, ReadBase, WaitAwake, Poll, Turns
    <3>2. StepsLeft' = StepsLeft /\ TurnsLeft' < TurnsLeft
      BY <2>1, <2>3, <3>1
    <3> QED
      BY <1>2, <3>2
  <2> QED
    BY <2>2, <2>3
<1>6. CASE ZeroIndex
  <2>1. StepsLeft' = StepsLeft /\ TurnsLeft' < TurnsLeft
    BY <1>0, <1>6 DEF ZeroIndex, StepsLeft, TurnsLeft
  <2> QED
    BY <1>2, <2>1
<1>7. CASE Downloaded \/ ReadBaseFail \/ Zeroed \/ SetHostReady \/ ToggleIntr
  <2>1. StepsLeft' < StepsLeft
    BY <1>7
       DEF Downloaded, ReadBaseFail, Zeroed, SetHostReady, ToggleIntr, HostCtrlCall,
           StepsLeft
  <2> QED
    BY <1>1, <2>1
<1>8. CASE BtCore \/ UNCHANGED vars
  BY <1>8 DEF BtCore, vars, openVars
<1> QED
  BY <1>3, <1>4, <1>5, <1>6, <1>7, <1>8 DEF OpenNext, OpenStep

(* Whatever the bus and the BT core do, every step of open and of the      *)
(* download in it lowers the rank: no loop of theirs starts over without   *)
(* one outside it having gone on.                                          *)
THEOREM OpenIsOnItsWay == OpenSpec => OpenGoesForward
<1> DEFINE A == Lower(Rank', Rank)
<1>1. OpenInit => LeftInv
  BY InitLeft DEF OpenInit
<1>2. OInv /\ LeftInv /\ [OpenNext]_vars => LeftInv'
  <2> SUFFICES ASSUME OInv, LeftInv, [OpenNext]_vars PROVE LeftInv'
    OBVIOUS
  <2>1. [DlNext]_dlVars
    BY DEF OpenNext, OpenStep, Probe, Download, Downloaded, Poll, WaitReady,
           ReadBase, ReadBaseFail, ZeroIndex, Zeroed, WaitAwake, SetHostReady,
           ToggleIntr, HostCtrlCall, BtCore, vars
  <2> QED
    BY <2>1, NextLeft DEF OInv
<1>3. OInv /\ LeftInv /\ [OpenNext]_vars => [A]_openVars
  BY StepGoesForward
<1> HIDE DEF A
<1>4. OpenSpec => [][A]_openVars
  BY <1>1, <1>2, <1>3, OpenInvariant, PTL DEF OpenSpec
<1> QED
  BY <1>4 DEF OpenGoesForward, A

(* And the rank cannot be lowered for ever: its parts are natural numbers, *)
(* and there is no infinite descent in the order of seven of them.         *)
Ranks == [1 .. 7 -> Nat]

LEMMA RankIsRank == OInv /\ LeftInv => Rank \in Ranks
<1> SUFFICES ASSUME OInv, LeftInv PROVE Rank \in Ranks
  OBVIOUS
<1>1. /\ Len(aligned) \in Nat /\ done \in Nat /\ done <= Len(aligned)
      /\ WriteRetries \in Nat \ {0} /\ attempt \in 0 .. WriteRetries
      /\ pos \in 1 .. Len(blob) + 1 /\ Len(blob) \in Nat
  BY StateFacts, DownloadAssumption DEF LeftInv, OInv, DInv, TypeOK
<1>2. /\ Len(Probes) \in Nat \ {0} /\ PollRetries \in Nat \ {0}
      /\ probe \in 0 .. Len(Probes) /\ written \in 0 .. 4
      /\ polls \in 0 .. PollRetries - 1
  BY OpenAssumption DEF OInv, OpenTypes
<1> DEFINE c == StagesLeft
           d == Len(blob) + 1 - pos
           e == IF dl_pc = "record" THEN WriteRetries + 1 ELSE WriteRetries - attempt
           f == IF dl_pc = "write" THEN 1 ELSE 0
           g == Len(aligned) - done
<1>3. c \in Nat /\ d \in Nat /\ e \in Nat /\ f \in Nat /\ g \in Nat
  BY <1>1 DEF StagesLeft
<1>4. StepsLeft \in Nat
  BY DEF StepsLeft
<1>5. TurnsLeft \in Nat
  BY <1>2 DEF TurnsLeft
<1>6. Rank = <<StepsLeft, TurnsLeft>> \o <<c, d, e, f, g>>
  BY DEF Rank, DlRank
<1> DEFINE a == StepsLeft
           b == TurnsLeft
<1>7. a \in Nat /\ b \in Nat /\ Rank = <<a, b>> \o <<c, d, e, f, g>>
  BY <1>4, <1>5, <1>6
<1> HIDE DEF a, b, c, d, e, f, g
<1> QED
  BY <1>3, <1>7, RankOfNats DEF Ranks

(* Wherever open is, its rank is in an order without infinite descent.     *)
THEOREM RanksRunOut ==
  /\ OpenSpec => [](Rank \in Ranks)
  /\ IsWellFoundedOn({p \in Ranks \X Ranks : Lower(p[1], p[2])}, Ranks)
<1>1. OpenSpec => [](Rank \in Ranks)
  <2>1. OpenInit => LeftInv
    BY InitLeft DEF OpenInit
  <2>2. OInv /\ LeftInv /\ [OpenNext]_vars => LeftInv'
    <3> SUFFICES ASSUME OInv, LeftInv, [OpenNext]_vars PROVE LeftInv'
      OBVIOUS
    <3>1. [DlNext]_dlVars
      BY DEF OpenNext, OpenStep, Probe, Download, Downloaded, Poll, WaitReady,
             ReadBase, ReadBaseFail, ZeroIndex, Zeroed, WaitAwake, SetHostReady,
             ToggleIntr, HostCtrlCall, BtCore, vars
    <3> QED
      BY <3>1, NextLeft DEF OInv
  <2> QED
    BY <2>1, <2>2, RankIsRank, OpenInvariant, PTL DEF OpenSpec
<1>2. IsWellFoundedOn(LexProductOrdering(Less, Nat, 7), [1 .. 7 -> Nat])
  BY LessWF, WFLexProductOrdering
<1>3. {p \in Ranks \X Ranks : Lower(p[1], p[2])} = LexProductOrdering(Less, Nat, 7)
  <2>1. ASSUME NEW p \in Ranks \X Ranks
        PROVE  Lower(p[1], p[2]) <=>
                 \E j \in 1 .. 7 : /\ \A i \in 1 .. (j - 1) : p[1][i] = p[2][i]
                                   /\ <<p[1][j], p[2][j]>> \in Less
    <3>1. \A j \in 1 .. 7 : p[1][j] \in Nat /\ p[2][j] \in Nat
      BY DEF Ranks
    <3>2. \A j \in 1 .. 7 : <<p[1][j], p[2][j]>> \in Less <=> p[1][j] < p[2][j]
      BY <3>1 DEF Less
    <3> QED
      BY <3>2 DEF Lower
  <2> QED
    BY <2>1 DEF LexProductOrdering, Ranks
<1> QED
  BY <1>1, <1>2, <1>3 DEF Ranks

-----------------------------------------------------------------------------
(* That open's two calls are those of OpenCalls: here each is one step,    *)
(* the other steps before it see open at its first call, and where they    *)
(* fail nothing has been written.                                          *)
LEMMA StepOfCalls ==
  OInv /\ [OpenNext]_vars
    => [Calls!SetHostReady \/ Calls!ToggleIntr \/ Calls!Others]_Calls!cVars
<1> SUFFICES ASSUME OInv, [OpenNext]_vars
             PROVE  [Calls!SetHostReady \/ Calls!ToggleIntr
                       \/ Calls!Others]_Calls!cVars
  OBVIOUS
<1> USE DEF GoOn, Fail, regVars, Calls!cVars
<1>1. CASE SetHostReady
  BY <1>1
     DEF SetHostReady, HostCtrlCall, Register, Calls!SetHostReady, Calls!Call,
         Calls!Succeeds, Calls!Fails
<1>2. CASE ToggleIntr
  BY <1>2
     DEF ToggleIntr, HostCtrlCall, Register, Toggled, Calls!ToggleIntr, Calls!Call,
         Calls!Succeeds, Calls!Fails
<1>3. ASSUME open_pc \notin {"host_ready", "toggle", "running", "failed"},
             open_pc' \notin {"toggle", "running"}, UNCHANGED regVars
      PROVE  Calls!SetHostReady \/ UNCHANGED Calls!cVars
  BY <1>3 DEF Calls!SetHostReady, Calls!Call, Calls!Fails
<1>4. CASE Probe \/ Download \/ Downloaded \/ ZeroIndex \/ Zeroed
  BY <1>3, <1>4 DEF Probe, Download, Downloaded, ZeroIndex, Zeroed
<1>5. CASE WaitReady \/ ReadBase \/ ReadBaseFail \/ WaitAwake
  BY <1>3, <1>5 DEF WaitReady, ReadBase, ReadBaseFail, WaitAwake, Poll
<1>6. CASE BtCore \/ UNCHANGED vars
  BY <1>6 DEF BtCore, vars
<1> QED
  BY <1>1, <1>2, <1>4, <1>5, <1>6 DEF OpenNext, OpenStep

(* The read-modify-writes of HOST_CTRL_REG that this module takes in one   *)
(* step are those that HostCtrl shows its three steps to amount to.        *)
THEOREM CallsOfOpen == OpenSpec => CallsAreOpenCalls
<1>1. OpenInit => Calls!Init
  BY DEF OpenInit, Calls!Init
<1> QED
  BY <1>1, StepOfCalls, OpenInvariant, PTL DEF OpenSpec, CallsAreOpenCalls, Calls!Spec

=============================================================================
