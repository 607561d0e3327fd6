--------------------------- MODULE H2BRing_proofs ---------------------------
(***************************************************************************)
(* Theorems about the host-to-BT ring, for every ring size, every set of   *)
(* packets and every length of theirs.                                     *)
(*                                                                         *)
(* The invariants of H2BRing are not inductive: that a word goes to free   *)
(* space depends on the snapshot of the indices, on how much of the packet *)
(* is written and on the BT core never passing h2b_in.  IInv says so.      *)
(* SInv adds what the words in the ring are; from it follows that the ring *)
(* is a PacketStream.                                                      *)
(***************************************************************************)
EXTENDS H2BRing, Btsdio_proofs

(* What the locals of send are worth at each point of it.  The snapshot of *)
(* h2b_in is exact, for nobody else writes it; the one of h2b_out is old,  *)
(* but since then the ring can only have become emptier.                   *)
PacketInHand == pc # "idle" => packet \in Packets

NothingWritten == pc \in {"wake", "indices"} => written = 0

SnapshotHolds ==
  pc \in {"write", "publish"} =>
    /\ index.in = h2b_in
    /\ CircCount(h2b_in, h2b_out) <= CircCount(index.in, index.out)
    /\ RoundedLen(packet) <= CircSpace(index.in, index.out)

Progressed ==
  /\ written % 4 = 0
  /\ pc = "write" => written < RoundedLen(packet)
  /\ pc # "idle" => written <= RoundedLen(packet)

(* The BT core reads no further than h2b_in, and starts with a header that *)
(* the host wrote or not at all.                                           *)
BtBehind == 4 * Len(bt_read) <= CircCount(h2b_in, h2b_out)

IInv ==
  /\ TypeOK
  /\ PacketInHand
  /\ NothingWritten
  /\ SnapshotHolds
  /\ Progressed
  /\ BtBehind

-----------------------------------------------------------------------------
(* The free space of the snapshot is still free: the packet fits what is   *)
(* free now, with a word to spare.                                         *)
LEMMA PacketFits ==
  ASSUME IInv, pc \in {"write", "publish"}
  PROVE  /\ RoundedLen(packet) \in Nat
         /\ RoundedLen(packet) % 4 = 0
         /\ CircCount(h2b_in, h2b_out) \in WordOffsets
         /\ CircCount(h2b_in, h2b_out) + RoundedLen(packet) <= FwBufSize - 4
<1>1. packet \in Packets
  BY DEF IInv, PacketInHand
<1>2. /\ h2b_in \in WordOffsets /\ h2b_out \in WordOffsets
      /\ index.in \in WordOffsets /\ index.out \in WordOffsets
  BY DEF IInv, TypeOK
<1>3. /\ CircCount(h2b_in, h2b_out) \in WordOffsets
      /\ CircCount(index.in, index.out) \in WordOffsets
      /\ CircSpace(index.in, index.out) = FwBufSize - 4 - CircCount(index.in, index.out)
  BY <1>2, CircCountIs, CircSpaceIs
<1>4. /\ CircCount(h2b_in, h2b_out) <= CircCount(index.in, index.out)
      /\ RoundedLen(packet) <= CircSpace(index.in, index.out)
  BY DEF IInv, SnapshotHolds
<1>5. /\ CircCount(h2b_in, h2b_out) \in Nat
      /\ CircCount(index.in, index.out) \in Nat
  BY <1>3, OffsetFacts
<1>6. RoundedLen(packet) \in Nat /\ RoundedLen(packet) % 4 = 0
  BY <1>1, RoundedLenFacts
<1> QED
  BY <1>3, <1>4, <1>5, <1>6, FwBufSizeAssumption

(* The word of the packet that is written next, and the new index. *)
LEMMA NextAddr ==
  ASSUME IInv, pc = "write"
  PROVE  /\ WriteAddr(written) = Advance(h2b_in, written)
         /\ WriteAddr(written) \in WordOffsets
<1>1. /\ h2b_in \in WordOffsets /\ index.in = h2b_in /\ written \in WordOffsets
      /\ written < RoundedLen(packet)
  BY DEF IInv, TypeOK, SnapshotHolds, Progressed
<1>2. RoundedLen(packet) \in Nat
  BY PacketFits
<1>3. written \in Nat /\ written % 4 = 0 /\ written <= FwBufSize
  BY <1>1, OffsetFacts, FwBufSizeAssumption
<1> QED
  BY <1>1, <1>2, <1>3, RingAddrIs, AdvanceType DEF WriteAddr

LEMMA NewInIs ==
  ASSUME IInv, pc = "publish"
  PROVE  /\ NewIn = Advance(h2b_in, RoundedLen(packet))
         /\ NewIn \in WordOffsets
         /\ CircCount(NewIn, h2b_out) =
              CircCount(h2b_in, h2b_out) + RoundedLen(packet)
<1>1. /\ h2b_in \in WordOffsets /\ h2b_out \in WordOffsets /\ index.in = h2b_in
  BY DEF IInv, TypeOK, SnapshotHolds
<1>2. /\ RoundedLen(packet) \in Nat /\ RoundedLen(packet) % 4 = 0
      /\ RoundedLen(packet) <= FwBufSize
      /\ CircCount(h2b_in, h2b_out) + RoundedLen(packet) < FwBufSize
<2>1. CircCount(h2b_in, h2b_out) \in Nat
  BY PacketFits, OffsetFacts
<2> QED
  BY <2>1, PacketFits, FwBufSizeAssumption
<1>3. NewIn = Advance(h2b_in, RoundedLen(packet))
  BY <1>1, <1>2, RingNextIs DEF NewIn
<1> QED
  BY <1>1, <1>2, <1>3, AdvanceType, CountGrows

(* What the BT core has read, or is about to read, lies in the ring. *)
LEMMA BtAddr ==
  ASSUME IInv
  PROVE  LET n == 4 * Len(bt_read) IN
         /\ n \in Nat
         /\ n % 4 = 0
         /\ n <= CircCount(h2b_in, h2b_out)
         /\ Mask(h2b_out + n) = Advance(h2b_out, n)
         /\ Mask(h2b_out + n) \in WordOffsets
<1> DEFINE n == 4 * Len(bt_read)
<1>1. /\ h2b_in \in WordOffsets /\ h2b_out \in WordOffsets /\ bt_read \in Seq(Words)
      /\ n <= CircCount(h2b_in, h2b_out)
  BY DEF IInv, TypeOK, BtBehind
<1>2. n \in Nat /\ n % 4 = 0
  BY <1>1
<1>3. CircCount(h2b_in, h2b_out) \in Nat /\ CircCount(h2b_in, h2b_out) < FwBufSize
  BY <1>1, CircCountIs, OffsetFacts
<1>4. n <= FwBufSize
  BY <1>1, <1>2, <1>3, FwBufSizeAssumption
<1> HIDE DEF n
<1>5. Mask(h2b_out + n) = Advance(h2b_out, n) /\ Advance(h2b_out, n) \in WordOffsets
  BY <1>1, <1>2, <1>4, MaskIsAdvance, AdvanceType
<1> QED
  BY <1>1, <1>2, <1>5 DEF n

-----------------------------------------------------------------------------
LEMMA InitIInv == Init => IInv
<1> SUFFICES ASSUME Init PROVE IInv
  OBVIOUS
<1>1. 0 \in WordOffsets
  BY FwBufSizeAssumption DEF WordOffsets
<1>2. CircCount(0, 0) = 0
  BY <1>1, CircCountIs
<1>3. TypeOK
  BY <1>1 DEF Init, TypeOK, Words, Word, PCs
<1> QED
  BY <1>2, <1>3
     DEF Init, IInv, PacketInHand, NothingWritten, SnapshotHolds, Progressed, BtBehind

(* send leaves: what IInv says of its locals is easily true. *)
LEMMA ReturnKeepsIInv ==
  ASSUME IInv, NEW v \in Errors \cup {"ok"}, Return(v),
         h2b_buf' \in [WordOffsets -> Words], h2b_in' \in WordOffsets,
         CircCount(h2b_in', h2b_out) >= CircCount(h2b_in, h2b_out),
         UNCHANGED <<h2b_out, btVars>>
  PROVE  IInv'
<1>1. 0 \in WordOffsets
  BY FwBufSizeAssumption DEF WordOffsets
<1>2. TypeOK'
  BY <1>1 DEF IInv, TypeOK, Return, btVars, PCs, Errors
<1>3. BtBehind'
  <2>1. /\ CircCount(h2b_in, h2b_out) \in Nat
        /\ CircCount(h2b_in', h2b_out) \in Nat
    BY CircCountIs, OffsetFacts DEF IInv, TypeOK
  <2>2. 4 * Len(bt_read) \in Nat /\ 4 * Len(bt_read) <= CircCount(h2b_in, h2b_out)
    BY BtAddr
  <2> QED
    BY <2>1, <2>2 DEF BtBehind, btVars
<1> QED
  BY <1>2, <1>3
     DEF IInv, Return, PacketInHand, NothingWritten, SnapshotHolds, Progressed

(* Every step keeps the invariant. *)
LEMMA NextIInv == IInv /\ [Next]_vars => IInv'
<1> SUFFICES ASSUME IInv, [Next]_vars PROVE IInv'
  OBVIOUS
<1> USE DEF ringVars, btVars
<1>0. CircCount(h2b_in, h2b_out) \in Nat
  BY CircCountIs, OffsetFacts DEF IInv, TypeOK
<1>1. ASSUME NEW p \in Packets, Send(p)
      PROVE  IInv'
  <2>1. RoundedLen(p) \in Nat
    BY RoundedLenFacts
  <2>2. 0 \in WordOffsets
    BY FwBufSizeAssumption DEF WordOffsets
  <2> QED
    BY <1>1, <2>1, <2>2 DEF Send, IInv, TypeOK, PCs, PacketInHand,
       NothingWritten, SnapshotHolds, Progressed, BtBehind
<1>2. ASSUME NEW p \in Packets, SendTooLarge(p)
      PROVE  IInv'
  BY <1>0, <1>2, ReturnKeepsIInv DEF SendTooLarge, IInv, TypeOK, Errors
<1>3. ASSUME Awake
      PROVE  IInv'
  BY <1>3 DEF Awake, IInv, TypeOK, PCs, PacketInHand, NothingWritten,
     SnapshotHolds, Progressed, BtBehind
<1>4. ASSUME NEW e \in {"EIO", "ETIMEDOUT"}, NotAwake(e)
      PROVE  IInv'
  BY <1>0, <1>4, ReturnKeepsIInv DEF NotAwake, IInv, TypeOK, Errors
<1>5. ASSUME ReadIndices
      PROVE  IInv'
  <2>1. packet \in Packets
    BY <1>5 DEF ReadIndices, Fits, IInv, PacketInHand
  <2>2. RoundedLen(packet) \in Nat /\ RoundedLen(packet) >= 4
    BY <2>1, RoundedLenFacts
  <2>3. TypeOK'
    BY <1>5 DEF ReadIndices, Fits, IInv, TypeOK, PCs
  <2>4. SnapshotHolds'
    BY <1>0, <1>5 DEF ReadIndices, Fits, SnapshotHolds
  <2> QED
    BY <1>5, <2>1, <2>2, <2>3, <2>4 DEF ReadIndices, IInv, PacketInHand,
       NothingWritten, Progressed, BtBehind
<1>6. ASSUME RingFull
      PROVE  IInv'
  BY <1>0, <1>6, ReturnKeepsIInv DEF RingFull, IInv, TypeOK, Errors
<1>7. ASSUME WriteWord
      PROVE  IInv'
  <2>1. pc = "write" /\ packet \in Packets /\ written < RoundedLen(packet)
    BY <1>7 DEF WriteWord, IInv, PacketInHand, Progressed
  <2>2. /\ RoundedLen(packet) \in Nat /\ RoundedLen(packet) % 4 = 0
        /\ RoundedLen(packet) <= FwBufSize - 4
    BY <1>0, <2>1, PacketFits, FwBufSizeAssumption
  <2>3. written \in Nat /\ written % 4 = 0
    BY OffsetFacts DEF IInv, TypeOK
  <2>4. written + 4 <= RoundedLen(packet) /\ (written + 4) % 4 = 0
    BY <2>1, <2>2, <2>3
  <2>5. written + 4 \in WordOffsets
    BY <2>2, <2>3, <2>4, FwBufSizeAssumption DEF WordOffsets
  <2>6. Word(packet, written) \in Words
    BY <2>1, <2>3 DEF Word, Words
  <2>7. TypeOK'
    BY <1>7, <2>5, <2>6 DEF WriteWord, WithNextWord, IInv, TypeOK, PCs
  <2>8. Progressed'
    BY <1>7, <2>2, <2>3, <2>4 DEF WriteWord, Progressed
  <2> QED
    BY <1>7, <2>7, <2>8 DEF WriteWord, IInv, PacketInHand, NothingWritten,
       SnapshotHolds, BtBehind
<1>8. ASSUME Publish
      PROVE  IInv'
  <2>1. /\ NewIn \in WordOffsets /\ RoundedLen(packet) \in Nat
        /\ CircCount(NewIn, h2b_out) = CircCount(h2b_in, h2b_out) + RoundedLen(packet)
    BY <1>8, NewInIs, PacketFits DEF Publish
  <2>2. BtBehind'
    BY <1>0, <1>8, <2>1, BtAddr DEF Publish, BtBehind
  <2>3. TypeOK'
    BY <1>8, <2>1 DEF Publish, IInv, TypeOK, PCs
  <2> QED
    BY <1>8, <2>2, <2>3 DEF Publish, IInv, PacketInHand, NothingWritten,
       SnapshotHolds, Progressed
<1>9. ASSUME BusFail
      PROVE  IInv'
  <2>1. CASE pc = "indices" /\ UNCHANGED <<h2b_buf, h2b_in>>
    BY <1>0, <1>9, <2>1, ReturnKeepsIInv DEF BusFail, IInv, TypeOK, Errors
  <2>2. CASE pc = "write" /\ h2b_buf' \in {h2b_buf, WithNextWord} /\ UNCHANGED h2b_in
    <3>1. packet \in Packets /\ written \in Nat
      BY <2>2, OffsetFacts DEF IInv, TypeOK, PacketInHand
    <3>2. Word(packet, written) \in Words
      BY <3>1 DEF Word, Words
    <3>3. h2b_buf' \in [WordOffsets -> Words]
      BY <2>2, <3>2 DEF WithNextWord, IInv, TypeOK
    <3> QED
      BY <1>0, <1>9, <2>2, <3>3, ReturnKeepsIInv DEF BusFail, IInv, TypeOK, Errors
  <2>3. CASE pc = "publish" /\ h2b_in' \in {h2b_in, NewIn} /\ UNCHANGED h2b_buf
    <3>1. /\ NewIn \in WordOffsets /\ RoundedLen(packet) \in Nat
          /\ CircCount(NewIn, h2b_out) = CircCount(h2b_in, h2b_out) + RoundedLen(packet)
      BY <2>3, NewInIs, PacketFits
    <3>2. /\ h2b_in' \in WordOffsets
          /\ CircCount(h2b_in', h2b_out) >= CircCount(h2b_in, h2b_out)
      BY <1>0, <2>3, <3>1 DEF IInv, TypeOK
    <3> QED
      BY <1>9, <2>3, <3>2, ReturnKeepsIInv DEF BusFail, IInv, TypeOK, Errors
  <2> QED
    BY <1>9, <2>1, <2>2, <2>3 DEF BusFail
<1>10. ASSUME NEW v \in {"ok", "EIO"}, Toggle(v)
       PROVE  IInv'
  BY <1>0, <1>10, ReturnKeepsIInv DEF Toggle, IInv, TypeOK, Errors
<1>11. ASSUME BtReadWord
       PROVE  IInv'
  <2> DEFINE n == 4 * Len(bt_read)
             w == h2b_buf[Mask(h2b_out + n)]
  <2>1. bt_read \in Seq(Words) /\ w \in Words
    BY BtAddr DEF IInv, TypeOK
  <2>2. /\ CircCount(h2b_in, h2b_out) % 4 = 0
        /\ n < CircCount(h2b_in, h2b_out)
    BY <1>11, CircCountIs, OffsetFacts DEF BtReadWord, IInv, TypeOK
  <2>3. bt_read' = Append(bt_read, w)
    BY <1>11 DEF BtReadWord
  <2>4. bt_read' \in Seq(Words) /\ Len(bt_read') = Len(bt_read) + 1
    BY <2>1, <2>3
  <2>5. BtBehind'
    BY <1>0, <1>11, <2>1, <2>2, <2>4 DEF BtReadWord, BtBehind
  <2>6. TypeOK'
    BY <1>11, <2>4 DEF BtReadWord, IInv, TypeOK
  <2> QED
    BY <1>11, <2>5, <2>6 DEF BtReadWord, IInv, PacketInHand, NothingWritten,
       SnapshotHolds, Progressed
<1>12. ASSUME BtConsume
       PROVE  IInv'
  <2> DEFINE n == 4 * Len(bt_read)
  <2>1. /\ h2b_in \in WordOffsets /\ h2b_out \in WordOffsets
        /\ h2b_out' = Advance(h2b_out, n) /\ h2b_out' \in WordOffsets
        /\ n \in Nat /\ n % 4 = 0 /\ n <= CircCount(h2b_in, h2b_out)
    BY <1>12, BtAddr DEF BtConsume, IInv, TypeOK
  <2>2. CircCount(h2b_in, h2b_out') = CircCount(h2b_in, h2b_out) - n
    <3> HIDE DEF n
    <3> QED
      BY <2>1, CountShrinks
  <2>3. CircCount(index.in, index.out) \in Nat
    BY CircCountIs, OffsetFacts DEF IInv, TypeOK
  <2>4. SnapshotHolds'
    BY <1>0, <1>12, <2>1, <2>2, <2>3 DEF BtConsume, IInv, SnapshotHolds
  <2>5. BtBehind'
    BY <1>0, <1>12, <2>1, <2>2 DEF BtConsume, BtBehind
  <2>6. TypeOK'
    BY <1>12, <2>1 DEF BtConsume, IInv, TypeOK
  <2> QED
    BY <1>12, <2>4, <2>5, <2>6 DEF BtConsume, IInv, PacketInHand,
       NothingWritten, Progressed
<1>13. CASE UNCHANGED vars
  BY <1>13 DEF vars, IInv, TypeOK, PacketInHand, NothingWritten, SnapshotHolds,
     Progressed, BtBehind
<1> QED
  BY <1>1, <1>2, <1>3, <1>4, <1>5, <1>6, <1>7, <1>8, <1>9, <1>10, <1>11,
     <1>12, <1>13 DEF Next, HostNext

(* IInv is an invariant of the ring. *)
THEOREM InductiveInvariant == Spec => []IInv
  BY InitIInv, NextIInv, PTL DEF Spec

-----------------------------------------------------------------------------
(* Every variable stays in its type: the indices, above all, are always    *)
(* multiples of 4 below the size of the ring, as init_buffers left them.   *)
THEOREM TypeCorrect == Spec => []TypeOK
<1>1. IInv => TypeOK
  BY DEF IInv
<1> QED
  BY <1>1, InductiveInvariant, PTL

(* ring_write only writes words that the BT core has handed back, however  *)
(* old its snapshot of the indices is and wherever the packet wraps.       *)
THEOREM HostWritesFreeSpace == Spec => []WritesFreeSpace
<1>1. IInv => WritesFreeSpace
  <2> SUFFICES ASSUME IInv, pc = "write"
               PROVE  CircCount(WriteAddr(written), h2b_out) >= CircCount(h2b_in, h2b_out)
    BY DEF WritesFreeSpace
  <2>1. /\ h2b_in \in WordOffsets /\ h2b_out \in WordOffsets
        /\ written < RoundedLen(packet)
    BY DEF IInv, TypeOK, Progressed
  <2>2. written \in Nat /\ written % 4 = 0
    BY OffsetFacts DEF IInv, TypeOK
  <2>3. /\ CircCount(h2b_in, h2b_out) \in Nat
        /\ CircCount(h2b_in, h2b_out) + written < FwBufSize
    BY <2>1, <2>2, PacketFits, OffsetFacts, FwBufSizeAssumption
  <2>4. CircCount(WriteAddr(written), h2b_out) = CircCount(h2b_in, h2b_out) + written
    BY <2>1, <2>2, <2>3, NextAddr, CountGrows
  <2> QED
    BY <2>2, <2>3, <2>4
<1> QED
  BY <1>1, InductiveInvariant, PTL

(* Each move of h2b_in makes exactly the packet visible to the BT core: no *)
(* packet fills the ring so far that it looks empty.                       *)
THEOREM PublishIsExact == Spec => PublishNeverAliases
<1> DEFINE A == h2b_in' # h2b_in =>
                  CircCount(h2b_in', h2b_out) =
                    CircCount(h2b_in, h2b_out) + RoundedLen(packet)
<1>1. IInv /\ [Next]_vars => [A]_vars
  <2> SUFFICES ASSUME IInv, Next, h2b_in' # h2b_in PROVE A
    BY DEF vars
  <2>1. pc = "publish" /\ h2b_in' = NewIn
    BY DEF Next, HostNext, Send, SendTooLarge, Awake, NotAwake, ReadIndices,
       RingFull, WriteWord, Publish, BusFail, Toggle, BtReadWord, BtConsume,
       ringVars
  <2> QED
    BY <2>1, NewInIs
<1> QED
  BY <1>1, InductiveInvariant, PTL DEF Spec, PublishNeverAliases

-----------------------------------------------------------------------------
(* The refinement.  What is between the indices is always a sequence of    *)
(* whole packets, of which the BT core has read the first words; and what  *)
(* ring_write has put beyond h2b_in is the beginning of its packet, all of *)
(* it when h2b_in is moved.                                                *)
WordsInPlace ==
  /\ pc \in {"write", "publish"} =>
       \A j \in WordOffsets :
         j < written => h2b_buf[Advance(h2b_in, j)] = Word(packet, j)
  /\ pc = "publish" => written = RoundedLen(packet)

ReadInOrder == \A i \in 1 .. Len(bt_read) : bt_read[i] = Stream[i]

SInv == IInv /\ WordsInPlace /\ ReadInOrder /\ Whole(Stream)

LEMMA StreamIs ==
  /\ Stream = Between(h2b_buf, h2b_in, h2b_out)
  /\ Stream' = Between(h2b_buf', h2b_in', h2b_out')
  BY DEF Stream, Between

LEMMA WordsAre == \A p \in Packets : \A j \in Nat : Word(p, j) \in Words
  BY DEF Word, Words

LEMMA PromiseIs ==
  /\ \A p : Promise!RoundedLen(p) = RoundedLen(p)
  /\ \A p : Promise!PacketWords(p) = PacketWords(p)
  BY DEF Promise!RoundedLen, RoundedLen, Promise!RoundUp, RoundUp, Promise!HeaderSize,
         HeaderSize, Promise!PacketWords, PacketWords, Promise!Word, Word

(* The stream in a state, and the part of it that the BT core has read. *)
LEMMA StreamFacts ==
  ASSUME SInv
  PROVE  /\ Stream \in Seq(Words) /\ Len(Stream) \in Nat
         /\ 4 * Len(Stream) = CircCount(h2b_in, h2b_out)
         /\ bt_read \in Seq(Words) /\ Len(bt_read) \in Nat
         /\ Len(bt_read) <= Len(Stream)
<1>1. /\ h2b_buf \in [WordOffsets -> Words]
      /\ h2b_in \in WordOffsets /\ h2b_out \in WordOffsets
      /\ bt_read \in Seq(Words) /\ 4 * Len(bt_read) <= CircCount(h2b_in, h2b_out)
  BY DEF SInv, IInv, TypeOK, BtBehind
<1>2. /\ Stream \in Seq(Words) /\ Len(Stream) \in Nat
      /\ 4 * Len(Stream) = CircCount(h2b_in, h2b_out)
  BY <1>1, StreamIs, BetweenLen, BetweenType
<1> QED
  BY <1>1, <1>2

-----------------------------------------------------------------------------
(* Nothing that the BT core may read changes while a packet is copied, and *)
(* the copy grows by the next word.                                        *)
LEMMA WriteElsewhere ==
  ASSUME SInv, pc = "write", h2b_buf' = WithNextWord,
         UNCHANGED <<h2b_in, h2b_out>>
  PROVE  /\ Stream' = Stream
         /\ \A j \in WordOffsets :
              j < written + 4 => h2b_buf'[Advance(h2b_in, j)] = Word(packet, j)
<1> DEFINE a == WriteAddr(written)
           c == CircCount(h2b_in, h2b_out)
<1>1. /\ h2b_buf \in [WordOffsets -> Words]
      /\ h2b_in \in WordOffsets /\ h2b_out \in WordOffsets
      /\ packet \in Packets /\ written \in WordOffsets /\ written < RoundedLen(packet)
  BY DEF SInv, IInv, TypeOK, PacketInHand, Progressed
<1>2. a = Advance(h2b_in, written) /\ a \in WordOffsets
  BY NextAddr DEF SInv
<1>3. /\ c \in Nat /\ written \in Nat /\ c + written < FwBufSize
      /\ RoundedLen(packet) \in Nat /\ RoundedLen(packet) < FwBufSize
  BY <1>1, PacketFits, OffsetFacts, FwBufSizeAssumption DEF SInv
<1>4. a = Advance(h2b_out, c + written)
  <2>1. Advance(h2b_out, c) = h2b_in
    BY <1>1, CountLeadsToIn
  <2>2. Advance(Advance(h2b_out, c), written) = Advance(h2b_out, c + written)
    BY <1>1, <1>3, AdvanceTwice
  <2> QED
    BY <1>2, <2>1, <2>2
<1>5. h2b_buf' = [h2b_buf EXCEPT ![a] = Word(packet, written)]
  BY DEF WithNextWord
<1>6. h2b_buf' \in [WordOffsets -> Words]
  BY <1>1, <1>3, <1>5, WordsAre
<1> HIDE DEF a, c
<1>7. ASSUME NEW n \in WordOffsets, n < c
      PROVE  h2b_buf'[Advance(h2b_out, n)] = h2b_buf[Advance(h2b_out, n)]
  <2>1. n \in Nat /\ n % 4 = 0 /\ n < FwBufSize
    BY OffsetFacts
  <2>2. Advance(h2b_out, n) # a
    BY <1>1, <1>3, <1>4, <1>7, <2>1, AdvanceDiffers
  <2>3. Advance(h2b_out, n) \in WordOffsets
    BY <1>1, <2>1, AdvanceType, FwBufSizeAssumption
  <2> QED
    BY <1>1, <1>5, <2>2, <2>3
<1>8. Stream' = Stream
  <2>1. Between(h2b_buf', h2b_in, h2b_out) = Between(h2b_buf, h2b_in, h2b_out)
    <3>1. AgreeBetween(h2b_buf, h2b_buf', h2b_in, h2b_out)
      BY <1>7 DEF AgreeBetween, c
    <3> QED
      BY <1>1, <3>1, BetweenKept
  <2> QED
    BY <2>1, StreamIs
<1>9. ASSUME NEW j \in WordOffsets, j < written + 4
      PROVE  h2b_buf'[Advance(h2b_in, j)] = Word(packet, j)
  <2>1. j \in Nat /\ j % 4 = 0 /\ j < FwBufSize
    BY OffsetFacts
  <2>2. Advance(h2b_in, j) \in WordOffsets
    BY <1>1, <2>1, AdvanceType, FwBufSizeAssumption
  <2>3. CASE j = written
    BY <1>1, <1>2, <1>5, <2>3
  <2>4. CASE j < written
    <3>1. h2b_buf[Advance(h2b_in, j)] = Word(packet, j)
      BY <2>4 DEF SInv, WordsInPlace
    <3>2. Advance(h2b_in, j) # a
      BY <1>1, <1>2, <1>3, <2>1, <2>4, AdvanceDiffers, FwBufSizeAssumption
    <3> QED
      BY <1>1, <1>5, <2>2, <3>1, <3>2
  <2>5. j <= written
    BY <1>1, <1>9, <2>1, OffsetFacts
  <2> QED
    BY <1>3, <2>1, <2>3, <2>4, <2>5
<1> QED
  BY <1>8, <1>9

(* The move of h2b_in adds the packet to the stream, all of it. *)
LEMMA PublishAdds ==
  ASSUME SInv, pc = "publish", h2b_in' = NewIn, UNCHANGED <<h2b_buf, h2b_out>>
  PROVE  /\ packet \in Packets
         /\ Stream' = Stream \o PacketWords(packet)
         /\ 4 * Len(Stream) + RoundedLen(packet) <= FwBufSize - 4
         /\ Whole(Stream')
         /\ \A i \in 1 .. Len(Stream) : Stream'[i] = Stream[i]
<1>1. /\ h2b_buf \in [WordOffsets -> Words]
      /\ h2b_in \in WordOffsets /\ h2b_out \in WordOffsets
      /\ packet \in Packets /\ written = RoundedLen(packet)
  BY DEF SInv, IInv, TypeOK, PacketInHand, WordsInPlace
<1>2. h2b_in' = Advance(h2b_in, RoundedLen(packet))
  BY NewInIs DEF SInv
<1>3. /\ RoundedLen(packet) \in Nat /\ CircCount(h2b_in, h2b_out) \in Nat
      /\ CircCount(h2b_in, h2b_out) + RoundedLen(packet) <= FwBufSize - 4
  BY PacketFits, OffsetFacts DEF SInv
<1>4. \A j \in WordOffsets :
        j < RoundedLen(packet) => h2b_buf[Advance(h2b_in, j)] = Word(packet, j)
  BY <1>1 DEF SInv, WordsInPlace
<1>5. Stream' = Stream \o PacketWords(packet)
  <2>1. CircCount(h2b_in, h2b_out) + RoundedLen(packet) < FwBufSize
    BY <1>3, FwBufSizeAssumption
  <2>2. Between(h2b_buf, Advance(h2b_in, RoundedLen(packet)), h2b_out) =
          Between(h2b_buf, h2b_in, h2b_out) \o PacketWords(packet)
    <3>1. LiesAt(h2b_buf, h2b_in, packet)
      BY <1>4 DEF LiesAt
    <3> QED
      BY <1>1, <2>1, <3>1, BetweenPut
  <2> QED
    BY <1>2, <2>2, StreamIs
<1>6. Stream \in Seq(Words) /\ Whole(Stream)
  BY StreamFacts DEF SInv
<1>7. Whole(Stream')
  BY <1>1, <1>5, <1>6, WordsAre, WholePut
<1>8. \A i \in 1 .. Len(Stream) : Stream'[i] = Stream[i]
  <2>1. PacketWords(packet) \in Seq(Words) /\ Len(PacketWords(packet)) \in Nat
    BY <1>1, WordsAre, PacketWordsFacts, WordCountFacts
  <2> QED
    BY <1>5, <1>6, <2>1, ConcatProperties
<1> QED
  BY <1>1, <1>3, <1>5, <1>7, <1>8, StreamFacts

(* What the BT core takes is the first packet of the stream. *)
LEMMA ConsumeTakes ==
  ASSUME SInv, BtConsume
  PROVE  /\ \E p \in Packets : Promise!Get(p)
         /\ Whole(Stream')
<1> DEFINE p == bt_read[1].pkt
           n == WordCount(p)
<1>1. /\ bt_read # <<>> /\ p \in Packets /\ 4 * Len(bt_read) = RoundedLen(p)
      /\ h2b_out' = Mask(h2b_out + 4 * Len(bt_read))
      /\ bt_got' = IF bt_read = PacketWords(p) THEN p ELSE NoPacket
      /\ UNCHANGED <<h2b_buf, h2b_in>>
  BY DEF BtConsume
<1>2. Len(bt_read) = n /\ n \in Nat \ {0}
  BY <1>1, StreamFacts, WordCountFacts
<1>3. /\ Stream \in Seq(Words) /\ Whole(Stream) /\ Len(Stream) \in Nat
      /\ bt_read \in Seq(Words) /\ n <= Len(Stream) /\ Stream # <<>>
      /\ \A i \in 1 .. n : bt_read[i] = Stream[i]
  BY <1>2, StreamFacts DEF SInv, ReadInOrder
<1> HIDE DEF n
<1>4. Stream[1].pkt = p
  BY <1>2, <1>3
<1> HIDE DEF p
<1>5. /\ \A i \in 1 .. n : Stream[i] = PacketWords(p)[i]
      /\ SubSeq(Stream, 1, n) = PacketWords(p)
      /\ n < Len(Stream) => Stream[n + 1].off = 0
  BY <1>3, <1>4, WholeFirst DEF n
<1>6. bt_read = PacketWords(p)
  <2>1. /\ PacketWords(p) \in Seq(Words) /\ Len(PacketWords(p)) = n
    BY <1>1, WordsAre, PacketWordsFacts DEF n
  <2>2. \A i \in 1 .. Len(bt_read) : bt_read[i] = PacketWords(p)[i]
    BY <1>2, <1>3, <1>5
  <2> QED
    BY <1>2, <1>3, <2>1, <2>2, SeqEqual
<1>7. Stream' = SubSeq(Stream, n + 1, Len(Stream))
  <2>1. /\ h2b_buf \in [WordOffsets -> Words]
        /\ h2b_in \in WordOffsets /\ h2b_out \in WordOffsets
    BY DEF SInv, IInv, TypeOK
  <2>2. h2b_out' = Advance(h2b_out, 4 * n)
    BY <1>1, <1>2, BtAddr DEF SInv
  <2>3. 4 * n <= CircCount(h2b_in, h2b_out)
    BY <1>2, <1>3, StreamFacts
  <2>4. Between(h2b_buf, h2b_in, Advance(h2b_out, 4 * n)) =
          SubSeq(Stream, n + 1, Len(Stream))
    BY <1>2, <2>1, <2>3, BetweenTake, StreamIs
  <2> QED
    BY <1>1, <2>2, <2>4, StreamIs
<1>8. Whole(Stream')
  BY <1>2, <1>3, <1>5, <1>7, WholeFrom
<1>9. Promise!Get(p)
  BY <1>1, <1>2, <1>3, <1>5, <1>6, <1>7, PromiseIs
     DEF Promise!Get, Promise!Leave, n, WordCount
<1> QED
  BY <1>1, <1>8, <1>9

(* A step that leaves the stream alone, or adds to it, leaves what the BT  *)
(* core has read at its front.                                             *)
LEMMA ReadStays ==
  ASSUME SInv, UNCHANGED bt_read,
         \A i \in 1 .. Len(Stream) : Stream'[i] = Stream[i]
  PROVE  ReadInOrder'
<1>1. \A i \in 1 .. Len(bt_read) : i \in 1 .. Len(Stream) /\ bt_read[i] = Stream[i]
  BY StreamFacts DEF SInv, ReadInOrder
<1> QED
  BY <1>1 DEF ReadInOrder

(* Each step keeps the invariant, and is a step of the stream or none. *)
StreamStep == [\E p \in Packets : Promise!Put(p) \/ Promise!Get(p)]_Promise!sVars

LEMMA RingUnchanged ==
  ASSUME SInv, UNCHANGED <<ringVars, btVars>>
  PROVE  ReadInOrder' /\ Whole(Stream') /\ StreamStep
<1>1. Stream' = Stream /\ UNCHANGED bt_got /\ UNCHANGED bt_read
  BY DEF Stream, ringVars, btVars
<1> QED
  BY <1>1, ReadStays DEF SInv, StreamStep, Promise!sVars

LEMMA StepOfStream ==
  ASSUME SInv, [Next]_vars
  PROVE  WordsInPlace' /\ ReadInOrder' /\ Whole(Stream') /\ StreamStep
<1> USE DEF ringVars, btVars
<1>0. packet \in Packets \cup {NoPacket} /\ IInv /\ WordsInPlace /\ ReadInOrder
  BY DEF SInv, IInv, TypeOK
<1>1. CASE \/ \E p \in Packets : Send(p) \/ SendTooLarge(p)
           \/ Awake
           \/ \E e \in {"EIO", "ETIMEDOUT"} : NotAwake(e)
           \/ RingFull
           \/ \E v \in {"ok", "EIO"} : Toggle(v)
  <2>1. UNCHANGED <<ringVars, btVars>> /\ pc' \notin {"write", "publish"}
    BY <1>1 DEF Send, SendTooLarge, Awake, NotAwake, RingFull, Toggle, Return
  <2> QED
    BY <2>1, RingUnchanged DEF WordsInPlace
<1>2. CASE ReadIndices
  <2>1. UNCHANGED <<ringVars, btVars>> /\ pc' = "write" /\ written' = 0
    BY <1>2 DEF ReadIndices, IInv, SInv, NothingWritten
  <2>2. WordsInPlace'
    BY <2>1, OffsetFacts DEF WordsInPlace
  <2> QED
    BY <2>1, <2>2, RingUnchanged
<1>3. CASE WriteWord
  <2>1. /\ pc = "write" /\ h2b_buf' = WithNextWord /\ written' = written + 4
        /\ pc' \in {"write", "publish"}
        /\ pc' = "publish" => written' = RoundedLen(packet)
        /\ UNCHANGED <<h2b_in, h2b_out, packet, btVars>>
    BY <1>3 DEF WriteWord
  <2>2. /\ Stream' = Stream
        /\ \A j \in WordOffsets :
             j < written + 4 => h2b_buf'[Advance(h2b_in, j)] = Word(packet, j)
    BY <2>1, WriteElsewhere
  <2>3. WordsInPlace'
    BY <2>1, <2>2 DEF WordsInPlace
  <2> QED
    BY <2>1, <2>2, <2>3, ReadStays DEF SInv, StreamStep, Promise!sVars
<1>4. CASE Publish
  <2>1. /\ pc = "publish" /\ pc' = "toggle" /\ h2b_in' = NewIn
        /\ UNCHANGED <<h2b_buf, h2b_out, btVars>>
    BY <1>4 DEF Publish
  <2> QED
    BY <2>1, PublishAdds, ReadStays, PromiseIs DEF WordsInPlace, StreamStep, Promise!Put
<1>5. CASE BusFail
  <2>1. pc' = "idle" /\ UNCHANGED <<h2b_out, btVars>>
    BY <1>5 DEF BusFail, Return
  <2>2. CASE UNCHANGED <<h2b_buf, h2b_in>>
    BY <2>1, <2>2, RingUnchanged DEF WordsInPlace
  <2>3. CASE pc = "write" /\ h2b_buf' = WithNextWord /\ UNCHANGED h2b_in
    <3>1. Stream' = Stream
      BY <2>1, <2>3, WriteElsewhere
    <3> QED
      BY <2>1, <3>1, ReadStays DEF SInv, WordsInPlace, StreamStep, Promise!sVars
  <2>4. CASE pc = "publish" /\ h2b_in' = NewIn /\ UNCHANGED h2b_buf
    BY <2>1, <2>4, PublishAdds, ReadStays, PromiseIs DEF WordsInPlace, StreamStep, Promise!Put
  <2> QED
    BY <1>5, <2>2, <2>3, <2>4 DEF BusFail
<1>6. CASE BtReadWord
  <2> DEFINE l == Len(bt_read)
             w == h2b_buf[Mask(h2b_out + 4 * l)]
  <2>1. /\ UNCHANGED <<ringVars, pc, packet, written, bt_got>>
        /\ bt_read' = Append(bt_read, w) /\ 4 * l < CircCount(h2b_in, h2b_out)
    BY <1>6 DEF BtReadWord
  <2>2. Stream' = Stream
    BY <2>1 DEF Stream
  <2>3. l + 1 \in 1 .. Len(Stream) /\ bt_read \in Seq(Words) /\ l \in Nat
    BY <2>1, StreamFacts
  <2>4. w = Stream[l + 1]
    <3>1. (l + 1) - 1 = l /\ l + 1 \in 1 .. CircCount(h2b_in, h2b_out) \div 4
      BY <2>3, StreamFacts
    <3> HIDE DEF l
    <3> QED
      BY <3>1 DEF Stream
  <2> HIDE DEF w
  <2>5. ReadInOrder'
    <3>1. /\ Len(bt_read') = l + 1 /\ bt_read'[l + 1] = w
          /\ \A i \in 1 .. l : bt_read'[i] = bt_read[i]
      BY <2>1, <2>3
    <3> QED
      BY <2>2, <2>3, <2>4, <3>1 DEF SInv, ReadInOrder
  <2>6. WordsInPlace'
    BY <2>1 DEF SInv, WordsInPlace
  <2> QED
    BY <2>1, <2>2, <2>5, <2>6 DEF SInv, StreamStep, Promise!sVars
<1>7. CASE BtConsume
  <2>1. /\ \E p \in Packets : Promise!Get(p)
        /\ Whole(Stream')
    BY <1>7, ConsumeTakes
  <2>2. bt_read' = <<>> /\ UNCHANGED <<h2b_buf, h2b_in, pc, packet, written>>
    BY <1>7 DEF BtConsume
  <2>3. ReadInOrder' /\ WordsInPlace'
    BY <2>2 DEF SInv, ReadInOrder, WordsInPlace
  <2> QED
    BY <2>1, <2>3 DEF StreamStep
<1>8. CASE UNCHANGED vars
  <2>1. UNCHANGED <<ringVars, btVars, pc, packet, written>>
    BY <1>8 DEF vars
  <2> QED
    BY <2>1, RingUnchanged DEF SInv, WordsInPlace
<1> QED
  BY <1>1, <1>2, <1>3, <1>4, <1>5, <1>6, <1>7, <1>8 DEF Next, HostNext

LEMMA InitStream == Init => Promise!Init /\ SInv
<1> SUFFICES ASSUME Init PROVE Promise!Init /\ SInv
  OBVIOUS
<1>1. CircCount(0, 0) = 0
  <2>1. 0 \in WordOffsets
    BY FwBufSizeAssumption DEF WordOffsets
  <2> QED
    BY <2>1, CircCountIs
<1>2. Stream = <<>>
  BY <1>1 DEF Init, Stream
<1>3. Whole(Stream)
  BY <1>2 DEF Whole
<1> QED
  BY <1>2, <1>3, InitIInv DEF Init, SInv, WordsInPlace, ReadInOrder, Promise!Init

(* The host-to-BT ring is a first-in first-out stream of whole packets:    *)
(* word by word copies that wrap, indices that the two sides move without  *)
(* a lock, and sends that fail half way lose, tear, repeat or reorder no   *)
(* packet.                                                                 *)
THEOREM RingIsPacketStream == Spec => ImplementsPacketStream
<1>1. SInv /\ [Next]_vars => SInv' /\ StreamStep
  BY StepOfStream, NextIInv DEF SInv
<1> QED
  BY <1>1, InitStream, PTL DEF Spec, ImplementsPacketStream, Promise!Spec, StreamStep
=============================================================================
