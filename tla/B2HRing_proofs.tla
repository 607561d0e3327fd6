--------------------------- MODULE B2HRing_proofs ---------------------------
(***************************************************************************)
(* Theorems about the BT-to-host ring, for every ring size, every set of   *)
(* packets, and every length that a header may state, true or not.         *)
(*                                                                         *)
(* That the copy stays in its buffer and b2h_out behind b2h_in follows     *)
(* from what the thread has tested against its snapshot, and from the      *)
(* snapshot being older than the ring, never newer: only the BT core moves *)
(* b2h_in, forwards, and only this thread moves b2h_out.                   *)
(*                                                                         *)
(* That the ring is a PacketStream needs headers that are true, or that    *)
(* state more than any ring holds, and SInv: whole packets lie in the ring,*)
(* the snapshot shows whole ones, and one is in hand.                      *)
(***************************************************************************)
EXTENDS B2HRing, Btsdio_proofs

(* From the snapshot to the write of b2h_out. *)
Reading == {"header", "drop_all", "skip", "copy", "release"}

SnapshotHolds ==
  pc \in Reading =>
    /\ index.out = b2h_out
    /\ CircCount(index.in, index.out) <= CircCount(b2h_in, b2h_out)

(* What the tests of the header leave for each way on. *)
HeaderTested ==
  /\ pc \in {"skip", "copy", "release"} =>
       rounded_len <= CircCount(index.in, index.out)
  /\ pc \in {"copy", "release"} => rounded_len <= RxBufSize

Copied ==
  /\ pc \in {"indices", "header", "drop_all", "skip", "sleep"} => buf = <<>>
  /\ pc = "copy" => 4 * Len(buf) < rounded_len

IInv == TypeOK /\ SnapshotHolds /\ HeaderTested /\ Copied /\ NoBufferLeak

-----------------------------------------------------------------------------
LEMMA RoundedFacts ==
  ASSUME NEW n \in Nat
  PROVE  /\ Rounded(n) \in Nat
         /\ Rounded(n) >= 4
         /\ Rounded(n) % 4 = 0
<1>1. HeaderSize + n \in Nat /\ HeaderSize + n >= 4
  BY DEF HeaderSize
<1> QED
  BY <1>1, RoundUpFacts DEF Rounded

LEMMA RoundedIs ==
  ASSUME TypeOK
  PROVE  /\ rounded_len = Rounded(payload_len)
         /\ rounded_len \in Nat
         /\ rounded_len >= 4
         /\ rounded_len % 4 = 0
<1>1. payload_len \in Nat
  BY DEF TypeOK
<1>2. rounded_len = Rounded(payload_len)
  BY DEF rounded_len, total_len, Rounded
<1> QED
  BY <1>1, <1>2, RoundedFacts

(* A header states a length, whatever it was written as. *)
LEMMA StatedLensType ==
  ASSUME NEW w \in Words
  PROVE  StatedLens(w) \subseteq Nat
  BY PacketsAssumption, RxAssumption DEF StatedLens, Words

LEMMA CountType ==
  ASSUME TypeOK
  PROVE  /\ CircCount(b2h_in, b2h_out) \in Nat
         /\ CircCount(b2h_in, b2h_out) < FwBufSize
         /\ CircCount(index.in, index.out) \in Nat
         /\ CircCount(index.in, index.out) < FwBufSize
  BY CircCountIs, OffsetFacts DEF TypeOK

(* The index the thread gives back lies between the two of the ring: what  *)
(* it frees was published, and nothing else. *)
LEMMA NewOutIs ==
  ASSUME IInv, pc \in {"drop_all", "skip", "release"}
  PROVE  /\ NewOut \in WordOffsets
         /\ CircCount(b2h_in, NewOut) <= CircCount(b2h_in, b2h_out)
         /\ NewOut = Advance(b2h_out, IF pc = "drop_all"
                                       THEN CircCount(index.in, index.out)
                                       ELSE rounded_len)
<1> DEFINE have == CircCount(index.in, index.out)
           n == IF pc = "drop_all" THEN have ELSE rounded_len
<1>1. /\ b2h_in \in WordOffsets /\ b2h_out \in WordOffsets
      /\ index.in \in WordOffsets /\ index.out \in WordOffsets
      /\ index.out = b2h_out
      /\ have <= CircCount(b2h_in, b2h_out)
      /\ pc # "drop_all" => rounded_len <= have
  BY DEF IInv, TypeOK, SnapshotHolds, HeaderTested, Reading
<1>2. /\ have \in Nat /\ have % 4 = 0 /\ have < FwBufSize
      /\ CircCount(b2h_in, b2h_out) \in Nat
  BY <1>1, CircCountIs, OffsetFacts
<1>3. rounded_len \in Nat /\ rounded_len % 4 = 0
  BY RoundedIs DEF IInv
<1>4. n \in Nat /\ n % 4 = 0 /\ n <= CircCount(b2h_in, b2h_out) /\ n <= FwBufSize
  BY <1>1, <1>2, <1>3, FwBufSizeAssumption
<1>5. NewOut = Advance(b2h_out, n)
  <2>1. CASE pc = "drop_all"
    <3>1. have = IF index.out <= index.in THEN index.in - index.out
                                          ELSE index.in - index.out + FwBufSize
      BY <1>1, CircCountIs
    <3>2. Advance(index.out, have) = index.in
      BY <1>1, <3>1, OffsetFacts, FwBufSizeAssumption DEF Advance
    <3> QED
      BY <1>1, <2>1, <3>2 DEF NewOut, PastSkipped, PastPacket
  <2>2. CASE pc = "skip"
    <3>1. Mask(index.out + rounded_len) = Advance(index.out, rounded_len)
      BY <1>1, <1>3, <1>4, <2>2, MaskIsAdvance
    <3> QED
      BY <1>1, <2>2, <3>1 DEF NewOut, PastSkipped, PastPacket
  <2>3. CASE pc = "release"
    <3>1. Mask(RingNext(index.out, rounded_len)) = Advance(index.out, rounded_len)
      BY <1>1, <1>3, <1>4, <2>3, RingNextIs
    <3> QED
      BY <1>1, <2>3, <3>1 DEF NewOut, PastSkipped, PastPacket
  <2> QED
    BY <2>1, <2>2, <2>3
<1> HIDE DEF n
<1>6. Advance(b2h_out, n) \in WordOffsets
  BY <1>1, <1>4, AdvanceType
<1>7. CircCount(b2h_in, Advance(b2h_out, n)) = CircCount(b2h_in, b2h_out) - n
  BY <1>1, <1>4, CountShrinks
<1> QED
  BY <1>2, <1>4, <1>5, <1>6, <1>7 DEF n

(* The next word to copy lies in the ring. *)
LEMMA CopyAddr ==
  ASSUME IInv, pc = "copy"
  PROVE  /\ RingAddr(index.out, rounded_len, 4 * Len(buf)) \in WordOffsets
         /\ RingAddr(index.out, rounded_len, 4 * Len(buf)) =
              Advance(index.out, 4 * Len(buf))
<1> DEFINE j == 4 * Len(buf)
<1>1. index.out \in WordOffsets /\ buf \in Seq(Words) /\ j < rounded_len
  BY DEF IInv, TypeOK, Copied
<1>2. j \in Nat /\ j % 4 = 0
  BY <1>1
<1>3. rounded_len \in Nat /\ rounded_len < FwBufSize
  <2>1. rounded_len <= CircCount(index.in, index.out)
    BY DEF IInv, HeaderTested
  <2>2. /\ rounded_len \in Nat /\ CircCount(index.in, index.out) \in Nat
        /\ CircCount(index.in, index.out) < FwBufSize
    BY RoundedIs, CountType DEF IInv
  <2> QED
    BY <2>1, <2>2, FwBufSizeAssumption
<1>4. j <= FwBufSize
  BY <1>1, <1>2, <1>3, FwBufSizeAssumption
<1> HIDE DEF j
<1>5. RingAddr(index.out, rounded_len, j) = Advance(index.out, j)
  BY <1>1, <1>2, <1>3, RingAddrIs
<1> QED
  BY <1>1, <1>2, <1>4, <1>5, AdvanceType DEF j

(* What the BT core puts in has the length it has, not the one it states. *)
LEMMA RealLenFacts ==
  ASSUME NEW p \in Packets
  PROVE  /\ Real!RoundedLen(p) \in Nat
         /\ Real!RoundedLen(p) % 4 = 0
<1>1. RealLen[p] \in Nat
  BY RxAssumption
<1> QED
  BY <1>1 DEF Real!RoundedLen, Real!RoundUp, Real!HeaderSize

-----------------------------------------------------------------------------
LEMMA InitIInv == Init => IInv
<1> SUFFICES ASSUME Init PROVE IInv
  OBVIOUS
<1>1. 0 \in WordOffsets
  BY FwBufSizeAssumption DEF WordOffsets
<1>2. TypeOK
  BY <1>1, RxAssumption DEF Init, TypeOK, Words, Word, PCs
<1> QED
  BY <1>2, RxAssumption
     DEF Init, IInv, SnapshotHolds, Reading, HeaderTested, Copied, NoBufferLeak

(* ring_read is left, and its locals with it. *)
LEMMA ForgetKeepsIInv ==
  ASSUME IInv, pc # "fill", pc' \in {"indices", "sleep"}, Forget,
         ret' \in {"none", "ok", "EAGAIN", "ENOBUFS", "EIO"},
         b2h_out' \in WordOffsets, UNCHANGED <<b2h_buf, b2h_in, nbVars>>
  PROVE  IInv'
<1>1. 0 \in WordOffsets
  BY FwBufSizeAssumption DEF WordOffsets
<1>2. TypeOK'
  BY <1>1 DEF IInv, TypeOK, Forget, PCs, nbVars
<1> QED
  BY <1>2 DEF IInv, SnapshotHolds, Reading, HeaderTested, Copied, NoBufferLeak,
     Forget, nbVars

LEMMA ReadIndicesIInv == IInv /\ ReadIndices => IInv'
<1> SUFFICES ASSUME IInv, ReadIndices PROVE IInv'
  OBVIOUS
<1>1. TypeOK'
  BY DEF ReadIndices, ringVars, nbVars, IInv, TypeOK, PCs
<1>2. SnapshotHolds'
  BY CountType DEF ReadIndices, ringVars, IInv, SnapshotHolds
<1> QED
  BY <1>1, <1>2 DEF ReadIndices, ringVars, nbVars, IInv, HeaderTested, Copied,
     NoBufferLeak

(* The tests of the header, in the order in which they are made. *)
LEMMA ReadHeaderIInv == IInv /\ ReadHeader => IInv'
<1> SUFFICES ASSUME IInv, ReadHeader PROVE IInv'
  OBVIOUS
<1>1. pc = "header" /\ index.out \in WordOffsets /\ buf = <<>>
  BY DEF ReadHeader, IInv, TypeOK, Copied
<1>2. PICK n \in StatedLens(b2h_buf[index.out]) :
        \/ ~Invalid(n) /\ Incomplete(n) /\ ReturnNothing("EAGAIN")
        \/ /\ Invalid(n) \/ ~Incomplete(n)
           /\ payload_len' = n
           /\ pc' = CASE Invalid(n) -> "drop_all"
                      [] ~Invalid(n) /\ TooLarge(n) -> "skip"
                      [] ~Invalid(n) /\ ~TooLarge(n) -> "copy"
           /\ UNCHANGED <<index, buf, ret>>
  BY DEF ReadHeader
<1>3. n \in Nat
  BY <1>1, StatedLensType DEF IInv, TypeOK
<1>4. UNCHANGED <<ringVars, nbVars>>
  BY DEF ReadHeader
<1>5. CASE ReturnNothing("EAGAIN")
  BY <1>1, <1>4, <1>5, ForgetKeepsIInv
     DEF ReturnNothing, ringVars, IInv, TypeOK
<1>6. ASSUME Invalid(n) \/ ~Incomplete(n), payload_len' = n,
             pc' = CASE Invalid(n) -> "drop_all"
                     [] ~Invalid(n) /\ TooLarge(n) -> "skip"
                     [] ~Invalid(n) /\ ~TooLarge(n) -> "copy",
             UNCHANGED <<index, buf, ret>>
      PROVE  IInv'
  <2>1. pc' \in {"drop_all", "skip", "copy"}
    BY <1>6
  <2>2. TypeOK'
    BY <1>3, <1>4, <1>6, <2>1 DEF ringVars, nbVars, IInv, TypeOK, PCs
  <2>3. SnapshotHolds'
    BY <1>1, <1>4, <1>6 DEF ringVars, IInv, SnapshotHolds, Reading
  <2>4. rounded_len' = Rounded(n)
    BY <1>6 DEF rounded_len, total_len, Rounded
  <2>5. Rounded(n) \in Nat /\ Rounded(n) >= 4
    BY <1>3, RoundedFacts
  <2>6. /\ CircCount(index.in, index.out) \in Nat
        /\ RxBufSize \in Nat
    BY CountType, RxAssumption DEF IInv
  <2>7. /\ pc' # "drop_all" => ~Incomplete(n)
        /\ pc' = "copy" => ~TooLarge(n)
    BY <1>6, <2>1
  <2>8. HeaderTested'
    BY <1>6, <2>1, <2>4, <2>5, <2>6, <2>7 DEF HeaderTested, Incomplete, TooLarge
  <2>9. Copied'
    BY <1>1, <1>6, <2>1, <2>4, <2>5 DEF Copied
  <2> QED
    BY <1>1, <1>4, <2>1, <2>2, <2>3, <2>8, <2>9 DEF IInv, NoBufferLeak, nbVars
<1> QED
  BY <1>2, <1>5, <1>6

LEMMA CopyWordIInv == IInv /\ CopyWord => IInv'
<1> SUFFICES ASSUME IInv, CopyWord PROVE IInv'
  OBVIOUS
<1> DEFINE w == b2h_buf[RingAddr(index.out, rounded_len, 4 * Len(buf))]
<1>1. pc = "copy" /\ buf' = Append(buf, w)
  BY DEF CopyWord
<1>2. buf \in Seq(Words) /\ w \in Words
  BY <1>1, CopyAddr DEF IInv, TypeOK
<1>3. buf' \in Seq(Words) /\ Len(buf') = Len(buf) + 1 /\ Len(buf) \in Nat
  BY <1>1, <1>2
<1>4. pc' \in {"copy", "release"} /\ (pc' = "copy" => 4 * Len(buf') # rounded_len)
  BY DEF CopyWord
<1>5. rounded_len' = rounded_len /\ rounded_len \in Nat /\ rounded_len % 4 = 0
  BY RoundedIs DEF CopyWord, IInv, rounded_len, total_len
<1>6. TypeOK'
  BY <1>3, <1>4 DEF CopyWord, ringVars, nbVars, IInv, TypeOK, PCs
<1>7. Copied'
  <2>1. 4 * Len(buf) < rounded_len
    BY <1>1 DEF IInv, Copied
  <2>2. 4 * Len(buf') <= rounded_len
    BY <1>3, <1>5, <2>1
  <2> QED
    BY <1>3, <1>4, <1>5, <2>2 DEF Copied
<1>8. SnapshotHolds' /\ HeaderTested'
  BY <1>1, <1>4, <1>5
     DEF CopyWord, ringVars, IInv, SnapshotHolds, Reading, HeaderTested
<1> QED
  BY <1>1, <1>4, <1>6, <1>7, <1>8 DEF CopyWord, nbVars, IInv, NoBufferLeak

LEMMA WriteOutIInv == IInv /\ WriteOut => IInv'
<1> SUFFICES ASSUME IInv, WriteOut PROVE IInv'
  OBVIOUS
<1>1. pc \in {"drop_all", "skip", "release"} /\ pc' \in {"toggle", "drop_toggle"}
  BY DEF WriteOut
<1>2. b2h_out' \in WordOffsets
  BY <1>1, NewOutIs DEF WriteOut
<1>3. TypeOK'
  BY <1>1, <1>2 DEF WriteOut, nbVars, IInv, TypeOK, PCs
<1> QED
  BY <1>1, <1>3 DEF WriteOut, nbVars, IInv, SnapshotHolds, Reading,
     HeaderTested, Copied, NoBufferLeak

LEMMA BusFailIInv == IInv /\ BusFail => IInv'
<1> SUFFICES ASSUME IInv, BusFail PROVE IInv'
  OBVIOUS
<1>1. pc # "fill"
  BY DEF BusFail
<1>2. b2h_out' \in WordOffsets
  BY NewOutIs DEF BusFail, IInv, TypeOK
<1> QED
  BY <1>1, <1>2, ForgetKeepsIInv DEF BusFail, ReturnNothing

(* The dispatch: a net_buf is in the pool, in hand, or with the stack.  *)
LEMMA DispatchIInv ==
  ASSUME IInv, GetNetBuf \/ Deliver \/ TooLittleRoom \/ StackFree
  PROVE  IInv'
<1>1. /\ nb_free \in Nat /\ nb_stack \in Nat /\ NbCount \in Nat
      /\ nb_free + nb_stack + (IF pc = "fill" THEN 1 ELSE 0) = NbCount
  BY RxAssumption DEF IInv, TypeOK, NoBufferLeak
<1>2. 0 \in WordOffsets
  BY FwBufSizeAssumption DEF WordOffsets
<1>3. CASE GetNetBuf
  <2>1. nb_free' \in 0 .. NbCount
    BY <1>1, <1>3 DEF GetNetBuf
  <2>2. TypeOK'
    BY <1>3, <2>1 DEF GetNetBuf, ringVars, IInv, TypeOK, PCs
  <2>3. NoBufferLeak'
    BY <1>1, <1>3 DEF GetNetBuf, NoBufferLeak
  <2> QED
    BY <1>3, <2>2, <2>3 DEF GetNetBuf, IInv, SnapshotHolds, Reading,
       HeaderTested, Copied
<1>4. CASE Deliver
  <2>1. nb_stack' \in 0 .. NbCount
    BY <1>1, <1>4 DEF Deliver
  <2>2. delivered' \in Packets \cup {NoPacket}
    BY <1>4 DEF Deliver
  <2>3. TypeOK'
    BY <1>2, <1>4, <2>1, <2>2 DEF Deliver, NextTurn, Forget, ringVars, IInv, TypeOK, PCs
  <2>4. NoBufferLeak'
    BY <1>1, <1>4 DEF Deliver, NextTurn, NoBufferLeak
  <2> QED
    BY <1>4, <2>3, <2>4 DEF Deliver, NextTurn, Forget, IInv, SnapshotHolds,
       Reading, HeaderTested, Copied
<1>5. CASE TooLittleRoom
  <2>1. nb_free' \in 0 .. NbCount
    BY <1>1, <1>5 DEF TooLittleRoom, GivenBack
  <2>2. TypeOK'
    BY <1>2, <1>5, <2>1 DEF TooLittleRoom, GivenBack, NextTurn, Forget, ringVars, IInv, TypeOK, PCs
  <2>3. NoBufferLeak'
    BY <1>1, <1>5 DEF TooLittleRoom, GivenBack, NextTurn, NoBufferLeak
  <2> QED
    BY <1>5, <2>2, <2>3 DEF TooLittleRoom, GivenBack, NextTurn, Forget, IInv,
       SnapshotHolds, Reading, HeaderTested, Copied
<1>6. CASE StackFree
  <2>1. nb_free' \in 0 .. NbCount /\ nb_stack' \in 0 .. NbCount
    BY <1>1, <1>6 DEF StackFree
  <2>2. TypeOK'
    BY <1>6, <2>1 DEF StackFree, ringVars, IInv, TypeOK
  <2>3. NoBufferLeak'
    BY <1>1, <1>6 DEF StackFree, NoBufferLeak
  <2> QED
    BY <1>6, <2>2, <2>3 DEF StackFree, ringVars, IInv, SnapshotHolds,
       HeaderTested, Copied, rounded_len, total_len
<1> QED
  BY <1>3, <1>4, <1>5, <1>6

(* The BT core only adds to what the snapshot covers. *)
LEMMA BtPutIInv ==
  ASSUME IInv, NEW p \in Packets, BtPut(p)
  PROVE  IInv'
<1> DEFINE n == Real!RoundedLen(p)
<1>1. /\ b2h_in \in WordOffsets /\ b2h_out \in WordOffsets
      /\ n \in Nat /\ n % 4 = 0
      /\ b2h_in' = Mask(b2h_in + n)
      /\ n <= CircSpace(b2h_in, b2h_out)
  BY RealLenFacts DEF BtPut, IInv, TypeOK
<1> HIDE DEF n
<1>2. /\ CircCount(b2h_in, b2h_out) \in Nat
      /\ CircCount(b2h_in, b2h_out) + n < FwBufSize
      /\ n <= FwBufSize
  BY <1>1, CircSpaceIs, CountType, FwBufSizeAssumption DEF IInv
<1>3. b2h_in' = Advance(b2h_in, n) /\ b2h_in' \in WordOffsets
  BY <1>1, <1>2, MaskIsAdvance, AdvanceType
<1>4. CircCount(b2h_in', b2h_out) = CircCount(b2h_in, b2h_out) + n
  BY <1>1, <1>2, <1>3, CountGrows
<1>5. b2h_buf' \in [WordOffsets -> Words]
  <2>1. \A o \in WordOffsets : CircCount(o, b2h_in) \in Nat
    BY <1>1, CircCountIs, OffsetFacts
  <2> QED
    BY <2>1 DEF BtPut, IInv, TypeOK, Word, Words
<1>6. TypeOK'
  BY <1>3, <1>5 DEF BtPut, nbVars, IInv, TypeOK
<1>7. SnapshotHolds'
  BY <1>1, <1>2, <1>4, CountType DEF BtPut, IInv, SnapshotHolds
<1> QED
  BY <1>6, <1>7 DEF BtPut, nbVars, IInv, HeaderTested, Copied, NoBufferLeak,
     rounded_len, total_len

(* Every step keeps the invariant. *)
LEMMA NextIInv == IInv /\ [Next]_vars => IInv'
<1> SUFFICES ASSUME IInv, [Next]_vars PROVE IInv'
  OBVIOUS
<1>1. CASE NoData
  BY <1>1, ForgetKeepsIInv DEF NoData, ReturnNothing, ringVars, IInv, TypeOK
<1>2. CASE DropToggle
  BY <1>2, ForgetKeepsIInv DEF DropToggle, ReturnNothing, ringVars, IInv, TypeOK
<1>3. ASSUME NEW v \in {"ok", "EIO"}, ToggleDiscard(v)
      PROVE  IInv'
  BY <1>3, ForgetKeepsIInv DEF ToggleDiscard, ReturnNothing, ringVars, IInv, TypeOK
<1>4. CASE DropPacket
  BY <1>4, ForgetKeepsIInv DEF DropPacket, NextTurn, ringVars, IInv, TypeOK
<1>5. CASE Toggle
  BY <1>5 DEF Toggle, ringVars, nbVars, IInv, TypeOK, PCs, SnapshotHolds,
     Reading, HeaderTested, Copied, NoBufferLeak
<1>6. CASE WakeUp
  <2>1. buf' = <<>>
    BY <1>6 DEF WakeUp, IInv, Copied
  <2> QED
    BY <1>6, <2>1 DEF WakeUp, ringVars, nbVars, IInv, TypeOK, PCs,
       SnapshotHolds, Reading, HeaderTested, Copied, NoBufferLeak
<1>7. CASE UNCHANGED vars
  BY <1>7 DEF vars, ringVars, nbVars, IInv, TypeOK, SnapshotHolds, Reading,
     HeaderTested, Copied, NoBufferLeak, rounded_len, total_len
<1> QED
  BY <1>1, <1>2, <1>3, <1>4, <1>5, <1>6, <1>7, ReadIndicesIInv, ReadHeaderIInv,
     CopyWordIInv, WriteOutIInv, BusFailIInv, DispatchIInv, BtPutIInv
     DEF Next, RxNext

(* IInv is an invariant of the ring. *)
THEOREM InductiveInvariant == Spec => []IInv
  BY InitIInv, NextIInv, PTL DEF Spec

-----------------------------------------------------------------------------
(* Every variable stays in its type; above all b2h_out is always a word    *)
(* offset of the ring, whatever length was added to it.                    *)
THEOREM TypeCorrect == Spec => []TypeOK
<1>1. IInv => TypeOK
  BY DEF IInv
<1> QED
  BY <1>1, InductiveInvariant, PTL

(* Whatever a header states, ring_read never copies beyond the end of its  *)
(* buffer, nor beyond what the BT core had published.                      *)
THEOREM CopiesInBounds == Spec => []CopyInBounds
<1>1. IInv => CopyInBounds
  <2> SUFFICES ASSUME IInv, pc = "copy"
               PROVE  /\ 4 * Len(buf) < rounded_len
                      /\ rounded_len <= RxBufSize
                      /\ rounded_len <= CircCount(b2h_in, b2h_out)
    BY DEF CopyInBounds
  <2>1. /\ 4 * Len(buf) < rounded_len
        /\ rounded_len <= RxBufSize
        /\ rounded_len <= CircCount(index.in, index.out)
        /\ CircCount(index.in, index.out) <= CircCount(b2h_in, b2h_out)
    BY DEF IInv, Copied, HeaderTested, SnapshotHolds, Reading
  <2> QED
    BY <2>1, RoundedIs, CountType DEF IInv
<1> QED
  BY <1>1, InductiveInvariant, PTL

(* No path through the dispatch loses a net_buf or gives one back twice.   *)
THEOREM NoBufferLeaks == Spec => []NoBufferLeak
<1>1. IInv => NoBufferLeak
  BY DEF IInv
<1> QED
  BY <1>1, InductiveInvariant, PTL

(* ring_read frees only what was published: b2h_out never passes b2h_in,   *)
(* although it goes by lengths it was told and a snapshot that is old.     *)
THEOREM OutStaysBehindIn == Spec => OutNeverPassesIn
<1> DEFINE A == \/ CircCount(b2h_in, b2h_out') <= CircCount(b2h_in, b2h_out)
                \/ b2h_in' # b2h_in
<1>1. IInv /\ [Next]_vars => [A]_b2h_out
  <2> SUFFICES ASSUME IInv, Next, b2h_out' # b2h_out PROVE A
    BY DEF vars, ringVars
  <2>1. pc \in {"drop_all", "skip", "release"} /\ b2h_out' = NewOut
    BY DEF Next, RxNext, ReadIndices, NoData, ReadHeader, CopyWord, WriteOut,
       BusFail, DropToggle, Toggle, ToggleDiscard, GetNetBuf, DropPacket,
       Deliver, TooLittleRoom, WakeUp, StackFree, BtPut, ringVars
  <2> QED
    BY <2>1, NewOutIs
<1> QED
  BY <1>1, InductiveInvariant, PTL DEF Spec, OutNeverPassesIn

-----------------------------------------------------------------------------
(* The refinement, with true headers or ones that no ring can hold.  A     *)
(* packet is as long as it is, not as its header states; RP has the lemmas *)
(* about whole packets for these lengths.                                  *)
RP == INSTANCE Btsdio_proofs WITH PayloadLen <- RealLen

TrueOrInvalid ==
  \A p \in Packets : PayloadLen[p] = RealLen[p] \/ Invalid(PayloadLen[p])

(* The words that the snapshot shows end where a packet does, ... *)
Seen == CircCount(index.in, index.out) \div 4

SeenWhole ==
  pc \in Reading =>
    /\ Seen \in 1 .. Len(InRing)
    /\ Seen < Len(InRing) => InRing[Seen + 1].off = 0

(* ... the length in hand is that of the packet at the front, and what has *)
(* been copied is its words, ...                                           *)
FrontInHand ==
  /\ pc \in {"skip", "copy", "release"} =>
       rounded_len = Real!RoundedLen(InRing[1].pkt)
  /\ pc \in {"copy", "release"} => \A i \in 1 .. Len(buf) : buf[i] = InRing[i]
  /\ pc = "release" => 4 * Len(buf) = rounded_len

(* ... and from then on a whole packet. *)
Holding == {"toggle", "dispatch", "fill"}

HandWhole ==
  pc \in Holding =>
    /\ \E p \in Packets : buf = Real!PacketWords(p)
    /\ 4 * Len(buf) <= RxBufSize

SInv == IInv /\ RP!Whole(InRing) /\ SeenWhole /\ FrontInHand /\ HandWhole

LEMMA RealAssumption == RP!FwBufSizeAssumption /\ RP!PacketsAssumption
  BY FwBufSizeAssumption, RxAssumption DEF RP!FwBufSizeAssumption, RP!PacketsAssumption

LEMMA SameRing ==
  /\ RP!WordOffsets = WordOffsets
  /\ \A x, n : RP!Advance(x, n) = Advance(x, n)
  /\ \A in, out : RP!CircCount(in, out) = CircCount(in, out)
  /\ \A b, in, out : RP!Between(b, in, out) = Between(b, in, out)
<1>1. \A x : RP!Mask(x) = Mask(x)
  BY DEF RP!Mask, Mask
<1>2. \A in, out : RP!CircCount(in, out) = CircCount(in, out)
  BY <1>1 DEF RP!CircCount, CircCount
<1> QED
  BY <1>1, <1>2 DEF RP!WordOffsets, WordOffsets, RP!Advance, Advance, RP!Between, Between

LEMMA SamePackets ==
  /\ \A p, j : RP!Word(p, j) = Word(p, j)
  /\ \A p : RP!RoundedLen(p) = Real!RoundedLen(p)
  /\ \A p : RP!PacketWords(p) = Real!PacketWords(p)
  /\ \A p : Promise!RoundedLen(p) = Real!RoundedLen(p)
  /\ \A p : Promise!PacketWords(p) = Real!PacketWords(p)
<1>1. \A p : RP!RoundedLen(p) = Real!RoundedLen(p)
  BY DEF RP!RoundedLen, Real!RoundedLen, RP!RoundUp, Real!RoundUp, RP!HeaderSize,
         Real!HeaderSize
<1>2. \A p : Promise!RoundedLen(p) = Real!RoundedLen(p)
  BY DEF Promise!RoundedLen, Real!RoundedLen, Promise!RoundUp, Real!RoundUp,
         Promise!HeaderSize, Real!HeaderSize
<1> QED
  BY <1>1, <1>2 DEF RP!Word, Word, Real!Word, Promise!Word,
     RP!PacketWords, Real!PacketWords, Promise!PacketWords

LEMMA InRingIs ==
  /\ InRing = Between(b2h_buf, b2h_in, b2h_out)
  /\ InRing' = Between(b2h_buf', b2h_in', b2h_out')
  BY DEF InRing, Between

LEMMA WordsAre == \A p \in Packets : \A j \in Nat : RP!Word(p, j) \in Words
  BY SamePackets DEF Word, Words

(* A packet as words. *)
LEMMA PacketIs ==
  ASSUME NEW p \in Packets
  PROVE  /\ Real!PacketWords(p) \in Seq(Words)
         /\ RP!WordCount(p) \in Nat \ {0}
         /\ Len(Real!PacketWords(p)) = RP!WordCount(p)
         /\ Real!RoundedLen(p) = 4 * RP!WordCount(p)
         /\ Real!PacketWords(p) # <<>>
         /\ Real!PacketWords(p)[1] = Word(p, 0)
<1>1. /\ RP!PacketWords(p) \in Seq(Words)
      /\ Len(RP!PacketWords(p)) = RP!WordCount(p)
      /\ \A i \in 1 .. RP!WordCount(p) : RP!PacketWords(p)[i] = RP!Word(p, 4 * (i - 1))
  BY RealAssumption, WordsAre, RP!PacketWordsFacts
<1>2. RP!WordCount(p) \in Nat \ {0} /\ RP!RoundedLen(p) = 4 * RP!WordCount(p)
  BY RealAssumption, RP!WordCountFacts
<1>3. 1 \in 1 .. RP!WordCount(p) /\ 4 * (1 - 1) = 0
  BY <1>2
<1> QED
  BY <1>1, <1>2, <1>3, SamePackets

(* What is in the ring, and the packet at its front. *)
LEMMA RingFacts ==
  ASSUME SInv
  PROVE  /\ InRing \in Seq(Words) /\ Len(InRing) \in Nat
         /\ 4 * Len(InRing) = CircCount(b2h_in, b2h_out)
  BY InRingIs, BetweenLen, BetweenType DEF SInv, IInv, TypeOK

LEMMA FrontFacts ==
  ASSUME SInv, InRing # <<>>
  PROVE  LET p == InRing[1].pkt  n == RP!WordCount(p)
         IN  /\ p \in Packets /\ InRing[1] = Word(p, 0)
             /\ n \in Nat \ {0} /\ n <= Len(InRing) /\ Real!RoundedLen(p) = 4 * n
             /\ SubSeq(InRing, 1, n) = Real!PacketWords(p)
             /\ n < Len(InRing) => InRing[n + 1].off = 0
<1> DEFINE p == InRing[1].pkt
           n == RP!WordCount(p)
<1>1. InRing \in Seq(Words) /\ RP!Whole(InRing)
  BY RingFacts DEF SInv
<1>2. /\ p \in Packets /\ InRing[1] = RP!Word(p, 0)
      /\ n <= Len(InRing)
      /\ SubSeq(InRing, 1, n) = RP!PacketWords(p)
      /\ n < Len(InRing) => InRing[n + 1].off = 0
  BY <1>1, RealAssumption, RP!WholeFirst
<1> QED
  BY <1>2, PacketIs, SamePackets

(* What the thread is reading is there. *)
LEMMA ReadingFacts ==
  ASSUME SInv, pc \in Reading
  PROVE  /\ InRing # <<>>
         /\ Seen \in Nat /\ 4 * Seen = CircCount(index.in, index.out)
         /\ index.out = b2h_out
         /\ b2h_buf[index.out] = InRing[1]
<1>1. Seen \in 1 .. Len(InRing) /\ index.out = b2h_out
  BY DEF SInv, SeenWhole, IInv, SnapshotHolds
<1>2. InRing # <<>> /\ 1 \in 1 .. Len(InRing)
  BY <1>1, RingFacts
<1>3. /\ b2h_in \in WordOffsets /\ b2h_out \in WordOffsets
      /\ index.in \in WordOffsets /\ index.out \in WordOffsets
  BY DEF SInv, IInv, TypeOK
<1>4. Seen \in Nat /\ 4 * Seen = CircCount(index.in, index.out)
  <2> DEFINE c == CircCount(index.in, index.out)
  <2>1. c \in Nat /\ c % 4 = 0
    BY <1>3, CircCountIs, OffsetFacts
  <2> HIDE DEF c
  <2> QED
    BY <2>1 DEF Seen, c
<1>5. b2h_buf[index.out] = InRing[1]
  <2>1. Between(b2h_buf, b2h_in, b2h_out)[1] = b2h_buf[Advance(b2h_out, 4 * (1 - 1))]
    BY <1>2, <1>3, InRingIs, BetweenAt
  <2>2. 4 * (1 - 1) = 0 /\ Advance(b2h_out, 0) = b2h_out
    BY <1>3, OffsetFacts DEF Advance
  <2> QED
    BY <1>1, <2>1, <2>2, InRingIs
<1> QED
  BY <1>1, <1>2, <1>4, <1>5

-----------------------------------------------------------------------------
(* The steps of the stream. *)
StreamStep ==
  [Promise!LoseOldest \/ \E p \in Packets : Promise!Put(p) \/ Promise!Get(p)]_Promise!sVars

(* The thread lets go of the packet in hand. *)
LEMMA HandDropped ==
  ASSUME SInv, pc \in Holding, pc' \notin Holding, UNCHANGED ringVars
  PROVE  /\ InRing' = InRing
         /\ \E p \in Packets :
              /\ buf = Real!PacketWords(p)
              /\ Promise!Leave(p)
         /\ UNCHANGED delivered => Promise!LoseOldest
<1> DEFINE s == InHand \o InRing
<1>1. PICK p \in Packets : buf = Real!PacketWords(p)
  BY DEF SInv, HandWhole
<1> DEFINE n == RP!WordCount(p)
<1>2. buf \in Seq(Words) /\ Len(buf) = n /\ n \in Nat \ {0} /\ Real!RoundedLen(p) = 4 * n
  BY <1>1, PacketIs
<1> HIDE DEF n
<1>3. InRing \in Seq(Words) /\ Len(InRing) \in Nat
  BY RingFacts
<1>4. InHand = buf /\ InHand' = <<>> /\ InRing' = InRing
  BY DEF InHand, Holding, InRing, ringVars
<1>5. (InHand \o InRing)' = InRing
  BY <1>3, <1>4, ConcatEmptySeq
<1>6. /\ s \in Seq(Words) /\ Len(s) = n + Len(InRing)
      /\ \A i \in 1 .. n + Len(InRing) :
           s[i] = IF i <= n THEN buf[i] ELSE InRing[i - n]
  BY <1>2, <1>3, <1>4, ConcatProperties
<1> HIDE DEF s
<1>7. SubSeq(s, 1, n) = buf
  <2>1. /\ SubSeq(s, 1, n) \in Seq(Words) /\ Len(SubSeq(s, 1, n)) = n
        /\ \A i \in 1 .. n : SubSeq(s, 1, n)[i] = s[i]
    BY <1>2, <1>3, <1>6
  <2>2. \A i \in 1 .. n : SubSeq(s, 1, n)[i] = buf[i]
    BY <1>2, <1>3, <1>6, <2>1
  <2> QED
    BY <1>2, <2>1, <2>2, SeqEqual
<1>8. SubSeq(s, n + 1, Len(s)) = InRing
  <2> DEFINE t == SubSeq(s, n + 1, Len(s))
  <2>1. /\ t \in Seq(Words) /\ Len(t) = Len(InRing)
        /\ \A i \in 1 .. Len(InRing) : t[i] = s[n + i]
    BY <1>2, <1>3, <1>6
  <2> HIDE DEF t
  <2>2. ASSUME NEW i \in 1 .. Len(InRing) PROVE t[i] = InRing[i]
    <3>1. n + i \in 1 .. n + Len(InRing) /\ ~(n + i <= n) /\ n + i - n = i
      BY <1>2, <1>3
    <3>2. s[n + i] = InRing[(n + i) - n]
      BY <1>6, <3>1
    <3> QED
      BY <1>2, <1>3, <2>1, <3>1, <3>2
  <2>3. t = InRing
    BY <1>3, <2>1, <2>2, SeqEqual
  <2> QED
    BY <2>3 DEF t
<1>9. Promise!Leave(p)
  <2>1. Promise!RoundedLen(p) \div 4 = n /\ Promise!PacketWords(p) = buf
    BY <1>1, <1>2, SamePackets
  <2>2. n <= Len(s)
    BY <1>2, <1>3, <1>6
  <2>3. (InHand \o InRing)' = SubSeq(s, n + 1, Len(s))
    BY <1>5, <1>8
  <2> QED
    BY <1>7, <2>1, <2>2, <2>3 DEF Promise!Leave, s
<1>10. n < Len(s) => s[n + 1].off = 0
  <2> SUFFICES ASSUME n < Len(s) PROVE s[n + 1].off = 0
    OBVIOUS
  <2>1. Len(InRing) # 0 /\ n + 1 \in 1 .. n + Len(InRing) /\ ~(n + 1 <= n) /\ n + 1 - n = 1
    BY <1>2, <1>3, <1>6
  <2>2. InRing # <<>>
    BY <2>1
  <2>3. InRing[1].off = 0
    BY <2>2, FrontFacts DEF Word
  <2>4. s[n + 1] = InRing[(n + 1) - n]
    BY <1>6, <2>1
  <2>5. (n + 1) - n = 1
    BY <1>2
  <2>6. s[n + 1] = InRing[1]
    BY <2>4, <2>5
  <2> QED
    BY <2>3, <2>6
<1>11. UNCHANGED delivered => Promise!LoseOldest
  <2>1. n \in 1 .. Len(s)
    BY <1>2, <1>3, <1>6
  <2> QED
    BY <1>5, <1>8, <1>10, <2>1 DEF Promise!LoseOldest, s
<1> QED
  BY <1>1, <1>4, <1>9, <1>11

(* The thread gives space back: whole packets leave the ring, and if it    *)
(* has copied the first one it is that one.                                *)
LEMMA OutMoves ==
  ASSUME SInv, pc \in {"drop_all", "skip", "release"}, b2h_out' = NewOut,
         UNCHANGED <<b2h_buf, b2h_in>>
  PROVE  /\ RP!Whole(InRing')
         /\ \E n \in 1 .. Len(InRing) :
              /\ n < Len(InRing) => InRing[n + 1].off = 0
              /\ InRing' = SubSeq(InRing, n + 1, Len(InRing))
              /\ pc = "release" =>
                   /\ SubSeq(InRing, 1, n) = buf
                   /\ InRing[1].pkt \in Packets
                   /\ buf = Real!PacketWords(InRing[1].pkt)
<1> DEFINE p == InRing[1].pkt
           n == IF pc = "drop_all" THEN Seen ELSE RP!WordCount(p)
<1>1. /\ InRing # <<>> /\ Seen \in Nat /\ 4 * Seen = CircCount(index.in, index.out)
      /\ Seen \in 1 .. Len(InRing)
      /\ Seen < Len(InRing) => InRing[Seen + 1].off = 0
  BY ReadingFacts DEF Reading, SInv, SeenWhole
<1>2. /\ p \in Packets
      /\ RP!WordCount(p) \in Nat \ {0} /\ RP!WordCount(p) <= Len(InRing)
      /\ Real!RoundedLen(p) = 4 * RP!WordCount(p)
      /\ SubSeq(InRing, 1, RP!WordCount(p)) = Real!PacketWords(p)
      /\ RP!WordCount(p) < Len(InRing) => InRing[RP!WordCount(p) + 1].off = 0
  BY <1>1, FrontFacts
<1> HIDE DEF p
<1>3. n \in 1 .. Len(InRing) /\ (n < Len(InRing) => InRing[n + 1].off = 0)
  BY <1>1, <1>2, RingFacts
<1>4. pc # "drop_all" => rounded_len = 4 * RP!WordCount(p)
  BY <1>2 DEF SInv, FrontInHand, p
<1>5. b2h_out' = Advance(b2h_out, 4 * n)
  BY <1>1, <1>4, NewOutIs DEF SInv
<1> HIDE DEF n
<1>6. InRing' = SubSeq(InRing, n + 1, Len(InRing))
  <2>1. /\ b2h_buf \in [WordOffsets -> Words]
        /\ b2h_in \in WordOffsets /\ b2h_out \in WordOffsets
    BY DEF SInv, IInv, TypeOK
  <2>2. n \in Nat /\ 4 * n <= CircCount(b2h_in, b2h_out)
    BY <1>3, RingFacts
  <2>3. Between(b2h_buf, b2h_in, Advance(b2h_out, 4 * n)) = SubSeq(InRing, n + 1, Len(InRing))
    BY <2>1, <2>2, BetweenTake, InRingIs
  <2> QED
    BY <1>5, <2>3, InRingIs
<1>7. RP!Whole(InRing')
  <2>1. InRing \in Seq(Words) /\ RP!Whole(InRing) /\ n \in 0 .. Len(InRing)
    BY <1>3, RingFacts DEF SInv
  <2> QED
    BY <1>3, <1>6, <2>1, RealAssumption, RP!WholeFrom
<1>8. ASSUME pc = "release" PROVE SubSeq(InRing, 1, n) = buf /\ buf = Real!PacketWords(p)
  <2>1. n = RP!WordCount(p) /\ buf \in Seq(Words) /\ 4 * Len(buf) = 4 * n
        /\ \A i \in 1 .. Len(buf) : buf[i] = InRing[i]
    BY <1>4, <1>8 DEF SInv, FrontInHand, IInv, TypeOK, n
  <2>2. /\ Len(buf) = n
        /\ SubSeq(InRing, 1, n) \in Seq(Words) /\ Len(SubSeq(InRing, 1, n)) = n
        /\ \A i \in 1 .. n : SubSeq(InRing, 1, n)[i] = InRing[i]
    BY <1>3, <2>1, RingFacts
  <2>3. SubSeq(InRing, 1, n) = buf
    BY <2>1, <2>2, SeqEqual
  <2> QED
    BY <1>2, <2>1, <2>3
<1> QED
  BY <1>2, <1>3, <1>6, <1>7, <1>8 DEF p

(* The BT core adds a packet behind all there is. *)
LEMMA PutAdds ==
  ASSUME SInv, NEW p \in Packets, BtPut(p)
  PROVE  /\ InRing' = InRing \o Real!PacketWords(p)
         /\ RP!Whole(InRing')
         /\ \A i \in 1 .. Len(InRing) : InRing'[i] = InRing[i]
         /\ Len(InRing') \in Nat /\ Len(InRing') > Len(InRing)
         /\ InRing'[Len(InRing) + 1].off = 0
         /\ 4 * Len(InRing) + Real!RoundedLen(p) <= FwBufSize - 4
<1> DEFINE r == Real!RoundedLen(p)
           c == CircCount(b2h_in, b2h_out)
<1>1. /\ b2h_buf \in [WordOffsets -> Words]
      /\ b2h_in \in WordOffsets /\ b2h_out \in WordOffsets
      /\ r \in Nat /\ r % 4 = 0
      /\ b2h_buf' = [o \in WordOffsets |->
                       IF CircCount(o, b2h_in) < r THEN Word(p, CircCount(o, b2h_in))
                       ELSE b2h_buf[o]]
      /\ b2h_in' = Mask(b2h_in + r)
      /\ r <= CircSpace(b2h_in, b2h_out)
      /\ UNCHANGED b2h_out
  BY RealLenFacts DEF BtPut, SInv, IInv, TypeOK
<1> HIDE DEF r
<1>2. c \in Nat /\ c % 4 = 0 /\ c + r <= FwBufSize - 4 /\ FwBufSize \in Nat
  <2>1. CircSpace(b2h_in, b2h_out) = FwBufSize - 4 - c /\ c \in WordOffsets
    BY <1>1, CircSpaceIs, CircCountIs
  <2> HIDE DEF c
  <2>2. c \in Nat /\ c % 4 = 0 /\ FwBufSize \in Nat
    BY <2>1, OffsetFacts, FwBufSizeAssumption
  <2>3. r <= FwBufSize - 4 - c /\ r \in Nat
    BY <1>1, <2>1
  <2> QED
    BY <2>2, <2>3
<1>3. b2h_in' = Advance(b2h_in, r)
  BY <1>1, <1>2, MaskIsAdvance
<1>4. ASSUME NEW j \in WordOffsets
      PROVE  Advance(b2h_in, j) \in WordOffsets /\ CircCount(Advance(b2h_in, j), b2h_in) = j
  <2>1. j \in Nat /\ j % 4 = 0 /\ j < FwBufSize
    BY OffsetFacts
  <2>2. CircCount(b2h_in, b2h_in) = 0
    BY <1>1, CircCountIs, OffsetFacts
  <2>3. CircCount(Advance(b2h_in, j), b2h_in) = CircCount(b2h_in, b2h_in) + j
    BY <1>1, <2>1, <2>2, CountGrows
  <2> QED
    BY <1>1, <1>2, <2>1, <2>2, <2>3, AdvanceType
<1>5. ASSUME NEW n \in WordOffsets, n < c
      PROVE  /\ Advance(b2h_out, n) \in WordOffsets
             /\ ~(CircCount(Advance(b2h_out, n), b2h_in) < r)
  <2>1. n \in Nat /\ n % 4 = 0 /\ n < FwBufSize
    BY OffsetFacts
  <2>2. Advance(b2h_out, n) \in WordOffsets
    BY <1>1, <1>2, <2>1, AdvanceType
  <2>3. CircCount(Advance(b2h_out, n), b2h_in) =
          IF b2h_in <= Advance(b2h_out, n) THEN Advance(b2h_out, n) - b2h_in
                                           ELSE Advance(b2h_out, n) - b2h_in + FwBufSize
    BY <1>1, <2>2, CircCountIs
  <2>4. c = IF b2h_out <= b2h_in THEN b2h_in - b2h_out ELSE b2h_in - b2h_out + FwBufSize
    BY <1>1, CircCountIs
  <2> HIDE DEF c
  <2> QED
    BY <1>1, <1>2, <1>5, <2>1, <2>2, <2>3, <2>4, OffsetFacts DEF Advance
<1> HIDE DEF c
<1>6. b2h_buf' \in [WordOffsets -> Words]
  <2>1. \A o \in WordOffsets : CircCount(o, b2h_in) \in Nat
    BY <1>1, CircCountIs, OffsetFacts
  <2> QED
    BY <1>1, <2>1 DEF Word, Words
<1>7. Between(b2h_buf', b2h_in, b2h_out) = InRing
  <2>1. AgreeBetween(b2h_buf, b2h_buf', b2h_in, b2h_out)
    BY <1>5, <1>1 DEF AgreeBetween, c
  <2>2. Between(b2h_buf', b2h_in, b2h_out) = Between(b2h_buf, b2h_in, b2h_out)
    BY <1>1, <2>1, BetweenKept
  <2> QED
    BY <2>2, InRingIs
<1>8. InRing' = InRing \o Real!PacketWords(p)
  <2>1. \A j \in WordOffsets : j < r => b2h_buf'[Advance(b2h_in, j)] = Word(p, j)
    BY <1>1, <1>4
  <2>2. CircCount(b2h_in, b2h_out) + RP!RoundedLen(p) < FwBufSize
    BY <1>1, <1>2, SamePackets DEF c, r
  <2>3. /\ b2h_in \in RP!WordOffsets /\ b2h_out \in RP!WordOffsets
        /\ RP!CircCount(b2h_in, b2h_out) + RP!RoundedLen(p) < FwBufSize
        /\ RP!LiesAt(b2h_buf', b2h_in, p)
    BY <1>1, <2>1, <2>2, SameRing, SamePackets DEF r, RP!LiesAt
  <2>4. RP!Between(b2h_buf', RP!Advance(b2h_in, RP!RoundedLen(p)), b2h_out) =
          RP!Between(b2h_buf', b2h_in, b2h_out) \o RP!PacketWords(p)
    BY <2>3, RealAssumption, RP!BetweenPut
  <2>5. Between(b2h_buf', Advance(b2h_in, r), b2h_out) =
          Between(b2h_buf', b2h_in, b2h_out) \o Real!PacketWords(p)
    BY <2>4, SameRing, SamePackets DEF r
  <2> QED
    BY <1>1, <1>3, <1>7, <2>5, InRingIs
<1>9. /\ InRing \in Seq(Words) /\ Len(InRing) \in Nat /\ RP!Whole(InRing)
      /\ 4 * Len(InRing) = c
  BY RingFacts DEF SInv, c
<1>10. RP!Whole(InRing')
  <2>1. RP!Whole(InRing \o RP!PacketWords(p))
    BY <1>9, WordsAre, RealAssumption, RP!WholePut
  <2> QED
    BY <1>8, <2>1, SamePackets
<1>11. /\ \A i \in 1 .. Len(InRing) : InRing'[i] = InRing[i]
       /\ Len(InRing') \in Nat /\ Len(InRing') > Len(InRing)
       /\ InRing'[Len(InRing) + 1].off = 0
  <2> DEFINE w == Real!PacketWords(p)
  <2>1. w \in Seq(Words) /\ Len(w) \in Nat \ {0} /\ w[1] = Word(p, 0)
    BY PacketIs
  <2>2. w[1].off = 0
    BY <2>1 DEF Word
  <2> HIDE DEF w
  <2>3. /\ Len(InRing') = Len(InRing) + Len(w)
        /\ \A i \in 1 .. Len(InRing) + Len(w) :
             InRing'[i] = IF i <= Len(InRing) THEN InRing[i] ELSE w[i - Len(InRing)]
    BY <1>8, <1>9, <2>1, ConcatProperties DEF w
  <2>4. /\ Len(InRing) + 1 \in 1 .. Len(InRing) + Len(w)
        /\ ~(Len(InRing) + 1 <= Len(InRing)) /\ (Len(InRing) + 1) - Len(InRing) = 1
    BY <1>9, <2>1
  <2>5. InRing'[Len(InRing) + 1] = w[(Len(InRing) + 1) - Len(InRing)]
    BY <2>3, <2>4
  <2>6. InRing'[Len(InRing) + 1].off = 0
    BY <2>2, <2>4, <2>5
  <2>7. ASSUME NEW i \in 1 .. Len(InRing) PROVE InRing'[i] = InRing[i]
    <3>1. i \in 1 .. Len(InRing) + Len(w) /\ i <= Len(InRing)
      BY <1>9, <2>1
    <3> QED
      BY <2>3, <3>1
  <2>8. Len(InRing') \in Nat /\ Len(InRing') > Len(InRing)
    BY <1>9, <2>1, <2>3
  <2> QED
    BY <2>6, <2>7, <2>8
<1> QED
  BY <1>2, <1>8, <1>9, <1>10, <1>11 DEF r

(* What the invariant says of the thread is nothing where it is between    *)
(* two packets.                                                            *)
LEMMA BetweenPackets ==
  ASSUME pc' \in {"indices", "sleep", "drop_toggle"}
  PROVE  SeenWhole' /\ FrontInHand' /\ HandWhole'
  BY DEF SeenWhole, FrontInHand, HandWhole, Reading, Holding

(* Where the ring and the hand stay as they are the stream does. *)
LEMMA StreamStays ==
  ASSUME SInv, InRing' = InRing, InHand' = InHand, UNCHANGED delivered
  PROVE  RP!Whole(InRing') /\ StreamStep
  BY DEF SInv, StreamStep, Promise!sVars

LEMMA HandEmpty ==
  ASSUME pc \notin Holding, pc' \notin Holding
  PROVE  InHand = <<>> /\ InHand' = <<>>
  BY DEF InHand, Holding

(* What is shown of every step. *)
StreamGoesOn ==
  RP!Whole(InRing') /\ SeenWhole' /\ FrontInHand' /\ HandWhole' /\ StreamStep

(* Steps on which nothing is read or dropped. *)
LEMMA QuietStep ==
  ASSUME SInv, pc \notin Holding, pc' \in {"indices", "sleep", "drop_toggle"},
         UNCHANGED ringVars, UNCHANGED delivered
  PROVE  StreamGoesOn
<1>1. InRing' = InRing
  BY DEF InRing, ringVars
<1>2. pc' \notin Holding
  BY DEF Holding
<1>3. InHand' = InHand
  BY <1>2, HandEmpty
<1> QED
  BY <1>1, <1>3, BetweenPackets, StreamStays DEF StreamGoesOn

(* Steps that drop the packet in hand. *)
LEMMA DropStep ==
  ASSUME SInv, pc \in Holding, pc' \in {"indices", "sleep"},
         UNCHANGED ringVars, UNCHANGED delivered
  PROVE  StreamGoesOn
<1>1. pc' \notin Holding
  BY DEF Holding
<1>2. InRing' = InRing /\ Promise!LoseOldest
  BY <1>1, HandDropped
<1>3. RP!Whole(InRing')
  BY <1>2 DEF SInv
<1> QED
  BY <1>2, <1>3, BetweenPackets DEF StreamGoesOn, StreamStep

(* The packet in hand is the one that is passed on. *)
LEMMA DeliverStep == SInv /\ Deliver => StreamGoesOn
<1> SUFFICES ASSUME SInv, Deliver PROVE StreamGoesOn
  OBVIOUS
<1>1. /\ pc \in Holding /\ pc' \notin Holding /\ pc' \in {"indices", "sleep", "drop_toggle"}
      /\ UNCHANGED ringVars
  BY DEF Deliver, NextTurn, Holding
<1>2. PICK p \in Packets : buf = Real!PacketWords(p) /\ Promise!Leave(p)
  BY <1>1, HandDropped
<1>3. InRing' = InRing
  BY <1>1, HandDropped
<1>4. buf[1] = Word(p, 0)
  BY <1>2, PacketIs
<1>5. buf[1].pkt = p
  BY <1>4 DEF Word
<1>6. delivered' = p
  BY <1>2, <1>5 DEF Deliver
<1>7. Promise!Get(p)
  BY <1>2, <1>6 DEF Promise!Get
<1>8. RP!Whole(InRing')
  BY <1>3 DEF SInv
<1> QED
  BY <1>1, <1>7, <1>8, BetweenPackets DEF StreamGoesOn, StreamStep

(* The snapshot shows all that is in the ring, whole packets. *)
LEMMA ReadIndicesStep == SInv /\ ReadIndices => StreamGoesOn
<1> SUFFICES ASSUME SInv, ReadIndices PROVE StreamGoesOn
  OBVIOUS
<1>1. InRing' = InRing /\ pc \notin Holding /\ pc' \notin Holding /\ pc' = "header"
      /\ UNCHANGED delivered
  BY DEF ReadIndices, InRing, ringVars, nbVars, Holding
<1>2. InHand' = InHand
  BY <1>1, HandEmpty
<1>3. SeenWhole'
  <2>1. Seen' = CircCount(b2h_in, b2h_out) \div 4
    BY DEF ReadIndices, Seen
  <2>2. /\ Len(InRing) \in Nat /\ 4 * Len(InRing) = CircCount(b2h_in, b2h_out)
        /\ CircCount(b2h_in, b2h_out) >= 4
    BY RingFacts DEF ReadIndices, HeaderSize
  <2>3. Seen' = Len(InRing) /\ Len(InRing) >= 1
    BY <2>1, <2>2
  <2>4. Seen' \in 1 .. Len(InRing') /\ ~(Seen' < Len(InRing'))
    BY <1>1, <2>2, <2>3
  <2> QED
    BY <2>4 DEF SeenWhole
<1>4. FrontInHand' /\ HandWhole'
  BY <1>1 DEF FrontInHand, HandWhole, Holding
<1> QED
  BY <1>1, <1>2, <1>3, <1>4, StreamStays DEF StreamGoesOn

(* A header that is true gives the length of the packet at the front; one  *)
(* that is not states more than the ring holds.                            *)
LEMMA ReadHeaderStep == SInv /\ TrueOrInvalid /\ ReadHeader => StreamGoesOn
<1> SUFFICES ASSUME SInv, TrueOrInvalid, ReadHeader PROVE StreamGoesOn
  OBVIOUS
<1>1. pc = "header" /\ UNCHANGED ringVars /\ UNCHANGED delivered /\ pc \notin Holding
  BY DEF ReadHeader, nbVars, Holding
<1>2. CASE ReturnNothing("EAGAIN")
  <2>1. pc' \in {"indices", "sleep", "drop_toggle"}
    BY <1>2 DEF ReturnNothing
  <2> QED
    BY <1>1, <2>1, QuietStep
<1>3. ASSUME NEW n \in StatedLens(b2h_buf[index.out]), Invalid(n) \/ ~Incomplete(n),
             payload_len' = n,
             pc' = CASE Invalid(n) -> "drop_all"
                     [] ~Invalid(n) /\ TooLarge(n) -> "skip"
                     [] ~Invalid(n) /\ ~TooLarge(n) -> "copy",
             UNCHANGED <<index, buf, ret>>
      PROVE  StreamGoesOn
  <2> DEFINE p == InRing[1].pkt
  <2>1. /\ InRing # <<>> /\ b2h_buf[index.out] = InRing[1]
        /\ Seen \in 1 .. Len(InRing) /\ (Seen < Len(InRing) => InRing[Seen + 1].off = 0)
    BY <1>1, ReadingFacts DEF Reading, SInv, SeenWhole
  <2>2. p \in Packets /\ InRing[1] = Word(p, 0)
    BY <2>1, FrontFacts
  <2>3. n = PayloadLen[p]
    BY <1>3, <2>1, <2>2 DEF StatedLens, Word
  <2>4. InRing' = InRing /\ Seen' = Seen
    BY <1>1, <1>3 DEF InRing, ringVars, Seen
  <2>5. pc' \in {"drop_all", "skip", "copy"} /\ (pc' # "drop_all" => ~Invalid(n))
    BY <1>3
  <2>6. pc' # "drop_all" => rounded_len' = Real!RoundedLen(p)
    <3> SUFFICES ASSUME pc' # "drop_all" PROVE rounded_len' = Real!RoundedLen(p)
      OBVIOUS
    <3>1. n = RealLen[p]
      BY <2>2, <2>3, <2>5 DEF TrueOrInvalid
    <3> QED
      BY <1>3, <3>1 DEF rounded_len, total_len, Real!RoundedLen, Real!RoundUp, RoundUp,
         Real!HeaderSize, HeaderSize
  <2>7. SeenWhole'
    BY <2>1, <2>4 DEF SeenWhole
  <2>8. FrontInHand'
    <3>1. buf' = <<>>
      BY <1>1, <1>3 DEF SInv, IInv, Copied
    <3> QED
      BY <2>4, <2>5, <2>6, <3>1 DEF FrontInHand
  <2>9. HandWhole' /\ pc' \notin Holding
    BY <2>5 DEF HandWhole, Holding
  <2>10. InHand' = InHand
    BY <1>1, <2>9, HandEmpty
  <2> QED
    BY <1>1, <2>4, <2>7, <2>8, <2>9, <2>10, StreamStays DEF StreamGoesOn
<1> QED
  BY <1>2, <1>3 DEF ReadHeader

(* What has been copied is in the ring. *)
LEMMA CopiedFits ==
  ASSUME SInv, pc \in {"copy", "release"}
  PROVE  /\ Len(buf) \in Nat
         /\ Len(buf) <= Len(InRing)
         /\ pc = "copy" => Len(buf) < Len(InRing)
<1>1. /\ Len(buf) \in Nat
      /\ rounded_len <= CircCount(index.in, index.out)
      /\ CircCount(index.in, index.out) <= CircCount(b2h_in, b2h_out)
      /\ pc = "copy" => 4 * Len(buf) < rounded_len
      /\ pc = "release" => 4 * Len(buf) = rounded_len
  BY DEF SInv, IInv, TypeOK, HeaderTested, SnapshotHolds, Reading, Copied, FrontInHand
<1>2. rounded_len \in Nat /\ CircCount(index.in, index.out) \in Nat
  BY RoundedIs, CountType DEF SInv, IInv
<1>3. Len(InRing) \in Nat /\ 4 * Len(InRing) = CircCount(b2h_in, b2h_out)
  BY RingFacts
<1> QED
  BY <1>1, <1>2, <1>3

(* The next word copied is the next word of the packet. *)
LEMMA CopyWordStep == SInv /\ CopyWord => StreamGoesOn
<1> SUFFICES ASSUME SInv, CopyWord PROVE StreamGoesOn
  OBVIOUS
<1> DEFINE k == Len(buf) + 1
           w == b2h_buf[RingAddr(index.out, rounded_len, 4 * Len(buf))]
<1>1. /\ pc = "copy" /\ buf' = Append(buf, w)
      /\ pc' \in {"copy", "release"}
      /\ pc' = "release" => 4 * Len(buf') = rounded_len
      /\ UNCHANGED <<ringVars, index, payload_len, delivered>>
  BY DEF CopyWord, nbVars
<1>2. InRing' = InRing /\ Seen' = Seen /\ rounded_len' = rounded_len
  BY <1>1 DEF InRing, ringVars, Seen, rounded_len, total_len
<1>3. /\ Len(buf) \in Nat /\ Len(InRing) \in Nat /\ k \in 1 .. Len(InRing)
      /\ 4 * (k - 1) = 4 * Len(buf)
  BY <1>1, CopiedFits, RingFacts
<1>4. w = InRing[k]
  <2>1. w = b2h_buf[Advance(index.out, 4 * Len(buf))] /\ index.out = b2h_out
    BY <1>1, CopyAddr DEF SInv, IInv, SnapshotHolds, Reading
  <2>2. b2h_in \in WordOffsets /\ b2h_out \in WordOffsets
    BY DEF SInv, IInv, TypeOK
  <2>3. InRing[k] = b2h_buf[Advance(b2h_out, 4 * (k - 1))]
    BY <1>3, <2>2, InRingIs, BetweenAt
  <2> QED
    BY <1>3, <2>1, <2>3
<1> HIDE DEF w
<1>5. ASSUME NEW i \in 1 .. Len(buf') PROVE buf'[i] = InRing[i]
  <2>1. buf \in Seq(Words) /\ \A j \in 1 .. Len(buf) : buf[j] = InRing[j]
    BY <1>1 DEF SInv, IInv, TypeOK, FrontInHand
  <2>2. Len(buf') = k /\ buf'[k] = w /\ \A j \in 1 .. Len(buf) : buf'[j] = buf[j]
    BY <1>1, <2>1
  <2>3. i = k \/ i \in 1 .. Len(buf)
    BY <1>3, <2>2
  <2> QED
    BY <1>4, <2>1, <2>2, <2>3
<1>6. SeenWhole'
  <2>1. pc \in Reading
    BY <1>1 DEF Reading
  <2> QED
    BY <1>2, <2>1 DEF SInv, SeenWhole
<1>7. FrontInHand'
  BY <1>1, <1>2, <1>5 DEF SInv, FrontInHand
<1>8. HandWhole' /\ pc \notin Holding /\ pc' \notin Holding
  BY <1>1 DEF HandWhole, Holding
<1>9. InHand' = InHand
  BY <1>8, HandEmpty
<1> QED
  BY <1>1, <1>2, <1>6, <1>7, <1>8, <1>9, StreamStays DEF StreamGoesOn

(* Space given back without a packet in hand loses the oldest packets.     *)
LEMMA OldestLost ==
  ASSUME SInv, pc \in {"drop_all", "skip", "release"}, b2h_out' = NewOut,
         UNCHANGED <<b2h_buf, b2h_in, delivered>>, pc' \in {"sleep", "drop_toggle"}
  PROVE  StreamGoesOn
<1>1. RP!Whole(InRing')
  BY OutMoves
<1>2. PICK n \in 1 .. Len(InRing) :
        /\ n < Len(InRing) => InRing[n + 1].off = 0
        /\ InRing' = SubSeq(InRing, n + 1, Len(InRing))
  BY OutMoves
<1>3. InHand = <<>> /\ InHand' = <<>>
  BY HandEmpty DEF Holding
<1>4. InHand \o InRing = InRing /\ (InHand \o InRing)' = InRing'
  <2>1. InRing \in Seq(Words) /\ InRing' \in Seq(Words)
    BY <1>2, RingFacts
  <2> QED
    BY <1>3, <2>1, ConcatEmptySeq
<1>5. Promise!LoseOldest
  BY <1>2, <1>4 DEF Promise!LoseOldest
<1> QED
  BY <1>1, <1>5, BetweenPackets DEF StreamGoesOn, StreamStep

(* A packet that has been copied goes from the ring into the hand. *)
LEMMA ReleaseStep ==
  ASSUME SInv, WriteOut, pc = "release"
  PROVE  StreamGoesOn
<1>1. /\ pc' = "toggle" /\ buf' = buf /\ b2h_out' = NewOut
      /\ UNCHANGED <<b2h_buf, b2h_in, delivered>>
  BY DEF WriteOut, nbVars
<1>2. PICK n \in 1 .. Len(InRing) :
        /\ InRing' = SubSeq(InRing, n + 1, Len(InRing))
        /\ SubSeq(InRing, 1, n) = buf
        /\ InRing[1].pkt \in Packets
        /\ buf = Real!PacketWords(InRing[1].pkt)
  BY <1>1, OutMoves
<1>3. RP!Whole(InRing')
  BY <1>1, OutMoves
<1>4. /\ InHand = <<>> /\ InHand' = buf
  BY <1>1 DEF InHand
<1>5. /\ InRing \in Seq(Words) /\ Len(InRing) \in Nat /\ n \in Nat /\ n <= Len(InRing)
  BY RingFacts
<1>6. buf \o InRing' = InRing
  <2> DEFINE t == SubSeq(InRing, n + 1, Len(InRing))
             s == buf \o t
  <2>1. /\ buf \in Seq(Words) /\ Len(buf) = n
        /\ \A i \in 1 .. n : buf[i] = InRing[i]
    <3>1. /\ SubSeq(InRing, 1, n) \in Seq(Words) /\ Len(SubSeq(InRing, 1, n)) = n
          /\ \A i \in 1 .. n : SubSeq(InRing, 1, n)[i] = InRing[i]
      BY <1>5
    <3> QED
      BY <1>2, <3>1
  <2>2. /\ t \in Seq(Words) /\ Len(t) = Len(InRing) - n
        /\ \A i \in 1 .. Len(InRing) - n : t[i] = InRing[n + i]
    BY <1>5
  <2> HIDE DEF t
  <2>3. /\ s \in Seq(Words) /\ Len(s) = Len(InRing)
        /\ \A i \in 1 .. Len(InRing) : s[i] = IF i <= n THEN buf[i] ELSE t[i - n]
    <3>1. /\ s \in Seq(Words) /\ Len(s) = Len(buf) + Len(t)
          /\ \A i \in 1 .. Len(buf) + Len(t) :
               s[i] = IF i <= Len(buf) THEN buf[i] ELSE t[i - Len(buf)]
      BY <2>1, <2>2, ConcatProperties
    <3>2. Len(buf) = n /\ Len(buf) + Len(t) = Len(InRing)
      BY <1>5, <2>1, <2>2
    <3> HIDE DEF s
    <3> QED
      BY <3>1, <3>2
  <2> HIDE DEF s
  <2>4. ASSUME NEW i \in 1 .. Len(InRing) PROVE s[i] = InRing[i]
    <3>1. CASE i <= n
      BY <1>5, <2>1, <2>3, <3>1
    <3>2. CASE ~(i <= n)
      <4>1. i - n \in 1 .. Len(InRing) - n /\ n + (i - n) = i
        BY <1>5, <3>2
      <4> QED
        BY <2>2, <2>3, <3>2, <4>1
    <3> QED
      BY <3>1, <3>2
  <2>5. s = InRing
    BY <1>5, <2>3, <2>4, SeqEqual
  <2> QED
    BY <1>2, <2>5 DEF s, t
<1>7. (InHand \o InRing)' = InHand \o InRing
  BY <1>4, <1>5, <1>6, ConcatEmptySeq
<1>8. HandWhole'
  <2>1. 4 * Len(buf) <= RxBufSize
    BY DEF SInv, FrontInHand, IInv, HeaderTested
  <2> QED
    BY <1>1, <1>2, <2>1 DEF HandWhole
<1>9. SeenWhole' /\ FrontInHand'
  BY <1>1 DEF SeenWhole, FrontInHand, Reading
<1> QED
  BY <1>1, <1>3, <1>7, <1>8, <1>9 DEF StreamGoesOn, StreamStep, Promise!sVars

LEMMA WriteOutStep == SInv /\ WriteOut => StreamGoesOn
<1> SUFFICES ASSUME SInv, WriteOut, pc # "release" PROVE StreamGoesOn
  BY ReleaseStep
<1>1. /\ pc \in {"drop_all", "skip", "release"} /\ b2h_out' = NewOut
      /\ UNCHANGED <<b2h_buf, b2h_in, delivered>> /\ pc' \in {"sleep", "drop_toggle"}
  BY DEF WriteOut, nbVars
<1> QED
  BY <1>1, OldestLost

(* The write fails, but may have been made. *)
LEMMA BusFailStep == SInv /\ BusFail => StreamGoesOn
<1> SUFFICES ASSUME SInv, BusFail PROVE StreamGoesOn
  OBVIOUS
<1>1. /\ pc' = "sleep" /\ pc \notin Holding
      /\ UNCHANGED <<b2h_buf, b2h_in, delivered>>
      /\ b2h_out' = b2h_out \/ (pc \in {"drop_all", "skip", "release"} /\ b2h_out' = NewOut)
  BY DEF BusFail, ReturnNothing, nbVars, Holding
<1>2. CASE b2h_out' = b2h_out
  <2>1. UNCHANGED ringVars /\ pc' \in {"indices", "sleep", "drop_toggle"}
    BY <1>1, <1>2 DEF ringVars
  <2> QED
    BY <1>1, <2>1, QuietStep
<1>3. CASE pc \in {"drop_all", "skip", "release"} /\ b2h_out' = NewOut
  <2>1. pc' \in {"sleep", "drop_toggle"}
    BY <1>1
  <2> QED
    BY <1>1, <1>3, <2>1, OldestLost
<1> QED
  BY <1>1, <1>2, <1>3

(* The packet is handled without anything moving. *)
LEMMA HandlingStep == SInv /\ (Toggle \/ GetNetBuf) => StreamGoesOn
<1> SUFFICES ASSUME SInv, Toggle \/ GetNetBuf PROVE StreamGoesOn
  OBVIOUS
<1>1. /\ pc \in Holding /\ pc' \in {"dispatch", "fill"} /\ pc' \in Holding
      /\ UNCHANGED <<ringVars, buf, delivered>>
  BY DEF Toggle, GetNetBuf, nbVars, Holding
<1>2. InRing' = InRing /\ InHand' = InHand
  BY <1>1 DEF InRing, InHand, ringVars, Holding
<1>3. SeenWhole' /\ FrontInHand'
  BY <1>1 DEF SeenWhole, FrontInHand, Reading
<1>4. HandWhole'
  BY <1>1 DEF SInv, HandWhole
<1> QED
  BY <1>1, <1>2, <1>3, <1>4, StreamStays DEF StreamGoesOn

(* Steps that leave the ring and the thread alone. *)
LEMMA ElsewhereStep ==
  ASSUME SInv, UNCHANGED <<ringVars, pc, index, payload_len, buf, delivered>>
  PROVE  StreamGoesOn
<1>1. InRing' = InRing /\ InHand' = InHand /\ Seen' = Seen /\ rounded_len' = rounded_len
  BY DEF InRing, InHand, Seen, rounded_len, total_len, ringVars
<1>2. SeenWhole' /\ FrontInHand' /\ HandWhole'
  BY <1>1 DEF SInv, SeenWhole, FrontInHand, HandWhole
<1> QED
  BY <1>1, <1>2, StreamStays DEF StreamGoesOn

(* What is in hand. *)
LEMMA HandFacts ==
  ASSUME SInv
  PROVE  InHand \in Seq(Words) /\ Len(InHand) \in Nat /\ 4 * Len(InHand) <= RxBufSize
<1>1. CASE pc \in Holding
  <2>1. InHand = buf /\ buf \in Seq(Words) /\ 4 * Len(buf) <= RxBufSize
    BY <1>1 DEF InHand, Holding, SInv, IInv, TypeOK, HandWhole
  <2> QED
    BY <2>1
<1>2. CASE pc \notin Holding
  <2>1. InHand = <<>>
    BY <1>2 DEF InHand, Holding
  <2> QED
    BY <2>1, RxAssumption
<1> QED
  BY <1>1, <1>2

(* A packet is put in behind all there is, whatever the thread is doing.   *)
LEMMA BtPutStep ==
  ASSUME SInv, NEW p \in Packets, BtPut(p)
  PROVE  StreamGoesOn
<1> DEFINE w == Real!PacketWords(p)
<1>1. UNCHANGED <<b2h_out, pc, index, payload_len, buf, delivered>>
  BY DEF BtPut, nbVars
<1>2. /\ InRing' = InRing \o w
      /\ RP!Whole(InRing')
      /\ \A i \in 1 .. Len(InRing) : InRing'[i] = InRing[i]
      /\ Len(InRing') \in Nat /\ Len(InRing') > Len(InRing)
      /\ InRing'[Len(InRing) + 1].off = 0
      /\ 4 * Len(InRing) + Real!RoundedLen(p) <= FwBufSize - 4
  BY PutAdds
<1>3. InRing \in Seq(Words) /\ Len(InRing) \in Nat /\ w \in Seq(Words)
  BY RingFacts, PacketIs
<1> HIDE DEF w
<1>4. InHand' = InHand /\ Seen' = Seen /\ rounded_len' = rounded_len
  BY <1>1 DEF InHand, Seen, rounded_len, total_len
<1>5. SeenWhole'
  <2> SUFFICES ASSUME pc \in Reading
               PROVE  /\ Seen \in 1 .. Len(InRing')
                      /\ Seen < Len(InRing') => InRing'[Seen + 1].off = 0
    BY <1>1, <1>4 DEF SeenWhole
  <2>1. Seen \in 1 .. Len(InRing) /\ (Seen < Len(InRing) => InRing[Seen + 1].off = 0)
    BY DEF SInv, SeenWhole
  <2>2. Seen \in 1 .. Len(InRing')
    BY <1>2, <1>3, <2>1
  <2>3. CASE Seen < Len(InRing)
    <3>1. Seen + 1 \in 1 .. Len(InRing)
      BY <1>3, <2>1, <2>3
    <3> QED
      BY <1>2, <2>1, <2>2, <2>3, <3>1
  <2>4. CASE Seen = Len(InRing)
    BY <1>2, <2>2, <2>4
  <2> QED
    BY <1>3, <2>1, <2>3, <2>4
<1>6. FrontInHand'
  <2>1. ASSUME pc \in {"skip", "copy", "release"}
        PROVE  rounded_len = Real!RoundedLen(InRing'[1].pkt)
    <3>1. 1 \in 1 .. Len(InRing)
      BY <1>3, <2>1, ReadingFacts DEF Reading
    <3>2. InRing'[1] = InRing[1]
      BY <1>2, <3>1
    <3> QED
      BY <2>1, <3>2 DEF SInv, FrontInHand
  <2>2. ASSUME pc \in {"copy", "release"}, NEW i \in 1 .. Len(buf)
        PROVE  buf[i] = InRing'[i]
    <3>1. i \in 1 .. Len(InRing)
      BY <1>3, <2>2, CopiedFits
    <3> QED
      BY <1>2, <2>2, <3>1 DEF SInv, FrontInHand
  <2>3. pc = "release" => 4 * Len(buf) = rounded_len
    BY DEF SInv, FrontInHand
  <2> QED
    BY <1>1, <1>4, <2>1, <2>2, <2>3 DEF FrontInHand
<1>7. HandWhole'
  BY <1>1 DEF SInv, HandWhole
<1>8. Promise!Put(p)
  <2>1. InHand \in Seq(Words) /\ Len(InHand) \in Nat /\ 4 * Len(InHand) <= RxBufSize
    BY HandFacts
  <2>2. Len(InHand \o InRing) = Len(InHand) + Len(InRing)
    BY <1>3, <2>1, ConcatProperties
  <2>3. Real!RoundedLen(p) \in Nat /\ FwBufSize \in Nat /\ RxBufSize \in Nat
    BY RealLenFacts, FwBufSizeAssumption, RxAssumption
  <2>4. 4 * Len(InHand \o InRing) + Real!RoundedLen(p) <= FwBufSize - 4 + RxBufSize
    BY <1>2, <1>3, <2>1, <2>2, <2>3
  <2>5. (InHand \o InRing)' = (InHand \o InRing) \o w
    <3>1. InHand' \o InRing' = InHand \o (InRing \o w)
      BY <1>2, <1>4
    <3>2. \A S : \A x, y, z \in Seq(S) : x \o (y \o z) = (x \o y) \o z
      BY ConcatAssociative
    <3>3. InHand \in Seq(Words) /\ InRing \in Seq(Words) /\ w \in Seq(Words)
      BY <1>3, <2>1
    <3>4. InHand \o (InRing \o w) = (InHand \o InRing) \o w
      BY <3>2, <3>3
    <3> QED
      BY <3>1, <3>4
  <2> QED
    BY <1>1, <2>4, <2>5, SamePackets DEF Promise!Put, w
<1> QED
  BY <1>2, <1>5, <1>6, <1>7, <1>8 DEF StreamGoesOn, StreamStep

(* Every step is one of the stream, or none. *)
LEMMA StepOfStream ==
  ASSUME SInv, TrueOrInvalid, [Next]_vars
  PROVE  SInv' /\ StreamStep
<1>1. ASSUME NoData \/ DropToggle \/ WakeUp PROVE StreamGoesOn
  <2>1. /\ pc \notin Holding /\ pc' \in {"indices", "sleep", "drop_toggle"}
        /\ UNCHANGED ringVars /\ UNCHANGED delivered
    BY <1>1 DEF NoData, DropToggle, WakeUp, ReturnNothing, nbVars, Holding
  <2> QED
    BY <2>1, QuietStep
<1>2. ASSUME DropPacket \/ TooLittleRoom \/ \E v \in {"ok", "EIO"} : ToggleDiscard(v)
      PROVE  StreamGoesOn
  <2>1. /\ pc \in Holding /\ pc' \in {"indices", "sleep"}
        /\ UNCHANGED ringVars /\ UNCHANGED delivered
    BY <1>2 DEF DropPacket, TooLittleRoom, ToggleDiscard, NextTurn, ReturnNothing,
       nbVars, Holding
  <2> QED
    BY <2>1, DropStep
<1>3. ASSUME StackFree \/ UNCHANGED vars
      PROVE  StreamGoesOn
  <2>1. UNCHANGED <<ringVars, pc, index, payload_len, buf, delivered>>
    BY <1>3 DEF StackFree, vars, nbVars
  <2> QED
    BY <2>1, ElsewhereStep
<1>4. StreamGoesOn
  BY <1>1, <1>2, <1>3, ReadIndicesStep, ReadHeaderStep, CopyWordStep, WriteOutStep,
     BusFailStep, HandlingStep, DeliverStep, BtPutStep DEF Next, RxNext
<1>5. IInv'
  BY NextIInv DEF SInv
<1> QED
  BY <1>4, <1>5 DEF StreamGoesOn, SInv

LEMMA InitStream == Init => SInv /\ Promise!Init
<1> SUFFICES ASSUME Init PROVE SInv /\ Promise!Init
  OBVIOUS
<1>1. IInv
  BY InitIInv
<1>2. InRing = <<>>
  <2>1. /\ InRing \in Seq(Words) /\ Len(InRing) \in Nat
        /\ 4 * Len(InRing) = CircCount(b2h_in, b2h_out)
    BY <1>1, InRingIs, BetweenLen, BetweenType DEF IInv, TypeOK
  <2>2. CircCount(b2h_in, b2h_out) = 0
    BY <1>1, CircCountIs, OffsetFacts DEF Init, IInv, TypeOK
  <2> QED
    BY <2>1, <2>2, EmptySeq
<1>3. RP!Whole(InRing)
  BY <1>2 DEF RP!Whole
<1>4. SeenWhole /\ FrontInHand /\ HandWhole
  BY DEF Init, SeenWhole, FrontInHand, HandWhole, Reading, Holding
<1>5. InHand \o InRing = <<>>
  BY <1>2 DEF Init, InHand
<1> QED
  BY <1>1, <1>3, <1>4, <1>5 DEF SInv, Promise!Init, Init

(* When every header states the length of its packet, or more than the     *)
(* ring can hold, the packets come out whole and in order, each at most    *)
(* once, and any that are lost are the oldest.                             *)
THEOREM RingIsPacketStream == TrueOrInvalid => (Spec => ImplementsPacketStream)
<1> SUFFICES ASSUME TrueOrInvalid PROVE Spec => ImplementsPacketStream
  OBVIOUS
<1>1. Init => SInv /\ Promise!Init
  BY InitStream
<1>2. SInv /\ [Next]_vars => SInv' /\ StreamStep
  BY StepOfStream
<1> QED
  BY <1>1, <1>2, PTL DEF Spec, StreamStep, ImplementsPacketStream, Promise!LossySpec
=============================================================================
