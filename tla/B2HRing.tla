------------------------------ MODULE B2HRing ------------------------------
(***************************************************************************)
(* The BT-to-host ring: the RX thread (cyw43_bt_rx_thread), which reads a  *)
(* packet with cyw43_bt_ring_read, moves b2h_out and passes the packet to  *)
(* the Bluetooth stack in a net_buf, against the BT core, which adds       *)
(* packets and moves b2h_in whenever it likes.                             *)
(*                                                                         *)
(* The length of a packet comes from its header in the ring, and nothing   *)
(* says that it is the length of what the BT core wrote: PayloadLen is     *)
(* what the header states, RealLen what follows it.  Where they differ the *)
(* reader gets out of step and takes payload for a header.                 *)
(***************************************************************************)
EXTENDS Btsdio

CONSTANTS
  RealLen,      \* [Packets -> Nat]: the payload bytes the BT core writes
  Kind,         \* [Packets -> Kinds]: what the type byte of the header says
  StrayLens,    \* lengths that payload taken for a header may state
  RxBufSize,    \* sizeof(buf): CYW43_BT_RX_BUF_SIZE
  Tailroom,     \* [{"event", "acl"} -> Nat]: room in a net_buf of each type
  NbCount,      \* net_bufs for receiving
  NoPacket

Kinds == {"event", "acl", "other"}

ASSUME RxAssumption ==
  /\ RealLen \in [Packets -> Nat]
  /\ Kind \in [Packets -> Kinds]
  /\ StrayLens \subseteq Nat
  /\ RxBufSize \in Nat
  /\ RxBufSize % 4 = 0
  /\ Tailroom \in [{"event", "acl"} -> Nat]
  /\ NbCount \in Nat
  /\ NoPacket \notin Packets

VARIABLES
  b2h_buf,      \* the data ring: the word at each word offset
  b2h_in,       \* index register, written by the BT core
  b2h_out,      \* index register, written by the host
  pc,           \* where the RX thread is
  index,        \* its snapshot of the index registers
  payload_len,  \* what the header it has read states
  buf,          \* the words it has copied
  ret,          \* what the last ring_read returned
  nb_free,      \* net_bufs in the pool
  nb_stack,     \* net_bufs the stack has been given and not yet freed
  delivered     \* the packet last passed to recv

Real == INSTANCE Btsdio WITH PayloadLen <- RealLen

ringVars == <<b2h_buf, b2h_in, b2h_out>>
nbVars == <<nb_free, nb_stack, delivered>>
vars == <<ringVars, pc, index, payload_len, buf, ret, nbVars>>

PCs == {"indices", "header", "drop_all", "skip", "copy", "release",
        "drop_toggle", "toggle", "dispatch", "fill", "sleep"}
Words == [pkt : Packets \cup {NoPacket}, off : Nat]

(* The packet in hand, in bytes: total_len and rounded_len. *)
total_len == HeaderSize + payload_len
rounded_len == RoundUp(total_len)

(* What a word states when it is read as a header. *)
StatedLens(w) ==
  IF w.off = 0 /\ w.pkt \in Packets THEN {PayloadLen[w.pkt]} ELSE StrayLens
StatedKinds(w) ==
  IF w.off = 0 /\ w.pkt \in Packets THEN {Kind[w.pkt]} ELSE Kinds

-----------------------------------------------------------------------------
Init ==
  /\ b2h_buf = [o \in WordOffsets |-> Word(NoPacket, 0)]
  /\ b2h_in = 0 /\ b2h_out = 0
  /\ pc = "indices" /\ payload_len = 0 /\ buf = <<>> /\ ret = "none"
  /\ index = [in |-> 0, out |-> 0]
  /\ nb_free = NbCount /\ nb_stack = 0 /\ delivered = NoPacket

(* The locals of ring_read and of one turn of the thread's loop. *)
Forget ==
  /\ index' = [in |-> 0, out |-> 0]
  /\ payload_len' = 0
  /\ buf' = <<>>

(* ring_read returns v and the thread sleeps before it polls again. *)
ReturnNothing(v) == pc' = "sleep" /\ ret' = v /\ Forget

(* read_indices; less than a header is no data. *)
ReadIndices ==
  /\ pc = "indices"
  /\ CircCount(b2h_in, b2h_out) >= HeaderSize
  /\ index' = [in |-> b2h_in, out |-> b2h_out]
  /\ pc' = "header"
  /\ UNCHANGED <<ringVars, payload_len, buf, ret, nbVars>>

NoData ==
  /\ pc = "indices"
  /\ CircCount(b2h_in, b2h_out) < HeaderSize
  /\ ReturnNothing("EAGAIN")
  /\ UNCHANGED <<ringVars, nbVars>>

(* What a header that states length n means: more than the ring's size, so *)
(* that the rings are out of step; more than has come yet; more than the   *)
(* local buffer takes.  The tests are made in this order.                  *)
Rounded(n) == RoundUp(HeaderSize + n)

(* A mutant: the payload alone is compared. *)
InvalidPayload(n) == n > FwBufSize
(* Mutants: a test that is left out. *)
Never(n) == FALSE

Invalid(n) == Rounded(n) > FwBufSize
Incomplete(n) == CircCount(index.in, index.out) < Rounded(n)
TooLarge(n) == Rounded(n) > RxBufSize

ReadHeader ==
  /\ pc = "header"
  /\ \E n \in StatedLens(b2h_buf[index.out]) :
       \/ /\ ~Invalid(n)
          /\ Incomplete(n)
          /\ ReturnNothing("EAGAIN")
       \/ /\ Invalid(n) \/ ~Incomplete(n)
          /\ payload_len' = n
          /\ pc' = CASE Invalid(n) -> "drop_all"
                     [] ~Invalid(n) /\ TooLarge(n) -> "skip"
                     [] ~Invalid(n) /\ ~TooLarge(n) -> "copy"
          /\ UNCHANGED <<index, buf, ret>>
  /\ UNCHANGED <<ringVars, nbVars>>

(* One word of the one or two mem_read calls. *)
CopyWord ==
  /\ pc = "copy"
  /\ buf' = Append(buf, b2h_buf[RingAddr(index.out, rounded_len, 4 * Len(buf))])
  /\ pc' = IF 4 * Len(buf') = rounded_len THEN "release" ELSE "copy"
  /\ UNCHANGED <<ringVars, index, payload_len, ret, nbVars>>

(* Mutants: a packet skipped without its header; not skipped.              *)
PastPayload == Mask(index.out + RoundUp(payload_len))
PastNothing == index.out

PastSkipped == Mask(index.out + rounded_len)
PastPacket == Mask(RingNext(index.out, rounded_len))

(* The new b2h_out of each of the three places that write it. *)
NewOut ==
  CASE pc = "drop_all" -> index.in
    [] pc = "skip"     -> PastSkipped
    [] pc = "release"  -> PastPacket

(* The write of b2h_out gives the space back to the BT core. *)
WriteOut ==
  /\ pc \in {"drop_all", "skip", "release"}
  /\ b2h_out' = NewOut
  /\ pc' = IF pc = "release" THEN "toggle" ELSE "drop_toggle"
  /\ UNCHANGED <<b2h_buf, b2h_in, index, payload_len, buf, ret, nbVars>>

(* A bus access fails: ring_read returns the error without a packet.  The  *)
(* write of b2h_out may have been made all the same.                       *)
BusFail ==
  /\ \/ pc \in {"indices", "header", "copy"} /\ UNCHANGED b2h_out
     \/ pc \in {"drop_all", "skip", "release"} /\ b2h_out' \in {b2h_out, NewOut}
  /\ ReturnNothing("EIO")
  /\ UNCHANGED <<b2h_buf, b2h_in, nbVars>>

(* After a drop the result of toggle_intr is ignored. *)
DropToggle ==
  /\ pc = "drop_toggle"
  /\ ReturnNothing("ENOBUFS")
  /\ UNCHANGED <<ringVars, nbVars>>

(* After a packet it is ring_read's result: when it is an error the thread *)
(* discards the packet although it is complete, as it does a bare header.  *)
Toggle ==
  /\ pc = "toggle"
  /\ total_len > HeaderSize
  /\ ret' = "ok"
  /\ pc' = "dispatch"
  /\ UNCHANGED <<ringVars, index, payload_len, buf, nbVars>>

ToggleDiscard(v) ==
  /\ pc = "toggle"
  /\ v = "EIO" \/ (v = "ok" /\ total_len <= HeaderSize)
  /\ ReturnNothing(v)
  /\ UNCHANGED <<ringVars, nbVars>>

(* bt_buf_get_rx never waits; a packet of a type the host does not take,   *)
(* or for which there is no net_buf, is dropped and the thread goes on     *)
(* without a sleep.                                                        *)
NextTurn == pc' = "indices" /\ Forget /\ UNCHANGED ret

GetNetBuf ==
  /\ pc = "dispatch"
  /\ StatedKinds(buf[1]) \cap {"event", "acl"} # {}
  /\ nb_free > 0
  /\ nb_free' = nb_free - 1
  /\ pc' = "fill"
  /\ UNCHANGED <<ringVars, index, payload_len, buf, ret, nb_stack, delivered>>

DropPacket ==
  /\ pc = "dispatch"
  /\ "other" \in StatedKinds(buf[1]) \/ nb_free = 0
  /\ NextTurn
  /\ UNCHANGED <<ringVars, nbVars>>

(* The payload goes into the net_buf and to the stack ... *)
Deliver ==
  /\ pc = "fill"
  /\ \E k \in StatedKinds(buf[1]) \ {"other"} : Tailroom[k] >= total_len - 4
  /\ nb_stack' = nb_stack + 1
  /\ delivered' = IF buf[1].pkt \in Packets /\ buf = Real!PacketWords(buf[1].pkt)
                    THEN buf[1].pkt
                    ELSE NoPacket
  /\ NextTurn
  /\ UNCHANGED <<ringVars, nb_free>>

(* A mutant: the net_buf is not given back. *)
NotGivenBack == nb_free

GivenBack == nb_free + 1

(* ... unless it does not fit, and then the net_buf goes back. *)
TooLittleRoom ==
  /\ pc = "fill"
  /\ \E k \in StatedKinds(buf[1]) \ {"other"} : Tailroom[k] < total_len - 4
  /\ nb_free' = GivenBack
  /\ NextTurn
  /\ UNCHANGED <<ringVars, nb_stack, delivered>>

(* k_msleep(1) is over. *)
WakeUp ==
  /\ pc = "sleep"
  /\ pc' = "indices"
  /\ UNCHANGED <<ringVars, index, payload_len, buf, ret, nbVars>>

-----------------------------------------------------------------------------
(* The BT core (external) adds a packet where there is room for it. *)
BtPut(p) ==
  /\ Real!RoundedLen(p) <= CircSpace(b2h_in, b2h_out)
  /\ b2h_buf' = [o \in WordOffsets |->
                   IF CircCount(o, b2h_in) < Real!RoundedLen(p)
                     THEN Word(p, CircCount(o, b2h_in))
                     ELSE b2h_buf[o]]
  /\ b2h_in' = Mask(b2h_in + Real!RoundedLen(p))
  /\ UNCHANGED <<b2h_out, pc, index, payload_len, buf, ret, nbVars>>

(* The stack (external) frees a net_buf. *)
StackFree ==
  /\ nb_stack > 0
  /\ nb_stack' = nb_stack - 1
  /\ nb_free' = nb_free + 1
  /\ UNCHANGED <<ringVars, pc, index, payload_len, buf, ret, delivered>>

RxNext ==
  \/ ReadIndices \/ NoData \/ ReadHeader \/ CopyWord \/ WriteOut
  \/ BusFail \/ DropToggle \/ Toggle
  \/ \E v \in {"ok", "EIO"} : ToggleDiscard(v)
  \/ GetNetBuf \/ DropPacket \/ Deliver \/ TooLittleRoom \/ WakeUp

Next == RxNext \/ StackFree \/ \E p \in Packets : BtPut(p)

Spec == Init /\ [][Next]_vars

(* The thread runs (it waits for nothing but the bus and its 1 ms sleep),  *)
(* and from some point on the bus works.  What the BT core and the stack   *)
(* do is up to them.                                                       *)
Fairness == WF_vars(RxNext) /\ <>[][~BusFail]_vars

FairSpec == Spec /\ Fairness

-----------------------------------------------------------------------------
TypeOK ==
  /\ b2h_buf \in [WordOffsets -> Words]
  /\ b2h_in \in WordOffsets
  /\ b2h_out \in WordOffsets
  /\ pc \in PCs
  /\ index \in [in : WordOffsets, out : WordOffsets]
  /\ payload_len \in Nat
  /\ buf \in Seq(Words)
  /\ ret \in {"none", "ok", "EAGAIN", "ENOBUFS", "EIO"}
  /\ nb_free \in 0 .. NbCount
  /\ nb_stack \in 0 .. NbCount
  /\ delivered \in Packets \cup {NoPacket}

(* Whatever the header states, the copy stays inside the local buffer and  *)
(* inside what the BT core has published by then.                          *)
CopyInBounds ==
  pc = "copy" =>
    /\ 4 * Len(buf) < rounded_len
    /\ rounded_len <= RxBufSize
    /\ rounded_len <= CircCount(b2h_in, b2h_out)

(* Whatever the header states, and however old the snapshot of b2h_in,     *)
(* b2h_out only moves towards b2h_in and never past it: the host frees no  *)
(* word that was not published, so the indices go on describing the ring.  *)
OutNeverPassesIn ==
  [][CircCount(b2h_in, b2h_out') <= CircCount(b2h_in, b2h_out)
       \/ b2h_in' # b2h_in]_b2h_out

(* Every net_buf is in the pool, with the stack, or the one the thread is  *)
(* about to fill: no path through the dispatch loses one.                  *)
NoBufferLeak ==
  nb_free + nb_stack + (IF pc = "fill" THEN 1 ELSE 0) = NbCount

(* When headers state what the BT core wrote, or else more than the ring   *)
(* can hold, the thread passes on whole packets in the order they were put *)
(* in, each at most once; it may lose the oldest, but whole.  A packet is  *)
(* in transit from the moment b2h_in covers it until it has been passed on *)
(* or dropped, the time in the local buffer included.                      *)
InRing ==
  [i \in 1 .. CircCount(b2h_in, b2h_out) \div 4 |->
     b2h_buf[Mask(b2h_out + 4 * (i - 1))]]
InHand == IF pc \in {"toggle", "dispatch", "fill"} THEN buf ELSE <<>>

Promise == INSTANCE PacketStream WITH
             stream <- InHand \o InRing, got <- delivered, PayloadLen <- RealLen,
             Capacity <- FwBufSize - 4 + RxBufSize

ImplementsPacketStream == Promise!LossySpec

(* The thread never leaves a packet lying in the ring for good. *)
KeepsReading ==
  \A o \in WordOffsets : b2h_out = o /\ b2h_in # o ~> b2h_out # o

(* "-ENOBUFS if packet exceeds max_len": a header that states more than    *)
(* the host's buffer takes, and more than the ring will ever hold, does    *)
(* not stay at the front.                                                  *)
TooLongIsDropped ==
  \A o \in WordOffsets :
    /\ b2h_out = o
    /\ b2h_in # o
    /\ \A n \in StatedLens(b2h_buf[o]) :
         /\ RoundUp(HeaderSize + n) > RxBufSize
         /\ RoundUp(HeaderSize + n) > FwBufSize - 4
    ~> b2h_out # o
=============================================================================
