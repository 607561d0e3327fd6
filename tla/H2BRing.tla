------------------------------ MODULE H2BRing ------------------------------
(***************************************************************************)
(* The host-to-BT ring: cyw43_bt_send and cyw43_bt_ring_write on the host, *)
(* which writes a packet and then moves h2b_in, against the BT core, which *)
(* reads up to h2b_in and moves h2b_out whenever it likes.  No lock covers *)
(* the ring; the two sides only share the indices.                         *)
(*                                                                         *)
(* One thread calls send (the TX processor of the Bluetooth host).  Every  *)
(* bus access is a step of its own and can fail.  HOST_CTRL_REG, which     *)
(* send writes before and after the ring, is module HostCtrl; here waking  *)
(* the BT core and toggling the interrupt just succeed or fail.            *)
(***************************************************************************)
EXTENDS Btsdio

CONSTANTS
  TxBufSize,    \* sizeof(tx) in cyw43_bt_send: CYW43_BT_RX_BUF_SIZE
  NoPacket      \* no packet: what `packet' holds between calls

ASSUME TxBufSizeAssumption ==
  /\ TxBufSize \in Nat
  /\ NoPacket \notin Packets

VARIABLES
  h2b_buf,      \* the data ring: the word at each word offset
  h2b_in,       \* index register, written by the host
  h2b_out,      \* index register, written by the BT core
  pc,           \* where the sending thread is
  packet,       \* the packet being sent
  index,        \* its snapshot of the index registers
  written,      \* bytes of the packet already in the ring
  ret,          \* what the last send returned
  bt_read,      \* the words of the current packet the BT core has read
  bt_got        \* the last packet it has taken

ringVars == <<h2b_buf, h2b_in, h2b_out>>
btVars == <<bt_read, bt_got>>
vars == <<ringVars, pc, packet, index, written, ret, btVars>>

Errors == {"EINVAL", "EIO", "ETIMEDOUT", "ENOBUFS"}
PCs == {"idle", "wake", "indices", "write", "publish", "toggle"}

Words == [pkt : Packets \cup {NoPacket}, off : Nat]

(* Where byte j of the packet being sent goes. *)
WriteAddr(j) == RingAddr(index.in, RoundedLen(packet), j)

-----------------------------------------------------------------------------
(* init_buffers has zeroed the indices; the RAM behind them is whatever it *)
(* was.                                                                    *)
Init ==
  /\ h2b_buf = [o \in WordOffsets |-> Word(NoPacket, 0)]
  /\ h2b_in = 0 /\ h2b_out = 0
  /\ pc = "idle" /\ packet = NoPacket /\ written = 0 /\ ret = "none"
  /\ index = [in |-> 0, out |-> 0]
  /\ bt_read = <<>> /\ bt_got = NoPacket

(* send leaves with value v; its locals are gone. *)
Return(v) ==
  /\ pc' = "idle"
  /\ packet' = NoPacket
  /\ index' = [in |-> 0, out |-> 0]
  /\ written' = 0
  /\ ret' = v

(* The packet must fit the local buffer; then the BT core is woken. *)
Send(p) ==
  /\ pc = "idle"
  /\ HeaderSize + PayloadLen[p] <= TxBufSize
  /\ pc' = "wake"
  /\ packet' = p
  /\ ret' = "none"
  /\ UNCHANGED <<ringVars, btVars, index, written>>

SendTooLarge(p) ==
  /\ pc = "idle"
  /\ HeaderSize + PayloadLen[p] > TxBufSize
  /\ Return("EINVAL")
  /\ UNCHANGED <<ringVars, btVars>>

(* set_bt_awake and wait_awake have both succeeded ... *)
Awake ==
  /\ pc = "wake"
  /\ pc' = "indices"
  /\ UNCHANGED <<ringVars, btVars, packet, index, written, ret>>

(* ... or one of them gives up, with a bus error or after its retries. *)
NotAwake(e) ==
  /\ pc = "wake"
  /\ e \in {"EIO", "ETIMEDOUT"}
  /\ Return(e)
  /\ UNCHANGED <<ringVars, btVars>>

(* A mutant: ring_write does not ask whether there is room. *)
FitsAnyway == TRUE

Fits == RoundedLen(packet) <= CircSpace(h2b_in, h2b_out)

(* read_indices succeeds and the packet fits what was free at that time. *)
ReadIndices ==
  /\ pc = "indices"
  /\ Fits
  /\ pc' = "write"
  /\ index' = [in |-> h2b_in, out |-> h2b_out]
  /\ UNCHANGED <<ringVars, btVars, packet, written, ret>>

RingFull ==
  /\ pc = "indices"
  /\ ~Fits
  /\ Return("ENOBUFS")
  /\ UNCHANGED <<ringVars, btVars>>

(* A mutant: the part after the wrap is taken from tx instead of tx + first.*)
WithNextWordRestarting ==
  LET a == WriteAddr(written)
      j == IF a < index.in THEN a ELSE written
  IN  [h2b_buf EXCEPT ![a] = Word(packet, j)]

WithNextWord ==
  [h2b_buf EXCEPT ![WriteAddr(written)] = Word(packet, written)]

(* One word of the one or two mem_write calls reaches the ring. *)
WriteWord ==
  /\ pc = "write"
  /\ h2b_buf' = WithNextWord
  /\ written' = written + 4
  /\ pc' = IF written' = RoundedLen(packet) THEN "publish" ELSE "write"
  /\ UNCHANGED <<h2b_in, h2b_out, packet, index, ret, btVars>>

NewIn == Mask(RingNext(index.in, RoundedLen(packet)))

(* The write of h2b_in hands the packet to the BT core. *)
Publish ==
  /\ pc = "publish"
  /\ h2b_in' = NewIn
  /\ pc' = "toggle"
  /\ UNCHANGED <<h2b_buf, h2b_out, packet, index, written, ret, btVars>>

(* Any of the bus accesses above fails and send gives the packet up.  A    *)
(* write that is reported to have failed may still have reached the chip.  *)
BusFail ==
  /\ \/ pc = "indices" /\ UNCHANGED <<h2b_buf, h2b_in>>
     \/ pc = "write" /\ h2b_buf' \in {h2b_buf, WithNextWord} /\ UNCHANGED h2b_in
     \/ pc = "publish" /\ h2b_in' \in {h2b_in, NewIn} /\ UNCHANGED h2b_buf
  /\ Return("EIO")
  /\ UNCHANGED <<h2b_out, btVars>>

(* toggle_intr is the last call and its result is send's result. *)
Toggle(v) ==
  /\ pc = "toggle"
  /\ v \in {"ok", "EIO"}
  /\ Return(v)
  /\ UNCHANGED <<ringVars, btVars>>

-----------------------------------------------------------------------------
(* The BT core (external).  It reads what has been published word by word, *)
(* the first word being a header that tells how many follow ...            *)
BtReadWord ==
  /\ 4 * Len(bt_read) < CircCount(h2b_in, h2b_out)
  /\ bt_read # <<>> => /\ bt_read[1].pkt \in Packets
                       /\ 4 * Len(bt_read) < RoundedLen(bt_read[1].pkt)
  /\ bt_read' = Append(bt_read, h2b_buf[Mask(h2b_out + 4 * Len(bt_read))])
  /\ UNCHANGED <<ringVars, pc, packet, index, written, ret, bt_got>>

(* ... and hands their space back when it has them all.  What it got is a  *)
(* packet only if every word is that packet's.                             *)
BtConsume ==
  /\ bt_read # <<>>
  /\ bt_read[1].pkt \in Packets
  /\ 4 * Len(bt_read) = RoundedLen(bt_read[1].pkt)
  /\ bt_got' = IF bt_read = PacketWords(bt_read[1].pkt)
                 THEN bt_read[1].pkt
                 ELSE NoPacket
  /\ h2b_out' = Mask(h2b_out + 4 * Len(bt_read))
  /\ bt_read' = <<>>
  /\ UNCHANGED <<h2b_buf, h2b_in, pc, packet, index, written, ret>>

HostNext ==
  \/ \E p \in Packets : Send(p) \/ SendTooLarge(p)
  \/ Awake
  \/ \E e \in {"EIO", "ETIMEDOUT"} : NotAwake(e)
  \/ ReadIndices \/ RingFull \/ WriteWord \/ Publish \/ BusFail
  \/ \E v \in {"ok", "EIO"} : Toggle(v)

Next == HostNext \/ BtReadWord \/ BtConsume

Spec == Init /\ [][Next]_vars
-----------------------------------------------------------------------------
TypeOK ==
  /\ h2b_buf \in [WordOffsets -> Words]
  /\ h2b_in \in WordOffsets
  /\ h2b_out \in WordOffsets
  /\ pc \in PCs
  /\ packet \in Packets \cup {NoPacket}
  /\ index \in [in : WordOffsets, out : WordOffsets]
  /\ written \in WordOffsets
  /\ ret \in Errors \cup {"none", "ok"}
  /\ bt_read \in Seq(Words)
  /\ bt_got \in Packets \cup {NoPacket}

(* While ring_write copies a packet it never touches a word the BT core    *)
(* may be reading: the place it writes lies beyond everything published    *)
(* and not yet handed back, although it decided on a snapshot of h2b_out   *)
(* that is old by then and the copy may wrap around the end of the ring.   *)
WritesFreeSpace ==
  pc = "write" =>
    CircCount(WriteAddr(written), h2b_out) >= CircCount(h2b_in, h2b_out)

(* Moving h2b_in adds exactly the packet to what the BT core can read.  A  *)
(* ring filled to the last word would have h2b_in = h2b_out again and      *)
(* every packet in it would be gone; the +4 in circ_space rules it out.    *)
PublishNeverAliases ==
  [][h2b_in' # h2b_in =>
       CircCount(h2b_in', h2b_out) =
         CircCount(h2b_in, h2b_out) + RoundedLen(packet)]_vars

(* What the two sides promise together: the ring is a first-in first-out   *)
(* stream of whole packets.  It is read off the memory between the indices,*)
(* so a word overwritten too early, a packet published before it is        *)
(* complete or an index that moves too far all break it, and so does a bus *)
(* error half way through a packet if it leaves anything behind.           *)
Stream ==
  [i \in 1 .. CircCount(h2b_in, h2b_out) \div 4 |->
     h2b_buf[Mask(h2b_out + 4 * (i - 1))]]

Promise == INSTANCE PacketStream WITH
       stream <- Stream, got <- bt_got, Capacity <- FwBufSize - 4

ImplementsPacketStream == Promise!Spec
=============================================================================
