----------------------------- MODULE Transport ------------------------------
(***************************************************************************)
(* The transport as a whole after open has returned: send on the TX thread,*)
(* the polling RX thread and the BT core, with both rings and the one      *)
(* register that says that something is in them.                           *)
(*                                                                         *)
(* Each ring is what H2BRing and B2HRing are shown to implement, a         *)
(* PacketStream; the register and its cache are HostCtrl, step by step.    *)
(* What is new here is what the parts do to each other: the BT core looks  *)
(* into the host-to-BT ring when DATA_VALID changes, and stays awake while *)
(* WAKE_BT is set.                                                         *)
(***************************************************************************)
EXTENDS Naturals, Sequences

CONSTANTS
  FwBufSize,    \* bytes of a ring
  TxPackets,    \* what the stack sends
  RxPackets,    \* what the BT core sends
  TxLen, RxLen, \* the length of the payload of each
  RxBufSize,    \* the packet that the RX thread holds is out of the ring
  Retries,      \* BTSDIO_BT_AWAKE_RETRIES
  BusErrors,    \* may a bus access fail?
  NoPacket

ASSUME TransportAssumption ==
  /\ TxLen \in [TxPackets -> Nat]
  /\ RxLen \in [RxPackets -> Nat]
  /\ Retries \in Nat \ {0}
  /\ BusErrors \in BOOLEAN

VARIABLES
  phase, host_ctrl, host_ctrl_cache, op, stage, value, alone,  \* HostCtrl
  h2b, bt_got,      \* the ring to the BT core
  b2h, delivered,   \* the ring from the BT core
  tx_pc, polls,     \* where send is; polls of BT_CTRL in wait_awake
  rx_pc,            \* where the RX thread is
  bt_awake,         \* BT_AWAKE in BT_CTRL_REG
  bt_notified,      \* the BT core has seen an edge and not yet looked
  raced             \* two calls have overlapped, or a bus error has
                    \* ended a call of send or of toggle_intr

hcVars == <<phase, host_ctrl, host_ctrl_cache, op, stage, value, alone>>
h2bVars == <<h2b, bt_got>>
b2hVars == <<b2h, delivered>>
ringVars == <<h2bVars, b2hVars>>
txVars == <<tx_pc, polls>>
btVars == <<bt_awake, bt_notified>>
vars == <<hcVars, ringVars, txVars, rx_pc, btVars, raced>>

HC == INSTANCE HostCtrl WITH
        Callers <- {"tx", "rx"}, FailedWritesLand <- BusErrors
H2B == INSTANCE PacketStream WITH
         Packets <- TxPackets, PayloadLen <- TxLen, Capacity <- FwBufSize - 4,
         stream <- h2b, got <- bt_got
B2H == INSTANCE PacketStream WITH
         Packets <- RxPackets, PayloadLen <- RxLen,
         Capacity <- FwBufSize - 4 + RxBufSize,
         stream <- b2h, got <- delivered

-----------------------------------------------------------------------------
Quiet ==
  /\ H2B!Init
  /\ B2H!Init
  /\ tx_pc = "idle"
  /\ polls = 0
  /\ rx_pc = "read"
  /\ bt_awake = TRUE
  /\ bt_notified = FALSE
  /\ raced = FALSE

Init == HC!Init /\ Quiet

(* The steps of open on the register, before there is any other thread. *)
Open ==
  /\ \/ \E o \in HC!Ops : HC!Begin("open", o)
     \/ HC!BusWrite("open")
     \/ BusErrors /\ HC!BusFail("open")
     \/ HC!Mirror("open")
  /\ UNCHANGED <<ringVars, txVars, rx_pc, btVars, raced>>

(* A thread starts a read-modify-write of HOST_CTRL_REG ... *)
Begin(t, o) ==
  /\ HC!Begin(t, o)
  /\ raced' = (raced \/ HC!Busy # {})

(* ... writes the register, and an edge of DATA_VALID is a notification.   *)
BusWrite(t) ==
  /\ HC!BusWrite(t)
  /\ bt_notified' = (bt_notified \/
       ("DATA_VALID" \in host_ctrl') # ("DATA_VALID" \in host_ctrl))
  /\ UNCHANGED <<ringVars, txVars, rx_pc, bt_awake, raced>>

-----------------------------------------------------------------------------
(* send.  First WAKE_BT is set ... *)
Send ==
  /\ tx_pc = "idle"
  /\ Begin("tx", "set_bt_awake")
  /\ tx_pc' = "wake"
  /\ UNCHANGED <<ringVars, polls, rx_pc, btVars>>

WakeDone ==
  /\ tx_pc = "wake"
  /\ HC!Mirror("tx")
  /\ tx_pc' = "poll"
  /\ UNCHANGED <<ringVars, polls, rx_pc, btVars, raced>>

(* A mutant: any answer is taken for "awake". *)
SeesAnything == TRUE

SeesAwake == bt_awake

(* ... then wait_awake polls BT_CTRL, a failed read counting as "asleep".  *)
PollAwake ==
  /\ tx_pc = "poll"
  /\ SeesAwake
  /\ tx_pc' = "ring"
  /\ polls' = 0
  /\ UNCHANGED <<hcVars, ringVars, rx_pc, btVars, raced>>

(* A mutant: the polls are not counted. *)
PollsForgotten == polls

(* Another: the count starts over when it has reached its limit. *)
PollsStartOver == (polls + 1) % Retries

PollsDone == polls + 1

PollAsleep ==
  /\ tx_pc = "poll"
  /\ ~bt_awake \/ BusErrors
  /\ IF PollsDone < Retries
       THEN polls' = PollsDone /\ tx_pc' = "poll"
       ELSE polls' = 0 /\ tx_pc' = "idle"           \* -ETIMEDOUT
  /\ UNCHANGED <<hcVars, ringVars, rx_pc, btVars, raced>>

(* A mutant: ring_write does not toggle. *)
ReturnAtOnce == "idle"

AfterPublish == "toggle"

(* ring_write up to the write of h2b_in ... *)
RingWrite(p) ==
  /\ tx_pc = "ring"
  /\ H2B!Put(p)
  /\ tx_pc' = AfterPublish
  /\ UNCHANGED <<hcVars, b2hVars, polls, rx_pc, btVars, raced>>

RingFull(p) ==
  /\ tx_pc = "ring"
  /\ 4 * Len(h2b) + H2B!RoundedLen(p) > FwBufSize - 4
  /\ tx_pc' = "idle"                                \* -ENOBUFS
  /\ UNCHANGED <<hcVars, ringVars, polls, rx_pc, btVars, raced>>

(* A mutant: it sets the wrong bit. *)
WakeInstead == "set_bt_awake"

Notification == "toggle_intr"

(* ... and its toggle_intr. *)
TxToggle ==
  /\ tx_pc = "toggle"
  /\ Begin("tx", Notification)
  /\ tx_pc' = "toggling"
  /\ UNCHANGED <<ringVars, polls, rx_pc, btVars>>

TxToggled ==
  /\ tx_pc = "toggling"
  /\ HC!Mirror("tx")
  /\ tx_pc' = "idle"
  /\ UNCHANGED <<ringVars, polls, rx_pc, btVars, raced>>

(* A failing bus access ends send, and the packet may be in the ring.      *)
TxFail ==
  /\ BusErrors
  /\ \/ /\ tx_pc \in {"wake", "toggling"}
        /\ HC!BusFail("tx")
        /\ UNCHANGED h2bVars
     \/ /\ tx_pc = "ring"
        /\ UNCHANGED h2bVars \/ \E p \in TxPackets : H2B!Put(p)
        /\ UNCHANGED hcVars
  /\ tx_pc' = "idle"
  /\ raced' = TRUE
  /\ UNCHANGED <<b2hVars, polls, rx_pc, btVars>>

-----------------------------------------------------------------------------
(* The RX thread.  ring_read has copied a packet and moved b2h_out; until  *)
(* it is passed on the packet counts as in transit (see B2HRing).  When    *)
(* the write of b2h_out is reported to have failed it may be gone.         *)
RxRead ==
  /\ phase = "running"
  /\ rx_pc = "read"
  /\ b2h # <<>>
  /\ rx_pc' = "toggle"
  /\ UNCHANGED <<hcVars, ringVars, txVars, btVars, raced>>

RxReadFail(p) ==
  /\ BusErrors
  /\ phase = "running"
  /\ rx_pc = "read"
  /\ B2H!Lose(p)
  /\ UNCHANGED <<hcVars, h2bVars, txVars, rx_pc, btVars, raced>>

RxToggle ==
  /\ rx_pc = "toggle"
  /\ Begin("rx", "toggle_intr")
  /\ rx_pc' = "toggling"
  /\ UNCHANGED <<ringVars, txVars, btVars>>

(* A mutant: the packet is passed on but stays in the ring. *)
PassedAndKept(p) ==
  b2h[1].pkt = p /\ delivered' \in {p, delivered} /\ b2h' = b2h

PassedOrDropped(p) == B2H!Get(p) \/ B2H!Lose(p)

(* The packet goes to the stack, or is dropped for want of a net_buf. *)
RxToggled(p) ==
  /\ rx_pc = "toggling"
  /\ HC!Mirror("rx")
  /\ PassedOrDropped(p)
  /\ rx_pc' = "read"
  /\ UNCHANGED <<h2bVars, txVars, btVars, raced>>

(* The toggle fails: the packet is discarded. *)
RxFail(p) ==
  /\ BusErrors
  /\ rx_pc = "toggling"
  /\ HC!BusFail("rx")
  /\ B2H!Lose(p)
  /\ rx_pc' = "read"
  /\ raced' = TRUE
  /\ UNCHANGED <<h2bVars, txVars, btVars>>

-----------------------------------------------------------------------------
(* The BT core (external).  It sleeps only while WAKE_BT is clear, wakes   *)
(* when it is set, takes packets once notified until there are none, and   *)
(* sends what it likes when it likes.                                      *)
BtSleep ==
  /\ bt_awake
  /\ "WAKE_BT" \notin host_ctrl
  /\ bt_awake' = FALSE
  /\ UNCHANGED <<hcVars, ringVars, txVars, rx_pc, bt_notified, raced>>

BtWake ==
  /\ ~bt_awake
  /\ "WAKE_BT" \in host_ctrl
  /\ bt_awake' = TRUE
  /\ UNCHANGED <<hcVars, ringVars, txVars, rx_pc, bt_notified, raced>>

BtTake(p) ==
  /\ bt_awake
  /\ bt_notified
  /\ H2B!Get(p)
  /\ UNCHANGED <<hcVars, b2hVars, txVars, rx_pc, btVars, raced>>

BtNoMore ==
  /\ bt_notified
  /\ h2b = <<>>
  /\ bt_notified' = FALSE
  /\ UNCHANGED <<hcVars, ringVars, txVars, rx_pc, bt_awake, raced>>

Held == IF rx_pc = "read" THEN 0 ELSE B2H!RoundedLen(b2h[1].pkt)

BtEvent(p) ==
  /\ 4 * Len(b2h) - Held + B2H!RoundedLen(p) <= FwBufSize - 4
  /\ B2H!Put(p)
  /\ UNCHANGED <<hcVars, h2bVars, txVars, rx_pc, btVars, raced>>

-----------------------------------------------------------------------------
TxStep ==
  \/ BusWrite("tx") \/ WakeDone \/ PollAwake \/ PollAsleep
  \/ \E p \in TxPackets : RingWrite(p) \/ RingFull(p)
  \/ TxToggle \/ TxToggled \/ TxFail

RxStep ==
  \/ RxRead \/ RxToggle \/ BusWrite("rx")
  \/ \E p \in RxPackets : RxReadFail(p) \/ RxToggled(p) \/ RxFail(p)

BtStep == BtWake \/ BtNoMore \/ \E p \in TxPackets : BtTake(p)

Next ==
  \/ Open
  \/ Send \/ TxStep
  \/ RxStep
  \/ BtSleep \/ BtStep \/ \E p \in RxPackets : BtEvent(p)

Spec == Init /\ [][Next]_vars

(* A call that was made runs on, the RX thread runs, and the BT core wakes *)
(* when it is asked to and looks when it was notified.  Nothing makes the  *)
(* stack send, and nothing makes the BT core sleep or send.                *)
FairSpec ==
  Spec /\ WF_vars(TxStep) /\ WF_vars(RxStep) /\ WF_vars(BtStep)

-----------------------------------------------------------------------------
TypeOK ==
  /\ HC!TypeOK
  /\ h2b \in Seq([pkt : TxPackets, off : Nat])
  /\ b2h \in Seq([pkt : RxPackets, off : Nat])
  /\ tx_pc \in {"idle", "wake", "poll", "ring", "toggle", "toggling"}
  /\ polls \in 0 .. Retries - 1
  /\ rx_pc \in {"read", "toggle", "toggling"}
  /\ bt_awake \in BOOLEAN
  /\ bt_notified \in BOOLEAN
  /\ raced \in BOOLEAN

(* As long as no two read-modify-writes of HOST_CTRL_REG have overlapped   *)
(* and no bus error has ended one, or a send, a packet in the ring is one  *)
(* the BT core has been told of, or is about to be: no doorbell is lost.   *)
NoLostDoorbell ==
  ~raced /\ h2b # <<>> =>
    bt_notified \/ tx_pc = "toggle" \/ (tx_pc = "toggling" /\ stage["tx"] = "write")

(* As long as that is so, the BT core is awake from the time send has seen *)
(* it awake until the packet is in the ring.                               *)
AwakeUnlessRaced == ~raced /\ tx_pc = "ring" => bt_awake

(* Every call of send comes back, whatever the RX thread, the BT core and  *)
(* the bus do.                                                             *)
SendReturns == tx_pc # "idle" ~> tx_pc = "idle"

(* Unless one of the two happens, what was put into the ring is taken.     *)
TakenUnlessRaced == h2b # <<>> ~> h2b = <<>> \/ raced

(* What keeps SendReturns true: each step that send takes leaves it fewer  *)
(* to take, Retries + 6 in all, and no step of another thread, of the BT   *)
(* core or of the bus gives it one more.                                   *)
TxLeft ==
  CASE tx_pc = "wake" -> Retries + (IF stage["tx"] = "write" THEN 6 ELSE 5)
    [] tx_pc = "poll" -> Retries + 4 - polls
    [] tx_pc = "ring" -> 4
    [] tx_pc = "toggle" -> 3
    [] tx_pc = "toggling" -> IF stage["tx"] = "write" THEN 2 ELSE 1
    [] OTHER -> 0

SendGoesForward ==
  [][tx_pc # "idle" => TxLeft' < TxLeft]_<<tx_pc, polls, stage["tx"]>>

-----------------------------------------------------------------------------
(* What a comment of the driver says of it. *)

(* toggle_intr is there "to notify the BT core that the ring buffer state  *)
(* has changed": what was put into the ring is taken from it.              *)
PublishedIsTaken == h2b # <<>> ~> h2b = <<>>
=============================================================================
