-------------------------- MODULE HciSession_proofs -------------------------
(***************************************************************************)
(* Theorems about the transport as a whole, and about the commands and     *)
(* their answers that go through it, for any packets, lengths, ring sizes, *)
(* polls and net_bufs, with a bus that fails or does not.                  *)
(*                                                                         *)
(* First Transport (Spec): each step does at most one step of HostCtrl     *)
(* (ImplementsHostCtrl), so that its inductive invariant holds here too;   *)
(* what it says of a call that is alone carries the proofs.  The rest of   *)
(* IInv ties the calls to where the threads are, and says what holds until *)
(* `raced'.                                                                *)
(*                                                                         *)
(* Then HciSession (SSpec): its steps are those of Transport, whose        *)
(* invariant holds here as well.  What the session adds: where the command *)
(* outstanding is, and that besides it only such commands are on their way *)
(* to an answer for which send has failed.                                 *)
(***************************************************************************)
EXTENDS HciSession, SequenceTheorems, FiniteSetTheorems, TLAPS

HCP == INSTANCE HostCtrl_proofs WITH
         Callers <- {"tx", "rx"}, FailedWritesLand <- BusErrors

(* A call is under way exactly where send or the RX thread has begun one.  *)
CallsMatch ==
  /\ tx_pc # "idle" \/ rx_pc # "read" => phase = "running"
  /\ stage["tx"] # "idle" <=> tx_pc \in {"wake", "toggling"}
  /\ stage["rx"] # "idle" <=> rx_pc = "toggling"
  /\ tx_pc = "toggling" => op["tx"] = "toggle_intr"

PacketHeld == rx_pc # "read" => b2h # <<>>

(* Until two calls overlap or a bus error ends one each call is alone, and *)
(* so the cache is right whenever no call is between its two writes.       *)
CallsAreAlone == ~raced => \A t \in HC!Threads : stage[t] # "idle" => alone[t]

CacheInStep ==
  ~raced /\ phase = "running" /\ (\A t \in HC!Threads : stage[t] # "mirror")
    => HC!InStep

(* WAKE_BT is in hand while send sets it, and everywhere from then on, as  *)
(* long as send needs the BT core awake.                                   *)
WakeHolds ==
  /\ tx_pc = "wake" => "WAKE_BT" \in value["tx"]
  /\ ~raced /\ tx_pc \in {"poll", "ring"} => HC!WakeSettled

IInv ==
  /\ HCP!IInv
  /\ TypeOK
  /\ CallsMatch /\ PacketHeld
  /\ CallsAreAlone /\ CacheInStep /\ WakeHolds
  /\ NoLostDoorbell /\ AwakeUnlessRaced

-----------------------------------------------------------------------------
LEMMA ThreadsAre == HC!Threads = {"open", "tx", "rx"}
  BY DEF HC!Threads

(* A sequence without its first n elements, and those n. *)
LEMMA SuffixFacts ==
  ASSUME NEW S, NEW s \in Seq(S), NEW n \in Nat
  PROVE  /\ SubSeq(s, n + 1, Len(s)) \in Seq(S)
         /\ n <= Len(s) =>
              /\ Len(SubSeq(s, n + 1, Len(s))) = Len(s) - n
              /\ \A i \in 1 .. Len(s) - n : SubSeq(s, n + 1, Len(s))[i] = s[i + n]
              /\ \A i \in 1 .. n : SubSeq(s, 1, n)[i] = s[i]
<1>1. \A i \in n + 1 .. Len(s) : s[i] \in S
  OBVIOUS
<1>2. /\ SubSeq(s, n + 1, Len(s)) \in Seq(S)
      /\ Len(SubSeq(s, n + 1, Len(s))) = IF n + 1 <= Len(s) THEN Len(s) - (n + 1) + 1 ELSE 0
      /\ \A i \in 1 .. Len(s) - (n + 1) + 1 : SubSeq(s, n + 1, Len(s))[i] = s[n + 1 + i - 1]
  BY <1>1, SubSeqProperties
<1>3. ASSUME n <= Len(s), NEW i \in 1 .. n
      PROVE  SubSeq(s, 1, n)[i] = s[i]
  <2>1. \A j \in 1 .. n : s[j] \in S
    BY <1>3
  <2>2. \A j \in 1 .. n - 1 + 1 : SubSeq(s, 1, n)[j] = s[1 + j - 1]
    BY <2>1, SubSeqProperties
  <2> QED
    BY <2>2
<1>4. ASSUME n <= Len(s), NEW i \in 1 .. Len(s) - n
      PROVE  SubSeq(s, n + 1, Len(s))[i] = s[i + n]
  BY <1>2, <1>4
<1>5. n <= Len(s) => Len(SubSeq(s, n + 1, Len(s))) = Len(s) - n
  BY <1>2
<1> QED
  BY <1>2, <1>3, <1>4, <1>5

(* The words of a packet to the BT core, and the ring after it is put in   *)
(* or taken.                                                               *)
LEMMA TxPacketFacts ==
  ASSUME NEW p \in TxPackets, h2b \in Seq([pkt : TxPackets, off : Nat])
  PROVE  /\ H2B!Put(p) => h2b' \in Seq([pkt : TxPackets, off : Nat]) /\ h2b' # <<>>
         /\ H2B!Leave(p) => h2b' \in Seq([pkt : TxPackets, off : Nat])
<1> DEFINE n == H2B!RoundedLen(p) \div 4
<1>1. n \in Nat /\ n >= 1
  <2>1. TxLen[p] \in Nat
    BY TransportAssumption
  <2> QED
    BY <2>1 DEF H2B!RoundedLen, H2B!RoundUp, H2B!HeaderSize
<1>2. /\ H2B!PacketWords(p) \in Seq([pkt : TxPackets, off : Nat])
      /\ Len(H2B!PacketWords(p)) = n
  <2> HIDE DEF n
  <2>1. H2B!PacketWords(p) = [i \in 1 .. n |-> H2B!Word(p, 4 * (i - 1))]
    BY DEF H2B!PacketWords, n
  <2>2. \A i \in 1 .. n : H2B!Word(p, 4 * (i - 1)) \in [pkt : TxPackets, off : Nat]
    BY <1>1 DEF H2B!Word
  <2> QED
    BY <1>1, <2>1, <2>2
<1>3. ASSUME H2B!Put(p)
      PROVE  h2b' \in Seq([pkt : TxPackets, off : Nat]) /\ h2b' # <<>>
  <2> HIDE DEF n
  <2>1. h2b' = h2b \o H2B!PacketWords(p)
    BY <1>3 DEF H2B!Put
  <2> QED
    BY <1>1, <1>2, <2>1
<1>4. ASSUME H2B!Leave(p)
      PROVE  h2b' \in Seq([pkt : TxPackets, off : Nat])
  <2> HIDE DEF n
  <2>1. h2b' = SubSeq(h2b, n + 1, Len(h2b))
    BY <1>4 DEF H2B!Leave, n
  <2> QED
    BY <1>1, <2>1, SuffixFacts
<1> QED
  BY <1>3, <1>4

(* The same for the packets to the host. *)
LEMMA RxPacketFacts ==
  ASSUME NEW p \in RxPackets, b2h \in Seq([pkt : RxPackets, off : Nat])
  PROVE  /\ B2H!Put(p) => b2h' \in Seq([pkt : RxPackets, off : Nat]) /\ b2h' # <<>>
         /\ B2H!Leave(p) => b2h' \in Seq([pkt : RxPackets, off : Nat])
<1> DEFINE n == B2H!RoundedLen(p) \div 4
<1>1. n \in Nat /\ n >= 1
  <2>1. RxLen[p] \in Nat
    BY TransportAssumption
  <2> QED
    BY <2>1 DEF B2H!RoundedLen, B2H!RoundUp, B2H!HeaderSize
<1>2. /\ B2H!PacketWords(p) \in Seq([pkt : RxPackets, off : Nat])
      /\ Len(B2H!PacketWords(p)) = n
  <2> HIDE DEF n
  <2>1. B2H!PacketWords(p) = [i \in 1 .. n |-> B2H!Word(p, 4 * (i - 1))]
    BY DEF B2H!PacketWords, n
  <2>2. \A i \in 1 .. n : B2H!Word(p, 4 * (i - 1)) \in [pkt : RxPackets, off : Nat]
    BY <1>1 DEF B2H!Word
  <2> QED
    BY <1>1, <2>1, <2>2
<1>3. ASSUME B2H!Put(p)
      PROVE  b2h' \in Seq([pkt : RxPackets, off : Nat]) /\ b2h' # <<>>
  <2> HIDE DEF n
  <2>1. b2h' = b2h \o B2H!PacketWords(p)
    BY <1>3 DEF B2H!Put
  <2> QED
    BY <1>1, <1>2, <2>1
<1>4. ASSUME B2H!Leave(p)
      PROVE  b2h' \in Seq([pkt : RxPackets, off : Nat])
  <2> HIDE DEF n
  <2>1. b2h' = SubSeq(b2h, n + 1, Len(b2h))
    BY <1>4 DEF B2H!Leave, n
  <2> QED
    BY <1>1, <2>1, SuffixFacts
<1> QED
  BY <1>3, <1>4

-----------------------------------------------------------------------------
(* Each step of the system does at most one step of HostCtrl. *)
LEMMA HostCtrlStep == Next => [HC!Next]_hcVars
  BY DEF Next, Open, Send, TxStep, RxStep, BtStep, BtSleep, BtEvent, BtWake,
         BtNoMore, BtTake, RxRead, RxReadFail, RxToggle, RxToggled, RxFail,
         TxFail, TxToggle, TxToggled, RingWrite, RingFull, PollAwake,
         PollAsleep, WakeDone, BusWrite, Begin, HC!Next, HC!Ops, HC!Threads,
         Notification, hcVars

(* ... and those steps are the ones that HostCtrl_proofs speaks of, ... *)
LEMMA SameNext == HC!Next <=> HCP!Next
  BY DEF HC!Next, HCP!Next, HC!Threads, HCP!Threads, HC!Begin, HCP!Begin,
         HC!Ops, HCP!Ops, HC!BusWrite, HCP!BusWrite, HC!BusFail, HCP!BusFail,
         HC!Mirror, HCP!Mirror, HC!Over, HCP!Over, HC!Cached, HCP!Cached,
         HC!MayCall, HCP!MayCall, HC!Busy, HCP!Busy, HC!Modified, HCP!Modified,
         HC!Toggled, HCP!Toggled

(* ... so that its inductive invariant is kept here. *)
LEMMA HCInv == HCP!IInv /\ [HC!Next]_hcVars => HCP!IInv'
<1>1. HCP!CallersAssumption
  BY TransportAssumption DEF HCP!CallersAssumption
<1>2. HCP!IInv /\ [HCP!Next]_HCP!vars => HCP!IInv'
  BY <1>1, HCP!NextIInv
<1> QED
  BY SameNext, <1>2 DEF hcVars, HCP!vars

(* No step breaks the type invariant. *)
LEMMA NextTypeOK == IInv /\ Next => TypeOK'
<1> SUFFICES ASSUME IInv, Next PROVE TypeOK'
  OBVIOUS
<1> USE DEF IInv, TypeOK
<1>1. HC!TypeOK'
  <2>1. HCP!IInv'
    BY HostCtrlStep, HCInv
  <2> QED
    BY <2>1
       DEF HCP!IInv, HCP!TypeOK, HC!TypeOK, HCP!Bits, HC!Bits, HCP!Ops, HC!Ops,
           HCP!Threads, HC!Threads
<1> USE DEF Next, Open, Send, TxStep, RxStep, BtStep, BtSleep, BtEvent, BtWake,
            BtNoMore, BtTake, RxRead, RxReadFail, RxToggle, RxToggled, RxFail,
            TxFail, TxToggle, TxToggled, RingWrite, RingFull, PollAwake,
            PollAsleep, WakeDone, BusWrite
<1>2. h2b' \in Seq([pkt : TxPackets, off : Nat])
  BY TxPacketFacts DEF h2bVars, ringVars, H2B!Get
<1>3. b2h' \in Seq([pkt : RxPackets, off : Nat])
  BY RxPacketFacts DEF b2hVars, ringVars, B2H!Get, B2H!Lose, PassedOrDropped
<1>4. tx_pc' \in {"idle", "wake", "poll", "ring", "toggle", "toggling"}
  BY TransportAssumption DEF txVars, btVars, Begin, AfterPublish, PollsDone
<1>5. polls' \in 0 .. Retries - 1
  BY TransportAssumption DEF txVars, btVars, Begin, AfterPublish, PollsDone
<1>6. rx_pc' \in {"read", "toggle", "toggling"}
  BY TransportAssumption DEF txVars, btVars, Begin, AfterPublish, PollsDone
<1>7. bt_awake' \in BOOLEAN
  BY TransportAssumption DEF txVars, btVars, Begin, AfterPublish, PollsDone
<1>8. bt_notified' \in BOOLEAN
  BY TransportAssumption DEF txVars, btVars, Begin, AfterPublish, PollsDone
<1>9. raced' \in BOOLEAN
  BY TransportAssumption DEF txVars, btVars, Begin, AfterPublish, PollsDone
<1> QED
  BY <1>1, <1>2, <1>3, <1>4, <1>5, <1>6, <1>7, <1>8, <1>9

-----------------------------------------------------------------------------
(* What a call that is alone has in hand. *)
LEMMA AloneFacts ==
  ASSUME IInv, ~raced, NEW t \in HC!Threads, stage[t] # "idle"
  PROVE  /\ \A u \in HC!Threads : stage[u] # "idle" => u = t
         /\ stage[t] = "write" =>
              op[t] \in HC!Ops /\ value[t] = HC!Modified(op[t], host_ctrl_cache)
         /\ stage[t] = "mirror" => host_ctrl = value[t]
<1>1. HCP!AloneIsAlone /\ CallsAreAlone
  BY DEF IInv, HCP!IInv
<1>2. /\ HCP!Threads = HC!Threads /\ HCP!Ops = HC!Ops
      /\ HCP!Modified(op[t], host_ctrl_cache) = HC!Modified(op[t], host_ctrl_cache)
  BY DEF HCP!Threads, HC!Threads, HCP!Ops, HC!Ops, HCP!Modified, HC!Modified,
         HCP!Toggled, HC!Toggled
<1>3. alone[t]
  BY <1>1 DEF CallsAreAlone
<1> QED
  BY <1>1, <1>2, <1>3 DEF HCP!AloneIsAlone

(* open's calls come before the threads' calls. *)
LEMMA OpenIsAlone ==
  ASSUME IInv
  PROVE  /\ phase # "running" => stage["tx"] = "idle" /\ stage["rx"] = "idle"
         /\ phase = "running" => stage["open"] = "idle"
  BY DEF IInv, HCP!IInv, HCP!OneAtATimeDuringOpen, HCP!Threads

(* A call that begins leaves the other thread's call where it is. *)
LEMMA BeginKeeps ==
  ASSUME IInv, NEW t \in HC!Threads, NEW o \in HC!Ops, HC!Begin(t, o),
         raced' = (raced \/ HC!Busy # {})
  PROVE  CallsAreAlone' /\ CacheInStep'
<1>1. /\ stage \in [HC!Threads -> {"idle", "write", "mirror"}]
      /\ alone \in [HC!Threads -> BOOLEAN]
  BY DEF IInv, TypeOK, HC!TypeOK
<1>2. CallsAreAlone'
  BY <1>1 DEF CallsAreAlone, HC!Begin, HC!Busy
<1>3. CacheInStep'
  BY <1>1 DEF IInv, CacheInStep, HC!Begin, HC!Busy, HC!InStep
<1> QED
  BY <1>2, <1>3

(* So does the write to the register ... *)
LEMMA BusWriteKeeps ==
  ASSUME IInv, NEW t \in HC!Threads, HC!BusWrite(t), raced' = raced
  PROVE  CallsAreAlone' /\ CacheInStep'
<1>1. stage \in [HC!Threads -> {"idle", "write", "mirror"}]
  BY DEF IInv, TypeOK, HC!TypeOK
<1>2. CallsAreAlone'
  BY <1>1 DEF IInv, CallsAreAlone, HC!BusWrite
<1>3. CacheInStep'
  BY <1>1 DEF CacheInStep, HC!BusWrite
<1> QED
  BY <1>2, <1>3

(* ... and the write to the cache that ends the call, ... *)
LEMMA MirrorKeeps ==
  ASSUME IInv, NEW t \in HC!Threads, HC!Mirror(t), raced' = raced
  PROVE  CallsAreAlone' /\ CacheInStep'
<1>1. /\ stage \in [HC!Threads -> {"idle", "write", "mirror"}]
      /\ alone \in [HC!Threads -> BOOLEAN]
  BY DEF IInv, TypeOK, HC!TypeOK
<1>2. CallsAreAlone'
  BY <1>1 DEF IInv, CallsAreAlone, HC!Mirror, HC!Over
<1>3. CacheInStep'
  <2> SUFFICES ASSUME ~raced PROVE host_ctrl_cache' = host_ctrl'
    BY DEF CacheInStep, HC!InStep
  <2>1. host_ctrl = value[t]
    BY AloneFacts DEF HC!Mirror
  <2> QED
    BY <2>1 DEF HC!Mirror, HC!Cached
<1> QED
  BY <1>2, <1>3

(* ... and a call that the bus ends. *)
LEMMA FailKeeps ==
  ASSUME IInv, NEW t \in HC!Threads, HC!BusFail(t),
         t = "open" \/ raced', t = "open" => raced' = raced
  PROVE  CallsAreAlone' /\ CacheInStep'
<1>1. /\ stage \in [HC!Threads -> {"idle", "write", "mirror"}]
      /\ alone \in [HC!Threads -> BOOLEAN]
  BY DEF IInv, TypeOK, HC!TypeOK
<1>2. CallsAreAlone'
  BY <1>1 DEF IInv, CallsAreAlone, HC!BusFail, HC!Over
<1>3. CacheInStep'
  BY DEF CacheInStep, HC!BusFail
<1> QED
  BY <1>2, <1>3

(* WAKE_BT stays set through any step of the other calls. *)
LEMMA WakeStays ==
  ASSUME IInv, Next, HC!WakeSettled
  PROVE  HC!WakeSettled'
<1>1. HCP!CallersAssumption
  BY TransportAssumption DEF HCP!CallersAssumption
<1>2. [HCP!Next]_HCP!vars
  BY HostCtrlStep, SameNext DEF hcVars, HCP!vars
<1>3. HCP!WakeSettled => HCP!WakeSettled'
  BY <1>1, <1>2, HCP!NextWake DEF IInv
<1> QED
  BY <1>3
     DEF HC!WakeSettled, HCP!WakeSettled, HC!Busy, HCP!Busy, HC!Threads,
         HCP!Threads

(* The calls stay in step with where the threads are. *)
LEMMA NextCallsMatch == IInv /\ Next => CallsMatch'
<1> SUFFICES ASSUME IInv, Next PROVE CallsMatch'
  OBVIOUS
<1> USE ThreadsAre, OpenIsAlone DEF IInv, TypeOK, HC!TypeOK, CallsMatch
<1>1. CASE Open
  BY <1>1
     DEF Open, HC!Begin, HC!BusWrite, HC!BusFail, HC!Mirror, HC!Over, HC!MayCall,
         txVars
<1>2. CASE Send \/ TxToggle \/ BusWrite("tx") \/ WakeDone \/ TxToggled
  BY <1>2
     DEF Send, TxToggle, BusWrite, WakeDone, TxToggled, Begin, Notification,
         HC!Begin, HC!MayCall, HC!BusWrite, HC!Mirror, HC!Over, txVars
<1>3. CASE PollAwake \/ PollAsleep \/ \E p \in TxPackets : RingWrite(p) \/ RingFull(p)
  BY <1>3 DEF PollAwake, PollAsleep, RingWrite, RingFull, hcVars, AfterPublish
<1>4. CASE TxFail
  BY <1>4 DEF TxFail, HC!BusFail, HC!Over, hcVars
<1>5. CASE RxStep
  BY <1>5
     DEF RxStep, RxRead, RxReadFail, RxToggle, BusWrite, RxToggled, RxFail,
         Begin, HC!Begin, HC!MayCall, HC!BusWrite, HC!BusFail, HC!Mirror,
         HC!Over, txVars, hcVars
<1>6. CASE BtSleep \/ BtStep \/ \E p \in RxPackets : BtEvent(p)
  BY <1>6 DEF BtSleep, BtStep, BtWake, BtNoMore, BtTake, BtEvent, txVars, hcVars
<1> QED
  BY <1>1, <1>2, <1>3, <1>4, <1>5, <1>6 DEF Next, TxStep

(* The RX thread's packet stays in transit until it is passed on. *)
LEMMA NextPacketHeld == IInv /\ Next => PacketHeld'
<1> SUFFICES ASSUME IInv, Next PROVE PacketHeld'
  OBVIOUS
<1> USE DEF IInv, PacketHeld, ringVars, b2hVars
<1>1. CASE Open \/ Send \/ TxStep
  BY <1>1
     DEF Open, Send, TxStep, BusWrite, WakeDone, PollAwake, PollAsleep,
         RingWrite, RingFull, TxToggle, TxToggled, TxFail
<1>2. CASE RxStep
  BY <1>2 DEF RxStep, RxRead, RxReadFail, RxToggle, BusWrite, RxToggled, RxFail
<1>3. CASE BtSleep \/ BtStep
  BY <1>3 DEF BtSleep, BtStep, BtWake, BtNoMore, BtTake
<1>4. ASSUME NEW p \in RxPackets, BtEvent(p) PROVE PacketHeld'
  BY <1>4, RxPacketFacts DEF BtEvent, TypeOK
<1> QED
  BY <1>1, <1>2, <1>3, <1>4 DEF Next

(* Until `raced' each call stays alone, and the cache right between calls. *)
LEMMA NextCallsAlone == IInv /\ Next => CallsAreAlone' /\ CacheInStep'
<1> SUFFICES ASSUME IInv, Next PROVE CallsAreAlone' /\ CacheInStep'
  OBVIOUS
<1> USE ThreadsAre
<1>1. CASE Open
  <2>1. HC!MayCall("open", "set_host_ready") \/ HC!MayCall("open", "toggle_intr") =>
          \A t \in HC!Threads : t # "open" => stage[t] = "idle"
    BY OpenIsAlone DEF HC!MayCall
  <2>2. \A o \in HC!Ops : HC!Begin("open", o) => raced' = (raced \/ HC!Busy # {})
    <3>1. \A o \in HC!Ops : HC!Begin("open", o) => HC!Busy = {}
      BY <2>1 DEF HC!Begin, HC!Busy, HC!MayCall
    <3>2. raced \in BOOLEAN /\ raced' = raced
      BY <1>1 DEF Open, IInv, TypeOK
    <3> QED
      BY <3>1, <3>2
  <2>3. \A o \in HC!Ops : HC!Begin("open", o) => CallsAreAlone' /\ CacheInStep'
    BY <2>2, BeginKeeps
  <2>4. raced' = raced
    BY <1>1 DEF Open
  <2>5. HC!BusWrite("open") \/ HC!Mirror("open") => CallsAreAlone' /\ CacheInStep'
    BY <2>4, BusWriteKeeps, MirrorKeeps
  <2>6. HC!BusFail("open") => CallsAreAlone' /\ CacheInStep'
    BY <2>4, FailKeeps
  <2> QED
    BY <1>1, <2>3, <2>5, <2>6 DEF Open
<1>2. CASE Send \/ TxToggle
  BY <1>2, BeginKeeps DEF Send, TxToggle, Begin, Notification, HC!Ops
<1>3. CASE RxToggle
  BY <1>3, BeginKeeps DEF RxToggle, Begin, HC!Ops
<1>4. CASE BusWrite("tx") \/ BusWrite("rx")
  BY <1>4, BusWriteKeeps DEF BusWrite
<1>5. CASE WakeDone \/ TxToggled \/ \E p \in RxPackets : RxToggled(p)
  BY <1>5, MirrorKeeps DEF WakeDone, TxToggled, RxToggled
<1>6. CASE \E p \in RxPackets : RxFail(p)
  BY <1>6, FailKeeps DEF RxFail
<1>7. CASE TxFail
  BY <1>7, FailKeeps DEF TxFail, hcVars, CallsAreAlone, CacheInStep
<1>8. CASE \/ UNCHANGED <<hcVars, raced>>
  BY <1>8 DEF hcVars, IInv, CallsAreAlone, CacheInStep, HC!InStep
<1> QED
  BY <1>1, <1>2, <1>3, <1>4, <1>5, <1>6, <1>7, <1>8
     DEF Next, TxStep, RxStep, BtStep, BtSleep, BtWake, BtNoMore, BtTake, BtEvent,
         RxRead, RxReadFail, PollAwake, PollAsleep, RingWrite, RingFull

(* Until `raced' WAKE_BT is set from the wake to the end of the ring       *)
(* access.                                                                 *)
LEMMA NextWakeHolds == IInv /\ Next => WakeHolds' /\ AwakeUnlessRaced'
<1> SUFFICES ASSUME IInv, Next PROVE WakeHolds' /\ AwakeUnlessRaced'
  OBVIOUS
<1> USE ThreadsAre
<1>1. CASE WakeDone
  <2>1. ~raced => HC!WakeSettled'
    <3> SUFFICES ASSUME ~raced PROVE HC!WakeSettled'
      OBVIOUS
    <3>1. host_ctrl = value["tx"] /\ \A u \in HC!Threads : stage[u] # "idle" => u = "tx"
      BY <1>1, AloneFacts DEF WakeDone, HC!Mirror
    <3>2. "WAKE_BT" \in value["tx"]
      BY <1>1 DEF IInv, WakeHolds, WakeDone
    <3> QED
      BY <1>1, <3>1, <3>2
         DEF WakeDone, HC!Mirror, HC!Cached, HC!Over, HC!WakeSettled, HC!Busy,
             IInv, TypeOK, HC!TypeOK
  <2> QED
    BY <1>1, <2>1 DEF WakeDone, WakeHolds, AwakeUnlessRaced
<1>2. CASE ~WakeDone
  <2> USE DEF Next, Open, Send, TxStep, RxStep, BtStep, BtSleep, BtEvent, BtWake,
              BtNoMore, BtTake, RxRead, RxReadFail, RxToggle, RxToggled,
              RxFail, TxFail, TxToggle, TxToggled, RingWrite, RingFull,
              PollAwake, PollAsleep, WakeDone, BusWrite
  <2>1. raced => raced'
    BY DEF Begin
  <2>2. tx_pc' \in {"poll", "ring"} => tx_pc \in {"poll", "ring"}
    BY <1>2 DEF txVars, AfterPublish
  <2>3. ~raced' /\ tx_pc' \in {"poll", "ring"} => HC!WakeSettled /\ HC!WakeSettled'
    BY <2>1, <2>2, WakeStays DEF IInv, WakeHolds
  <2>4. tx_pc' = "wake" => "WAKE_BT" \in value'["tx"]
    <3>1. CASE Send
      BY <3>1 DEF Send, Begin, HC!Begin, HC!Modified, IInv, TypeOK, HC!TypeOK
    <3>2. CASE ~Send
      <4> SUFFICES ASSUME tx_pc' = "wake" PROVE "WAKE_BT" \in value'["tx"]
        OBVIOUS
      <4>1. tx_pc = "wake"
        BY <3>2 DEF txVars, AfterPublish
      <4>2. value'["tx"] = value["tx"]
        BY <3>2, <4>1 DEF hcVars, AfterPublish, Begin, HC!Begin, HC!BusWrite, HC!BusFail, HC!Mirror, HC!Over, IInv, TypeOK, HC!TypeOK
      <4> QED
        BY <4>1, <4>2 DEF IInv, WakeHolds
    <3> QED
      BY <3>1, <3>2
  <2>5. AwakeUnlessRaced'
    <3> SUFFICES ASSUME ~raced', tx_pc' = "ring" PROVE bt_awake'
      BY DEF AwakeUnlessRaced
    <3>1. "WAKE_BT" \in host_ctrl
      BY <2>3 DEF HC!WakeSettled
    <3>2. bt_awake \/ PollAwake
      BY <2>1, <2>2 DEF IInv, AwakeUnlessRaced, txVars, AfterPublish
    <3> QED
      BY <3>1, <3>2 DEF SeesAwake, btVars, Begin
  <2> QED
    BY <2>3, <2>4, <2>5 DEF WakeHolds
<1> QED
  BY <1>1, <1>2

(* A ring that is not empty stays one that the BT core has heard of. *)
LEMMA NextDoorbell == IInv /\ Next => NoLostDoorbell'
<1> SUFFICES ASSUME IInv, Next PROVE NoLostDoorbell'
  OBVIOUS
<1> USE ThreadsAre DEF NoLostDoorbell
<1>0. NoLostDoorbell /\ stage \in [HC!Threads -> {"idle", "write", "mirror"}]
  BY DEF IInv, TypeOK, HC!TypeOK
<1>1. CASE Open
  BY <1>0, <1>1
     DEF Open, ringVars, h2bVars, txVars, btVars, HC!Begin, HC!BusWrite,
         HC!BusFail, HC!Mirror, HC!Over
<1>2. CASE Send \/ RxToggle
  BY <1>0, <1>2
     DEF Send, RxToggle, ringVars, h2bVars, txVars, btVars, Begin, HC!Begin
<1>3. CASE BusWrite("tx") /\ tx_pc = "toggling"
  <2> SUFFICES ASSUME ~raced PROVE bt_notified'
    BY <1>3 DEF BusWrite
  <2>1. stage["tx"] = "write" /\ op["tx"] = "toggle_intr" /\ phase = "running"
    BY <1>3 DEF BusWrite, HC!BusWrite, IInv, CallsMatch
  <2>2. /\ \A t \in HC!Threads : stage[t] # "mirror"
        /\ value["tx"] = HC!Modified("toggle_intr", host_ctrl_cache)
    BY <2>1, AloneFacts
  <2>3. value["tx"] = HC!Toggled(host_ctrl)
    BY <2>1, <2>2 DEF IInv, CacheInStep, HC!InStep, HC!Modified
  <2>4. host_ctrl' = value["tx"]
    BY <1>3 DEF BusWrite, HC!BusWrite
  <2> QED
    BY <1>3, <2>3, <2>4 DEF BusWrite, HC!Toggled
<1>4. CASE BusWrite("rx") \/ (BusWrite("tx") /\ tx_pc # "toggling")
  BY <1>0, <1>4 DEF BusWrite, HC!BusWrite, ringVars, h2bVars, txVars
<1>5. CASE WakeDone \/ TxToggled \/ \E p \in RxPackets : RxToggled(p)
  BY <1>0, <1>5
     DEF WakeDone, TxToggled, RxToggled, HC!Mirror, HC!Over, ringVars, h2bVars,
         txVars, btVars
<1>6. CASE TxToggle
  BY <1>0, <1>6 DEF TxToggle, Begin, HC!Begin
<1>7. CASE TxFail \/ \E p \in RxPackets : RxFail(p)
  BY <1>7 DEF TxFail, RxFail
<1>8. CASE PollAwake \/ PollAsleep \/ \E p \in TxPackets : RingWrite(p) \/ RingFull(p)
  BY <1>0, <1>8
     DEF PollAwake, PollAsleep, RingWrite, RingFull, AfterPublish, hcVars,
         ringVars, h2bVars, btVars
<1>9. CASE BtSleep \/ BtStep \/ \E p \in RxPackets : BtEvent(p)
  BY <1>0, <1>9
     DEF BtSleep, BtStep, BtWake, BtNoMore, BtTake, BtEvent, hcVars, ringVars,
         h2bVars, txVars, btVars
<1>10. CASE RxRead \/ \E p \in RxPackets : RxReadFail(p)
  BY <1>0, <1>10 DEF RxRead, RxReadFail, hcVars, ringVars, h2bVars, txVars, btVars
<1> QED
  BY <1>1, <1>2, <1>3, <1>4, <1>5, <1>6, <1>7, <1>8, <1>9, <1>10
     DEF Next, TxStep, RxStep

(* The quiet state, with open's first call not yet made. *)
LEMMA QuietType ==
  ASSUME HC!TypeOK, Quiet
  PROVE  TypeOK
<1>1. h2b = <<>> /\ b2h = <<>>
  BY DEF Quiet, H2B!Init, B2H!Init
<1>2. /\ h2b \in Seq([pkt : TxPackets, off : Nat])
      /\ b2h \in Seq([pkt : RxPackets, off : Nat])
  BY <1>1
<1>3. polls \in 0 .. Retries - 1
  BY TransportAssumption DEF Quiet
<1>4. /\ tx_pc \in {"idle", "wake", "poll", "ring", "toggle", "toggling"}
      /\ rx_pc \in {"read", "toggle", "toggling"}
      /\ bt_awake \in BOOLEAN /\ bt_notified \in BOOLEAN /\ raced \in BOOLEAN
  BY DEF Quiet
<1> QED
  BY <1>2, <1>3, <1>4 DEF TypeOK

(* The invariant holds when open begins to write HOST_CTRL_REG. *)
LEMMA InitIInv == Init => IInv
<1> SUFFICES ASSUME Init PROVE IInv
  OBVIOUS
<1>1. HCP!IInv
  <2>1. HCP!CallersAssumption
    BY TransportAssumption DEF HCP!CallersAssumption
  <2>2. HCP!Init
    BY DEF Init, HC!Init, HCP!Init, HC!Bits, HCP!Bits, HC!Threads, HCP!Threads
  <2> QED
    BY <2>1, <2>2, HCP!InitIInv
<1>2. HC!TypeOK
  BY <1>1
     DEF HCP!IInv, HCP!TypeOK, HC!TypeOK, HCP!Bits, HC!Bits, HCP!Ops, HC!Ops,
         HCP!Threads, HC!Threads
<1>3. TypeOK
  BY <1>2, QuietType DEF Init
<1>4. /\ tx_pc = "idle" /\ rx_pc = "read" /\ phase = "host_ready" /\ h2b = <<>>
      /\ \A t \in HC!Threads : stage[t] = "idle"
  BY DEF Init, Quiet, HC!Init, H2B!Init
<1>5. /\ CallsMatch /\ PacketHeld /\ CallsAreAlone /\ CacheInStep /\ WakeHolds
      /\ NoLostDoorbell /\ AwakeUnlessRaced
  BY <1>4, ThreadsAre
     DEF CallsMatch, PacketHeld, CallsAreAlone, CacheInStep, WakeHolds,
         NoLostDoorbell, AwakeUnlessRaced
<1> QED
  BY <1>1, <1>3, <1>5 DEF IInv

(* Every step, and stuttering, keeps the invariant. *)
LEMMA NextIInv == IInv /\ [Next]_vars => IInv'
<1>1. IInv /\ Next => IInv'
  <2>1. IInv /\ Next => HCP!IInv'
    BY HostCtrlStep, HCInv DEF IInv
  <2> QED
    BY <2>1, NextTypeOK, NextCallsMatch, NextPacketHeld, NextCallsAlone,
       NextWakeHolds, NextDoorbell
       DEF IInv
<1>2. IInv /\ UNCHANGED vars => IInv'
  <2> SUFFICES ASSUME IInv, UNCHANGED vars PROVE IInv'
    OBVIOUS
  <2>1. UNCHANGED hcVars
    BY DEF vars
  <2>2. HCP!IInv'
    BY <2>1, HCInv DEF IInv
  <2>3. HC!TypeOK'
    BY <2>1 DEF hcVars, IInv, TypeOK, HC!TypeOK
  <2>4. TypeOK'
    BY <2>3 DEF IInv, TypeOK, vars, ringVars, h2bVars, b2hVars, txVars, btVars
  <2>5. CallsMatch' /\ PacketHeld' /\ CallsAreAlone' /\ CacheInStep'
    BY DEF IInv, vars, hcVars, ringVars, b2hVars, txVars, CallsMatch,
           PacketHeld, CallsAreAlone, CacheInStep, HC!InStep
  <2>6. WakeHolds' /\ NoLostDoorbell' /\ AwakeUnlessRaced'
    BY DEF IInv, vars, hcVars, ringVars, h2bVars, txVars, btVars, WakeHolds,
           HC!WakeSettled, HC!Busy, NoLostDoorbell, AwakeUnlessRaced
  <2> QED
    BY <2>2, <2>4, <2>5, <2>6 DEF IInv
<1> QED
  BY <1>1, <1>2

(* The inductive invariant holds: with IInv the properties below follow    *)
(* without looking at the steps again.                                     *)
THEOREM InductiveInvariant == Spec => []IInv
  BY InitIInv, NextIInv, PTL DEF Spec

(* Whatever send, the RX thread, open and the BT core do, and whatever the *)
(* bus fails to do, each variable keeps its type.                          *)
THEOREM TypeCorrect == Spec => []TypeOK
<1>1. IInv => TypeOK
  BY DEF IInv
<1> QED
  BY <1>1, InductiveInvariant, PTL

(* The BT core always comes to know of a packet that send has put into the *)
(* ring with ring_write and rung for with bt_toggle_intr, unless two calls *)
(* that set HOST_CTRL_REG have overlapped or a bus error has ended one, or *)
(* a call of send.                                                         *)
THEOREM DoorbellNotLost == Spec => []NoLostDoorbell
<1>1. IInv => NoLostDoorbell
  BY DEF IInv
<1> QED
  BY <1>1, InductiveInvariant, PTL

(* While send accesses the ring the BT core is awake, for set_bt_awake's   *)
(* bit in HOST_CTRL_REG holds it awake from the poll on, unless two of the *)
(* calls have overlapped or a bus error has ended one, or a call of send.  *)
THEOREM AwakeForThePacket == Spec => []AwakeUnlessRaced
<1>1. IInv => AwakeUnlessRaced
  BY DEF IInv
<1> QED
  BY <1>1, InductiveInvariant, PTL

(* The transport implements HostCtrl: its calls of set_bt_awake,           *)
(* set_host_ready and bt_toggle_intr are calls as HostCtrl has them, made  *)
(* by the thread of send and the RX thread, so that all that is proved of  *)
(* HostCtrl holds of the driver's calls.                                   *)
THEOREM ImplementsHostCtrl == Spec => HC!Spec
<1>1. Init => HC!Init
  BY DEF Init
<1>2. [Next]_vars => [HC!Next]_HC!vars
  BY HostCtrlStep DEF vars, hcVars, HC!vars
<1> QED
  BY <1>1, <1>2, PTL DEF Spec, HC!Spec

(* What is left for send to do is bounded ... *)
LEMMA TxLeftIs == IInv => TxLeft \in 0 .. Retries + 6
  BY TransportAssumption DEF IInv, TypeOK, TxLeft

(* ... and becomes less with each step of send, and with no other.         *)
LEMMA StepGoesForward ==
  ASSUME IInv, [Next]_vars, tx_pc # "idle"
  PROVE  TxLeft' < TxLeft \/ UNCHANGED <<tx_pc, polls, stage["tx"]>>
<1>0. /\ Retries \in Nat \ {0} /\ polls \in 0 .. Retries - 1
      /\ tx_pc \in {"wake", "poll", "ring", "toggle", "toggling"}
      /\ stage \in [HC!Threads -> {"idle", "write", "mirror"}]
      /\ stage["tx"] # "idle" <=> tx_pc \in {"wake", "toggling"}
  BY TransportAssumption DEF IInv, TypeOK, HC!TypeOK, CallsMatch
<1> USE ThreadsAre
<1>1. CASE BusWrite("tx")
  <2>1. stage["tx"] = "write" /\ stage'["tx"] = "mirror" /\ tx_pc' = tx_pc
    BY <1>0, <1>1 DEF BusWrite, HC!BusWrite, txVars
  <2> QED
    BY <1>0, <2>1 DEF TxLeft
<1>2. CASE WakeDone \/ PollAwake \/ PollAsleep
  BY <1>0, <1>2 DEF WakeDone, PollAwake, PollAsleep, PollsDone, TxLeft
<1>3. CASE \E p \in TxPackets : RingWrite(p) \/ RingFull(p)
  BY <1>0, <1>3 DEF RingWrite, RingFull, AfterPublish, TxLeft
<1>4. CASE TxToggle \/ TxToggled \/ TxFail
  BY <1>0, <1>4 DEF TxToggle, TxToggled, TxFail, TxLeft
<1>5. CASE Open
  BY <1>0, <1>5, OpenIsAlone
     DEF Open, HC!Begin, HC!BusWrite, HC!BusFail, HC!Mirror, HC!Over, txVars
<1>6. CASE RxStep
  BY <1>0, <1>6
     DEF RxStep, RxRead, RxReadFail, RxToggle, BusWrite, RxToggled, RxFail, Begin,
         HC!Begin, HC!BusWrite, HC!BusFail, HC!Mirror, HC!Over, txVars, hcVars
<1>7. CASE BtSleep \/ BtStep \/ (\E p \in RxPackets : BtEvent(p)) \/ UNCHANGED vars
  BY <1>7
     DEF BtSleep, BtStep, BtEvent, BtWake, BtNoMore, BtTake, vars, hcVars, txVars
<1> QED
  BY <1>0, <1>1, <1>2, <1>3, <1>4, <1>5, <1>6, <1>7 DEF Next, Send, TxStep

(* cyw43_bt_send is over after at most Retries + 6 steps of its own, its   *)
(* polls of BT_CTRL among them, whatever happens meanwhile: none of its    *)
(* steps can be undone, and none has to be taken again.                    *)
THEOREM SendIsOnItsWay ==
  Spec => SendGoesForward /\ [](TxLeft \in 0 .. Retries + 6)
<1>1. IInv /\ [Next]_vars
        => [tx_pc # "idle" => TxLeft' < TxLeft]_<<tx_pc, polls, stage["tx"]>>
  BY StepGoesForward
<1> QED
  BY <1>1, TxLeftIs, InductiveInvariant, PTL DEF Spec, SendGoesForward

-----------------------------------------------------------------------------
(* The session. *)

(* What the host believes of its command goes with where send is. *)
CommandMatches ==
  /\ cmd = "sending" => tx_pc # "idle"
  /\ cmd = "sent" => tx_pc = "idle"

(* From the write of h2b_in on the command or its answer is somewhere. *)
SomewhereUnlessLost ==
  cmd = "sent" \/ (cmd = "sending" /\ tx_pc \in {"toggle", "toggling"}) =>
    lost \/ h2b # <<>> \/ owed \/ Answers # {}

(* What is pending with a command that send may yet put into the ring is   *)
(* the command outstanding, and those for which send has failed too late.  *)
NothingExtra ==
  Pending + (IF tx_pc \in {"wake", "poll", "ring"} THEN 1 ELSE 0)
    <= (IF cmd = "none" THEN 0 ELSE 1) + unsure

SInv == IInv /\ STypeOK /\ CommandMatches /\ SomewhereUnlessLost /\ NothingExtra

-----------------------------------------------------------------------------
(* The words of an event and of the command. *)
LEMMA EventWords ==
  ASSUME NEW p \in RxPackets
  PROVE  \E n \in Nat \ {0} :
           /\ n = B2H!RoundedLen(p) \div 4
           /\ B2H!PacketWords(p) = [i \in 1 .. n |-> [pkt |-> p, off |-> 4 * (i - 1)]]
<1> DEFINE n == B2H!RoundedLen(p) \div 4
<1>1. n \in Nat \ {0}
  <2>1. RxLen[p] \in Nat
    BY TransportAssumption
  <2> QED
    BY <2>1 DEF B2H!RoundedLen, B2H!RoundUp, B2H!HeaderSize
<1>2. B2H!PacketWords(p) = [i \in 1 .. n |-> [pkt |-> p, off |-> 4 * (i - 1)]]
  BY DEF B2H!PacketWords, B2H!Word
<1> HIDE DEF n
<1> QED
  BY <1>1, <1>2 DEF n

LEMMA CommandWords ==
  \E n \in Nat \ {0} :
    /\ n = H2B!RoundedLen("command") \div 4
    /\ H2B!PacketWords("command") =
         [i \in 1 .. n |-> [pkt |-> "command", off |-> 4 * (i - 1)]]
<1> DEFINE n == H2B!RoundedLen("command") \div 4
<1>1. n \in Nat \ {0}
  <2>1. TxLen["command"] \in Nat
    BY TransportAssumption, SessionAssumption
  <2> QED
    BY <2>1 DEF H2B!RoundedLen, H2B!RoundUp, H2B!HeaderSize
<1>2. H2B!PacketWords("command") =
        [i \in 1 .. n |-> [pkt |-> "command", off |-> 4 * (i - 1)]]
  BY DEF H2B!PacketWords, H2B!Word
<1> HIDE DEF n
<1> QED
  BY <1>1, <1>2 DEF n

-----------------------------------------------------------------------------
(* Where packets begin in a ring: a packet that is put in ... *)
LEMMA HeadsPut ==
  ASSUME NEW P, NEW p \in P, NEW q, NEW s \in Seq([pkt : P, off : Nat]),
         NEW n \in Nat \ {0},
         NEW w, w = [i \in 1 .. n |-> [pkt |-> p, off |-> 4 * (i - 1)]]
  PROVE  Heads(s \o w, q) = Heads(s, q) \cup (IF p = q THEN {Len(s) + 1} ELSE {})
<1> DEFINE S == [pkt : P, off : Nat]
           l == Len(s)
           t == s \o w
<1>1. w \in Seq(S) /\ Len(w) = n
  <2>1. \A i \in 1 .. n : [pkt |-> p, off |-> 4 * (i - 1)] \in S
    OBVIOUS
  <2>2. w \in [1 .. n -> S]
    BY <2>1
  <2> HIDE DEF S
  <2>3. w \in Seq(S)
    BY <2>2, SeqDef
  <2> QED
    BY <2>2, <2>3, LenProperties
<1>2. /\ l \in Nat /\ Len(t) = l + n
      /\ \A i \in 1 .. l + n : t[i] = IF i <= l THEN s[i] ELSE w[i - l]
  <2> HIDE DEF S
  <2> QED
    BY <1>1, ConcatProperties DEF S
<1> HIDE DEF t
<1>3. ASSUME NEW i \in 1 .. l + n
      PROVE  i \in Heads(t, q) <=> i \in Heads(s, q) \/ (p = q /\ i = l + 1)
  <2>1. i \in Heads(t, q) <=> t[i].pkt = q /\ t[i].off = 0
    BY <1>2 DEF Heads
  <2>2. CASE i <= l
    <3>1. t[i] = s[i] /\ i # l + 1 /\ i \in 1 .. l
      BY <1>2, <2>2
    <3> QED
      BY <2>1, <3>1 DEF Heads
  <2>3. CASE i > l
    <3>1. i - l \in 1 .. n /\ t[i] = w[i - l]
      BY <1>2, <2>3
    <3>2. t[i].pkt = p /\ t[i].off = 4 * (i - l - 1)
      BY <3>1
    <3>3. i \notin Heads(s, q)
      BY <1>2, <2>3 DEF Heads
    <3>4. 4 * (i - l - 1) = 0 <=> i = l + 1
      BY <1>2
    <3> QED
      BY <2>1, <3>2, <3>3, <3>4
  <2> QED
    BY <1>2, <2>2, <2>3
<1>4. /\ Heads(t, q) \subseteq 1 .. l + n /\ Heads(s, q) \subseteq 1 .. l + n
      /\ l + 1 \in 1 .. l + n
  BY <1>2 DEF Heads
<1> HIDE DEF l
<1> QED
  BY <1>3, <1>4 DEF l, t

(* t is s without a packet p of n words at its front. *)
Leaves(s, t, l, n, p) ==
  /\ n \in Nat \ {0} /\ l \in Nat /\ n <= l
  /\ Len(s) = l /\ Len(t) = l - n
  /\ \A i \in 1 .. l - n : t[i] = s[i + n]
  /\ \A i \in 1 .. n : s[i].pkt = p /\ s[i].off = 4 * (i - 1)

(* ... and one that leaves takes one head with it, and none when it is of another kind. *)
LEMMA HeadsLeave ==
  ASSUME NEW p, NEW q, NEW s, NEW t, NEW l, NEW n, Leaves(s, t, l, n, p)
  PROVE  /\ Heads(t, q) = {i \in 1 .. l : i + n \in Heads(s, q)}
         /\ p = q => 1 \in Heads(s, q)
         /\ p # q => \A i \in Heads(s, q) : i > n
<1> USE DEF Leaves
<1>1. Heads(t, q) = {i \in 1 .. l : i + n \in Heads(s, q)}
  <2>1. Heads(t, q) = {i \in 1 .. l - n : t[i].pkt = q /\ t[i].off = 0}
    BY DEF Heads
  <2>2. Heads(s, q) = {i \in 1 .. l : s[i].pkt = q /\ s[i].off = 0}
    BY DEF Heads
  <2>3. ASSUME NEW i \in 1 .. l PROVE i + n \in 1 .. l <=> i \in 1 .. l - n
    OBVIOUS
  <2>4. ASSUME NEW i \in 1 .. l - n
        PROVE  i \in 1 .. l /\ t[i] = s[i + n]
    OBVIOUS
  <2>5. \A i : i \in Heads(t, q) <=> i \in 1 .. l /\ i + n \in Heads(s, q)
    <3>1. ASSUME NEW i \in 1 .. l - n PROVE i \in Heads(t, q) <=> i + n \in Heads(s, q)
      BY <2>1, <2>2, <2>3, <2>4
    <3>2. ASSUME NEW i \in 1 .. l, i + n \in Heads(s, q) PROVE i \in 1 .. l - n
      <4>1. i + n \in 1 .. l
        BY <2>2, <3>2
      <4> QED
        BY <2>3, <4>1
    <3> QED
      BY <2>1, <2>4, <3>1, <3>2
  <2> HIDE DEF Heads
  <2> QED
    BY <2>5
<1>2. CASE p = q
  <2>1. 1 \in 1 .. n /\ 1 \in 1 .. l /\ 4 * (1 - 1) = 0
    OBVIOUS
  <2>2. 1 \in Heads(s, q)
    BY <1>2, <2>1 DEF Heads
  <2> QED
    BY <1>1, <1>2, <2>2
<1>3. CASE p # q
  <2>1. ASSUME NEW i \in Heads(s, q) PROVE i > n
    <3>1. i \in 1 .. l /\ s[i].pkt = q
      BY DEF Heads
    <3>2. i \notin 1 .. n
      BY <1>3, <3>1
    <3> QED
      BY <3>1, <3>2
  <2> QED
    BY <1>1, <1>3, <2>1
<1> QED
  BY <1>2, <1>3

(* How many they are. *)
LEMMA HeadsFinite ==
  ASSUME NEW S, NEW s \in Seq(S), NEW q
  PROVE  /\ IsFiniteSet(Heads(s, q)) /\ Cardinality(Heads(s, q)) \in Nat
         /\ Heads(s, q) \subseteq 1 .. Len(s) /\ Len(s) \in Nat
<1>1. Heads(s, q) \in SUBSET (1 .. Len(s)) /\ Len(s) \in Nat
  BY DEF Heads
<1>2. IsFiniteSet(1 .. Len(s))
  BY <1>1, FS_Interval
<1>3. IsFiniteSet(Heads(s, q))
  BY <1>1, <1>2, FS_Subset
<1> QED
  BY <1>1, <1>3, FS_CardinalityType

(* Moved down by n a set fits into what it was moved from. *)
LEMMA MovedFits ==
  ASSUME NEW A, IsFiniteSet(A), NEW B \in SUBSET Nat, NEW n \in Nat,
         \A i \in B : i + n \in A
  PROVE  Cardinality(B) <= Cardinality(A)
<1> DEFINE f == [i \in B |-> i + n]
<1>1. f \in Injection(B, A)
  <2>1. f \in [B -> A]
    OBVIOUS
  <2>2. \A i, j \in B : f[i] = f[j] => i = j
    <3> SUFFICES ASSUME NEW i \in B, NEW j \in B, i + n = j + n PROVE i = j
      OBVIOUS
    <3>1. i \in Nat /\ j \in Nat
      OBVIOUS
    <3> QED
      BY <3>1
  <2> HIDE DEF f
  <2> QED
    BY <2>1, <2>2 DEF Injection, IsInjective
<1> QED
  BY <1>1, FS_Injection

LEMMA HeadsPutCount ==
  ASSUME NEW S, NEW s \in Seq(S), NEW q
  PROVE  Cardinality(Heads(s, q) \cup {Len(s) + 1}) = Cardinality(Heads(s, q)) + 1
<1>1. IsFiniteSet(Heads(s, q))
  BY HeadsFinite
<1>2. Len(s) + 1 \notin Heads(s, q)
  <2>1. Heads(s, q) \subseteq 1 .. Len(s) /\ Len(s) \in Nat
    BY HeadsFinite
  <2> QED
    BY <2>1
<1> QED
  BY <1>1, <1>2, FS_AddElement

LEMMA HeadsLeaveCount ==
  ASSUME NEW S, NEW s \in Seq(S), NEW q, NEW h, NEW n \in Nat \ {0},
         h = {i \in 1 .. Len(s) : i + n \in Heads(s, q)}
  PROVE  /\ Cardinality(h) \in Nat
         /\ Cardinality(h) <= Cardinality(Heads(s, q))
         /\ 1 \in Heads(s, q) => Cardinality(h) + 1 <= Cardinality(Heads(s, q))
<1>1. /\ IsFiniteSet(Heads(s, q)) /\ Cardinality(Heads(s, q)) \in Nat
      /\ Len(s) \in Nat
  BY HeadsFinite
<1>2. Cardinality(h) \in Nat
  <2>1. h \in SUBSET (1 .. Len(s)) /\ IsFiniteSet(1 .. Len(s))
    BY <1>1, FS_Interval
  <2>2. IsFiniteSet(h)
    BY <2>1, FS_Subset
  <2> QED
    BY <2>2, FS_CardinalityType
<1>3. h \in SUBSET Nat /\ n \in Nat
  BY <1>1
<1>4. ASSUME 1 \in Heads(s, q)
      PROVE  Cardinality(h) + 1 <= Cardinality(Heads(s, q))
  <2> DEFINE A == Heads(s, q) \ {1}
  <2>1. IsFiniteSet(A) /\ Cardinality(A) = Cardinality(Heads(s, q)) - 1
    BY <1>1, <1>4, FS_RemoveElement
  <2>2. \A i \in h : i + n \in A
    BY <1>1
  <2> HIDE DEF A
  <2>3. Cardinality(h) <= Cardinality(A)
    BY <1>3, <2>1, <2>2, MovedFits
  <2> QED
    BY <1>1, <1>2, <2>1, <2>3
<1>5. Cardinality(h) <= Cardinality(Heads(s, q))
  <2>1. \A i \in h : i + n \in Heads(s, q)
    OBVIOUS
  <2> QED
    BY <1>1, <1>3, <2>1, MovedFits
<1> QED
  BY <1>2, <1>4, <1>5

-----------------------------------------------------------------------------
(* What the steps of the BT core and of the RX thread do to the answers, ..*)
LEMMA AnswersPut ==
  ASSUME b2h \in Seq([pkt : RxPackets, off : Nat]), NEW p \in RxPackets, B2H!Put(p)
  PROVE  /\ Answers' = Answers \cup (IF p = "complete" THEN {Len(b2h) + 1} ELSE {})
         /\ p = "complete" => Cardinality(Answers') = Cardinality(Answers) + 1
<1>1. PICK n \in Nat \ {0} :
        B2H!PacketWords(p) = [i \in 1 .. n |-> [pkt |-> p, off |-> 4 * (i - 1)]]
  BY EventWords
<1>2. b2h' = b2h \o B2H!PacketWords(p)
  BY DEF B2H!Put
<1>3. Answers' = Answers \cup (IF p = "complete" THEN {Len(b2h) + 1} ELSE {})
  <2>1. Heads(b2h \o B2H!PacketWords(p), "complete")
          = Heads(b2h, "complete") \cup (IF p = "complete" THEN {Len(b2h) + 1} ELSE {})
    BY <1>1, HeadsPut
  <2>2. Answers' = Heads(b2h', "complete")
    BY DEF Answers, Heads
  <2> QED
    BY <1>2, <2>1, <2>2 DEF Answers
<1>4. Cardinality(Answers \cup {Len(b2h) + 1}) = Cardinality(Answers) + 1
  BY HeadsPutCount DEF Answers
<1> QED
  BY <1>3, <1>4

LEMMA AnswersLeave ==
  ASSUME b2h \in Seq([pkt : RxPackets, off : Nat]), NEW p \in RxPackets, B2H!Leave(p)
  PROVE  /\ p = "complete" => Answers # {}
         /\ p # "complete" /\ Answers # {} => Answers' # {}
         /\ Cardinality(Answers') \in Nat
         /\ Cardinality(Answers') <= Cardinality(Answers)
         /\ p = "complete" => Cardinality(Answers') + 1 <= Cardinality(Answers)
<1>1. PICK n \in Nat \ {0} :
        /\ n = B2H!RoundedLen(p) \div 4
        /\ B2H!PacketWords(p) = [i \in 1 .. n |-> [pkt |-> p, off |-> 4 * (i - 1)]]
  BY EventWords
<1>2. /\ n <= Len(b2h)
      /\ SubSeq(b2h, 1, n) = B2H!PacketWords(p)
      /\ b2h' = SubSeq(b2h, n + 1, Len(b2h))
  BY <1>1 DEF B2H!Leave
<1>3. /\ Len(b2h) \in Nat /\ Len(b2h') = Len(b2h) - n
      /\ \A i \in 1 .. Len(b2h) - n : b2h'[i] = b2h[i + n]
      /\ \A i \in 1 .. n : b2h[i].pkt = p /\ b2h[i].off = 4 * (i - 1)
  <2>1. /\ Len(b2h) \in Nat /\ Len(b2h') = Len(b2h) - n
        /\ \A i \in 1 .. Len(b2h) - n : b2h'[i] = b2h[i + n]
        /\ \A i \in 1 .. n : SubSeq(b2h, 1, n)[i] = b2h[i]
    BY <1>2, SuffixFacts
  <2>2. ASSUME NEW i \in 1 .. n
        PROVE  b2h[i].pkt = p /\ b2h[i].off = 4 * (i - 1)
    <3>1. b2h[i] = B2H!PacketWords(p)[i]
      BY <1>2, <2>1
    <3>2. b2h[i] = [pkt |-> p, off |-> 4 * (i - 1)]
      BY <1>1, <3>1
    <3> QED
      BY <3>2
  <2> QED
    BY <2>1, <2>2
<1>4. /\ Answers' = {i \in 1 .. Len(b2h) : i + n \in Answers}
      /\ p = "complete" => 1 \in Answers
      /\ p # "complete" => \A i \in Answers : i > n
  <2>1. Answers' = Heads(b2h', "complete")
    BY DEF Answers, Heads
  <2>2. Leaves(b2h, b2h', Len(b2h), n, p)
    BY <1>1, <1>2, <1>3 DEF Leaves
  <2> QED
    BY <2>1, <2>2, HeadsLeave DEF Answers
<1>5. /\ Cardinality(Answers') \in Nat
      /\ Cardinality(Answers') <= Cardinality(Answers)
      /\ 1 \in Answers => Cardinality(Answers') + 1 <= Cardinality(Answers)
  BY <1>4, HeadsLeaveCount DEF Answers
<1>6. ASSUME p # "complete", NEW k \in Answers PROVE k - n \in Answers'
  <2>1. Answers \subseteq 1 .. Len(b2h) /\ Len(b2h) \in Nat
    BY HeadsFinite DEF Answers
  <2> QED
    BY <1>4, <1>6, <2>1
<1> QED
  BY <1>4, <1>5, <1>6

LEMMA AnswersKept ==
  ASSUME UNCHANGED b2h
  PROVE  Answers' = Answers
  BY DEF Answers, Heads

(* ... and those of send and of the BT core to the commands. *)
LEMMA CommandsPut ==
  ASSUME h2b \in Seq([pkt : TxPackets, off : Nat]), H2B!Put("command")
  PROVE  Cardinality(Commands') = Cardinality(Commands) + 1
<1>1. PICK n \in Nat \ {0} :
        H2B!PacketWords("command") =
          [i \in 1 .. n |-> [pkt |-> "command", off |-> 4 * (i - 1)]]
  BY CommandWords
<1>2. h2b' = h2b \o H2B!PacketWords("command") /\ "command" \in TxPackets
  BY SessionAssumption DEF H2B!Put
<1>3. Heads(h2b \o H2B!PacketWords("command"), "command")
        = Heads(h2b, "command") \cup {Len(h2b) + 1}
  BY <1>1, <1>2, HeadsPut
<1>4. Commands' = Heads(h2b', "command")
  BY DEF Commands, Heads
<1>5. Commands' = Heads(h2b, "command") \cup {Len(h2b) + 1}
  BY <1>2, <1>3, <1>4
<1> QED
  BY <1>5, HeadsPutCount DEF Commands

LEMMA CommandsLeave ==
  ASSUME h2b \in Seq([pkt : TxPackets, off : Nat]), H2B!Leave("command")
  PROVE  /\ Cardinality(Commands') \in Nat
         /\ Cardinality(Commands') + 1 <= Cardinality(Commands)
<1>1. PICK n \in Nat \ {0} :
        /\ n = H2B!RoundedLen("command") \div 4
        /\ H2B!PacketWords("command") =
             [i \in 1 .. n |-> [pkt |-> "command", off |-> 4 * (i - 1)]]
  BY CommandWords
<1>2. /\ n <= Len(h2b)
      /\ SubSeq(h2b, 1, n) = H2B!PacketWords("command")
      /\ h2b' = SubSeq(h2b, n + 1, Len(h2b))
      /\ "command" \in TxPackets
  BY <1>1, SessionAssumption DEF H2B!Leave
<1>3. /\ Len(h2b) \in Nat /\ Len(h2b') = Len(h2b) - n
      /\ \A i \in 1 .. Len(h2b) - n : h2b'[i] = h2b[i + n]
      /\ \A i \in 1 .. n : h2b[i].pkt = "command" /\ h2b[i].off = 4 * (i - 1)
  <2>1. /\ Len(h2b) \in Nat /\ Len(h2b') = Len(h2b) - n
        /\ \A i \in 1 .. Len(h2b) - n : h2b'[i] = h2b[i + n]
        /\ \A i \in 1 .. n : SubSeq(h2b, 1, n)[i] = h2b[i]
    BY <1>2, SuffixFacts
  <2>2. ASSUME NEW i \in 1 .. n
        PROVE  h2b[i].pkt = "command" /\ h2b[i].off = 4 * (i - 1)
    <3>1. h2b[i] = H2B!PacketWords("command")[i]
      BY <1>2, <2>1
    <3>2. h2b[i] = [pkt |-> "command", off |-> 4 * (i - 1)]
      BY <1>1, <3>1
    <3> QED
      BY <3>2
  <2> QED
    BY <2>1, <2>2
<1>4. /\ Commands' = {i \in 1 .. Len(h2b) : i + n \in Commands}
      /\ 1 \in Commands
  <2>1. Commands' = Heads(h2b', "command")
    BY DEF Commands, Heads
  <2>2. Leaves(h2b, h2b', Len(h2b), n, "command")
    BY <1>1, <1>2, <1>3 DEF Leaves
  <2> QED
    BY <2>1, <2>2, HeadsLeave DEF Commands
<1> QED
  BY <1>4, HeadsLeaveCount DEF Commands

LEMMA CommandsKept ==
  ASSUME UNCHANGED h2b
  PROVE  Commands' = Commands
  BY DEF Commands, Heads

-----------------------------------------------------------------------------
(* Each step of the session is one of the transport, or none. *)
LEMMA SessionStep == SNext => [Next]_vars
  BY SessionAssumption
     DEF SNext, SendCommand, SendStep, Sending, Sent, SendFails, Receiving, Dispatch, HostFrees,
         BtTakesCommand, BtAnswers, BtReports, BtSleeps, BtMinds, Next, TxStep, RxStep, BtStep

(* The invariant holds when open has returned 0. *)
LEMMA InitSInv == SInit => SInv
<1> SUFFICES ASSUME SInit PROVE SInv
  OBVIOUS
<1>1. HC!TypeOK /\ HCP!TypeOK
  BY DEF SInit, HC!TypeOK, HCP!TypeOK, HC!Threads, HCP!Threads, HC!Bits,
         HCP!Bits, HC!Ops, HCP!Ops
<1>2. HCP!IInv
  <2>1. HCP!OneAtATimeDuringOpen
    BY DEF SInit, HCP!OneAtATimeDuringOpen, HC!Threads
  <2>2. HCP!SwRdyOnItsWay
    <3>1. \A t \in HCP!Threads : stage[t] = "idle"
      BY DEF SInit, HC!Threads, HCP!Threads
    <3> QED
      BY <3>1 DEF SInit, HCP!SwRdyOnItsWay
  <2>3. HCP!AloneIsAlone
    <3>1. \A t \in HCP!Threads : stage[t] = "idle"
      BY DEF SInit, HC!Threads, HCP!Threads
    <3> QED
      BY <3>1 DEF HCP!AloneIsAlone
  <2> QED
    BY <1>1, <2>1, <2>2, <2>3 DEF HCP!IInv
<1>3. Quiet
  BY DEF SInit
<1>4. h2b = <<>> /\ b2h = <<>>
  BY <1>3 DEF Quiet, H2B!Init, B2H!Init
<1>5. TypeOK
  BY <1>1, <1>3, QuietType
<1>6. /\ CallsMatch /\ PacketHeld /\ CallsAreAlone /\ CacheInStep /\ WakeHolds
      /\ NoLostDoorbell /\ AwakeUnlessRaced
  BY <1>3, <1>4
     DEF SInit, Quiet, CallsMatch, PacketHeld, CallsAreAlone, CacheInStep,
         HC!InStep, WakeHolds, NoLostDoorbell, AwakeUnlessRaced, HC!Threads
<1>7. STypeOK
  <2>1. nb_free \in 0 .. NbCount /\ errors \in 0 .. MaxErrors
    BY SessionAssumption DEF SInit
  <2>2. cmd = "none" /\ owed = FALSE /\ lost = FALSE /\ unsure = 0
        /\ errors = 0
    BY DEF SInit
  <2>3. unsure \in 0 .. errors
    BY <2>2
  <2> QED
    BY <1>5, <2>1, <2>2, <2>3 DEF STypeOK
<1>8. Answers = {} /\ Commands = {}
  BY <1>4 DEF Answers, Commands, Heads
<1>9. CommandMatches /\ SomewhereUnlessLost /\ NothingExtra
  <2>1. Pending = 0
    BY <1>8, FS_EmptySet DEF Pending, SInit
  <2> QED
    BY <1>3, <1>4, <1>8, <2>1
       DEF SInit, Quiet, CommandMatches, SomewhereUnlessLost, NothingExtra
<1> QED
  BY <1>2, <1>5, <1>6, <1>7, <1>9 DEF SInv, IInv

(* No step breaks the type invariant. *)
LEMMA NextSType == SInv /\ SNext => STypeOK'
<1> SUFFICES ASSUME SInv, SNext PROVE STypeOK'
  OBVIOUS
<1>1. TypeOK'
  BY SessionStep, NextIInv DEF SInv, IInv
<1>2. cmd' \in {"none", "sending", "sent"}
  BY DEF SInv, STypeOK, SNext, SendCommand, SendStep, Sending, Sent, SendFails,
         SentUnlessAnswered, Receiving, Dispatch, Passed, NotPassed, HostFrees,
         BtTakesCommand, BtAnswers, BtReports, BtSleeps, BtMinds, sessionVars
<1>3. nb_free' \in 0 .. NbCount
  BY SessionAssumption
     DEF SInv, STypeOK, SNext, SendCommand, SendStep, Sending, Sent, SendFails,
         Receiving, Dispatch, Passed, HasNetBuf, NotPassed, HostFrees,
         BtTakesCommand, BtAnswers, BtReports, BtSleeps, BtMinds, sessionVars
<1>4. errors' \in 0 .. MaxErrors
  BY SessionAssumption
     DEF SInv, STypeOK, SNext, SendCommand, SendStep, Sending, Sent, SendFails,
         Receiving, Dispatch, Passed, BusError, NotPassed, HostFrees,
         BtTakesCommand, BtAnswers, BtReports, BtSleeps, BtMinds, sessionVars
<1>5. owed' \in BOOLEAN
  BY DEF SInv, STypeOK, SNext, SendCommand, SendStep, Sending, Sent, SendFails,
         Receiving, Dispatch, Passed, NotPassed, HostFrees, BtTakesCommand,
         BtAnswers, BtReports, BtSleeps, BtMinds, sessionVars
<1>6. lost' \in BOOLEAN
  BY DEF SInv, STypeOK, SNext, SendCommand, SendStep, Sending, Sent, SendFails,
         Receiving, Dispatch, Passed, NotPassed, HostFrees, BtTakesCommand,
         BtAnswers, BtReports, BtSleeps, BtMinds, sessionVars
<1>7. unsure' \in 0 .. errors'
  <2>1. errors \in Nat /\ unsure \in 0 .. errors
    BY SessionAssumption DEF SInv, STypeOK
  <2>2. \/ UNCHANGED unsure /\ (UNCHANGED errors \/ errors' = errors + 1)
        \/ unsure' \in {unsure, unsure + 1} /\ errors' = errors + 1
    BY <2>1
       DEF SNext, SendCommand, SendStep, Sending, Sent, SendFails, BusError,
           Receiving, Dispatch, Passed, NotPassed, HostFrees, BtTakesCommand,
           BtAnswers, BtReports, BtSleeps, BtMinds, sessionVars
  <2> QED
    BY <2>1, <2>2
<1> QED
  BY <1>1, <1>2, <1>3, <1>4, <1>5, <1>6, <1>7 DEF STypeOK

(* What the host believes stays in step with send. *)
LEMMA NextCommandMatches == SInv /\ SNext => CommandMatches'
<1> SUFFICES ASSUME SInv, SNext PROVE CommandMatches'
  OBVIOUS
<1>0. CommandMatches
  BY DEF SInv
<1>1. CASE SendCommand
  BY <1>1 DEF SendCommand, Send, CommandMatches
<1>2. CASE Sending
  <2>1. tx_pc # "idle" /\ tx_pc' # "idle" /\ UNCHANGED cmd
    BY <1>2
       DEF Sending, sessionVars, BusWrite, HC!BusWrite, WakeDone, PollAwake,
           TxToggle, RingWrite, AfterPublish, PollAsleep, SInv, IInv, CallsMatch,
           txVars
  <2> QED
    BY <1>0, <2>1 DEF CommandMatches
<1>3. CASE Sent
  BY <1>0, <1>3
     DEF Sent, TxToggled, SentUnlessAnswered, CommandMatches, SInv, STypeOK
<1>4. CASE SendFails
  BY <1>4 DEF SendFails, PollAsleep, RingFull, TxFail, CommandMatches
<1>5. CASE Receiving
  <2>1. tx_pc' = tx_pc /\ cmd' \in {cmd, "none"}
    BY <1>5
       DEF Receiving, RxRead, RxToggle, BusWrite, RxReadFail, RxFail, Dispatch,
           RxToggled, Passed, NotPassed, sessionVars, txVars
  <2> QED
    BY <1>0, <2>1 DEF CommandMatches
<1>6. CASE UNCHANGED <<cmd, tx_pc>>
  BY <1>0, <1>6 DEF CommandMatches
<1> QED
  BY <1>1, <1>2, <1>3, <1>4, <1>5, <1>6
     DEF SNext, SendStep, HostFrees, BtTakesCommand, BtAnswers, BtReports, BtSleeps, BtMinds, sessionVars,
         BtTake, BtEvent, BtSleep, BtWake, BtNoMore, txVars, vars

(* What a step of the RX thread does to the session. *)
LEMMA ReceivingFacts ==
  ASSUME SInv, Receiving
  PROVE  /\ UNCHANGED <<h2b, owed, tx_pc, unsure>>
         /\ \/ UNCHANGED <<cmd, lost>> /\ Answers' = Answers
            \/ \E p \in RxPackets :
                 /\ B2H!Leave(p)
                 /\ IF p = "report" THEN UNCHANGED <<cmd, lost>>
                    ELSE (cmd' = "none" /\ UNCHANGED lost) \/ (lost' /\ UNCHANGED cmd)
<1>1. CASE (RxRead \/ RxToggle \/ BusWrite("rx")) /\ UNCHANGED sessionVars
  <2>1. UNCHANGED <<h2b, b2h, tx_pc>>
    BY <1>1 DEF RxRead, RxToggle, BusWrite, ringVars, h2bVars, b2hVars, txVars
  <2> QED
    BY <1>1, <2>1, AnswersKept DEF sessionVars
<1>2. ASSUME NEW p \in RxPackets, Dispatch(p)
      PROVE  /\ UNCHANGED <<h2b, owed, tx_pc, unsure>>
             /\ B2H!Leave(p)
             /\ IF p = "report" THEN UNCHANGED <<cmd, lost>>
                ELSE (cmd' = "none" /\ UNCHANGED lost) \/ (lost' /\ UNCHANGED cmd)
  BY <1>2, SessionAssumption
     DEF SInv, STypeOK, Dispatch, RxToggled, PassedOrDropped, B2H!Get, B2H!Lose,
         Passed, NotPassed, h2bVars, txVars
<1>3. ASSUME NEW p \in RxPackets, RxReadFail(p) \/ RxFail(p), NotPassed(p)
      PROVE  /\ UNCHANGED <<h2b, owed, tx_pc, unsure>>
             /\ B2H!Leave(p)
             /\ IF p = "report" THEN UNCHANGED <<cmd, lost>>
                ELSE (cmd' = "none" /\ UNCHANGED lost) \/ (lost' /\ UNCHANGED cmd)
  BY <1>3, SessionAssumption
     DEF SInv, STypeOK, RxReadFail, RxFail, B2H!Lose, NotPassed, h2bVars, txVars
<1> QED
  BY <1>1, <1>2, <1>3 DEF Receiving

(* A command on its way stays somewhere. *)
LEMMA NextSomewhere == SInv /\ SNext => SomewhereUnlessLost'
<1> SUFFICES ASSUME SInv, SNext PROVE SomewhereUnlessLost'
  OBVIOUS
<1>0. SomewhereUnlessLost
  BY DEF SInv
<1>1. CASE SendCommand \/ SendFails
  BY <1>1
     DEF SendCommand, Send, SendFails, PollAsleep, RingFull, TxFail,
         SomewhereUnlessLost
<1>2. CASE Sending
  <2>1. ASSUME RingWrite("command") PROVE h2b' # <<>>
    BY <2>1, TxPacketFacts, SessionAssumption DEF RingWrite, SInv, IInv, TypeOK
  <2>2. \/ tx_pc' \in {"wake", "poll", "ring"}
        \/ RingWrite("command")
        \/ tx_pc \in {"toggle", "toggling"} /\ UNCHANGED <<h2b, b2h>>
    BY <1>2
       DEF Sending, BusWrite, WakeDone, PollAwake, PollAsleep, TxToggle, SInv,
           IInv, TypeOK, CallsMatch, ringVars, h2bVars, b2hVars, txVars,
           HC!BusWrite
  <2>3. UNCHANGED <<cmd, owed, lost>>
    BY <1>2 DEF Sending, sessionVars
  <2>4. cmd # "sent"
    BY <1>2
       DEF Sending, BusWrite, WakeDone, PollAwake, PollAsleep, TxToggle,
           RingWrite, SInv, CommandMatches, IInv, CallsMatch, HC!BusWrite
  <2> QED
    BY <1>0, <2>1, <2>2, <2>3, <2>4, AnswersKept DEF SomewhereUnlessLost
<1>3. CASE Sent
  <2>1. /\ UNCHANGED <<h2b, b2h, owed, lost>> /\ cmd' \in {"sent", cmd}
        /\ tx_pc = "toggling" /\ tx_pc' = "idle"
        /\ (cmd' = "sent" => cmd \in {"sending", "sent"})
    BY <1>3 DEF Sent, TxToggled, SentUnlessAnswered, ringVars, h2bVars, b2hVars
  <2> QED
    BY <1>0, <2>1, AnswersKept DEF SomewhereUnlessLost
<1>4. CASE Receiving
  BY <1>0, <1>4, ReceivingFacts, AnswersLeave, SessionAssumption
     DEF SomewhereUnlessLost, SInv, IInv, TypeOK
<1>5. CASE BtTakesCommand
  <2>1. owed' /\ UNCHANGED <<b2h, cmd, lost, tx_pc>>
    BY <1>5 DEF BtTakesCommand, BtTake, b2hVars, txVars
  <2> QED
    BY <2>1 DEF SomewhereUnlessLost
<1>6. CASE BtAnswers
  <2>1. B2H!Put("complete")
    BY <1>6 DEF BtAnswers, BtEvent
  <2>2. Answers' # {}
    BY <2>1, AnswersPut, SessionAssumption DEF SInv, IInv, TypeOK
  <2> QED
    BY <2>2 DEF SomewhereUnlessLost
<1>7. CASE BtReports
  <2>1. B2H!Put("report") /\ UNCHANGED <<h2b, tx_pc, cmd, owed, lost>>
    BY <1>7 DEF BtReports, BtEvent, h2bVars, txVars, sessionVars
  <2>2. Answers' = Answers
    BY <2>1, AnswersPut, SessionAssumption DEF SInv, IInv, TypeOK
  <2> QED
    BY <1>0, <2>1, <2>2 DEF SomewhereUnlessLost
<1>8. CASE HostFrees \/ BtSleeps \/ BtMinds
  <2>1. UNCHANGED <<h2b, b2h, tx_pc, cmd, owed, lost>>
    BY <1>8
       DEF HostFrees, BtSleeps, BtMinds, BtSleep, BtWake, BtNoMore, vars,
           ringVars, h2bVars, b2hVars, txVars, sessionVars
  <2> QED
    BY <1>0, <2>1, AnswersKept DEF SomewhereUnlessLost
<1> QED
  BY <1>1, <1>2, <1>3, <1>4, <1>5, <1>6, <1>7, <1>8 DEF SNext, SendStep

(* Nothing comes on top of what is pending. *)
LEMMA NextNothingExtra == SInv /\ SNext => NothingExtra'
<1> SUFFICES ASSUME SInv, SNext PROVE NothingExtra'
  OBVIOUS
<1> DEFINE C == Cardinality(Commands)
           A == Cardinality(Answers)
           Count(c, o, a) == c + (IF o THEN 1 ELSE 0) + a
           Early(t) == IF t \in {"wake", "poll", "ring"} THEN 1 ELSE 0
           Due(m, u) == (IF m = "none" THEN 0 ELSE 1) + u
           Fits(c, o, a, t, m, u) == Count(c, o, a) + Early(t) <= Due(m, u)
<1>1. /\ h2b \in Seq([pkt : TxPackets, off : Nat])
      /\ b2h \in Seq([pkt : RxPackets, off : Nat])
      /\ C \in Nat /\ A \in Nat /\ unsure \in Nat
  <2>1. /\ h2b \in Seq([pkt : TxPackets, off : Nat])
        /\ b2h \in Seq([pkt : RxPackets, off : Nat])
        /\ unsure \in Nat
    BY DEF SInv, IInv, TypeOK, STypeOK
  <2> QED
    BY <2>1, HeadsFinite DEF Commands, Answers
<1>2. Fits(C, owed, A, tx_pc, cmd, unsure)
  BY DEF SInv, NothingExtra, Pending
<1> SUFFICES Fits(C', owed', A', tx_pc', cmd', unsure')
  BY DEF NothingExtra, Pending
<1> HIDE DEF C, A
<1>3. (UNCHANGED h2b => C' = C) /\ (UNCHANGED b2h => A' = A)
  BY CommandsKept, AnswersKept DEF C, A
<1>4. CASE SendCommand
  <2>1. /\ UNCHANGED <<h2b, b2h, owed, unsure>> /\ cmd = "none" /\ cmd' = "sending"
        /\ tx_pc = "idle" /\ tx_pc' = "wake"
    BY <1>4 DEF SendCommand, Send, ringVars, h2bVars, b2hVars
  <2> QED
    BY <1>1, <1>2, <1>3, <2>1
<1>5. CASE RingWrite("command") /\ UNCHANGED sessionVars
  <2>1. /\ H2B!Put("command") /\ UNCHANGED <<b2h, owed, cmd, unsure>>
        /\ tx_pc = "ring" /\ tx_pc' = "toggle"
    BY <1>5 DEF RingWrite, AfterPublish, b2hVars, sessionVars
  <2>2. C' = C + 1
    BY <1>1, <2>1, CommandsPut DEF C
  <2> QED
    BY <1>1, <1>2, <1>3, <2>1, <2>2
<1>6. CASE /\ BusWrite("tx") \/ WakeDone \/ PollAwake \/ TxToggle \/ PollAsleep
           /\ UNCHANGED sessionVars
  <2>1. /\ UNCHANGED <<h2b, b2h, owed, cmd, unsure>>
        /\ tx_pc' \in {"wake", "poll", "ring"} => tx_pc \in {"wake", "poll", "ring"}
    BY <1>6
       DEF BusWrite, WakeDone, PollAwake, TxToggle, PollAsleep, ringVars,
           h2bVars, b2hVars, txVars, sessionVars
  <2> QED
    BY <1>1, <1>2, <1>3, <2>1
<1>7. CASE Sent
  <2>1. /\ UNCHANGED <<h2b, b2h, owed, unsure>> /\ tx_pc = "toggling" /\ tx_pc' = "idle"
        /\ cmd # "none" => cmd' # "none"
    BY <1>7 DEF Sent, TxToggled, SentUnlessAnswered, ringVars, h2bVars, b2hVars
  <2> QED
    BY <1>1, <1>2, <1>3, <2>1
<1>8. CASE SendFails
  <2>1. /\ UNCHANGED <<b2h, owed>> /\ tx_pc' = "idle" /\ cmd' = "none"
        /\ \/ UNCHANGED <<h2b, unsure>> /\ tx_pc \in {"wake", "poll", "ring"}
           \/ UNCHANGED h2b /\ unsure' = unsure + 1
           \/ H2B!Put("command") /\ unsure' = unsure + 1 /\ tx_pc = "ring"
    <3>1. CASE PollAsleep /\ tx_pc' = "idle" /\ UNCHANGED <<errors, unsure>>
      BY <1>8, <3>1 DEF SendFails, PollAsleep, ringVars, h2bVars, b2hVars
    <3>2. CASE RingFull("command") /\ UNCHANGED <<errors, unsure>>
      BY <1>8, <3>2 DEF SendFails, RingFull, ringVars, h2bVars, b2hVars
    <3>3. CASE /\ TxFail /\ BusError
               /\ unsure' = unsure + (IF tx_pc = "wake" THEN 0 ELSE 1)
      <4>1. UNCHANGED <<b2h, owed>> /\ tx_pc' = "idle" /\ cmd' = "none"
        BY <1>8, <3>3 DEF SendFails, TxFail, b2hVars
      <4>2. CASE tx_pc = "wake"
        BY <1>1, <3>3, <4>1, <4>2 DEF TxFail, h2bVars
      <4>3. CASE tx_pc # "wake"
        <5>1. unsure' = unsure + 1
          BY <3>3, <4>3
        <5>2. \/ UNCHANGED h2b
              \/ tx_pc = "ring" /\ \E p \in TxPackets : H2B!Put(p)
          BY <3>3 DEF TxFail, h2bVars
        <5> QED
          BY <4>1, <5>1, <5>2, SessionAssumption
      <4> QED
        BY <4>2, <4>3
    <3> QED
      BY <1>8, <3>1, <3>2, <3>3 DEF SendFails
  <2>2. H2B!Put("command") => C' = C + 1
    BY <1>1, CommandsPut DEF C
  <2> QED
    BY <1>1, <1>2, <1>3, <2>1, <2>2
<1>9. CASE Receiving
  <2>1. UNCHANGED <<h2b, owed, tx_pc, unsure>>
    BY <1>9, ReceivingFacts
  <2>2. CASE UNCHANGED <<cmd, lost>> /\ Answers' = Answers
    BY <1>1, <1>2, <1>3, <2>1, <2>2 DEF A
  <2>3. ASSUME NEW p \in RxPackets, B2H!Leave(p),
               IF p = "report" THEN UNCHANGED <<cmd, lost>>
               ELSE (cmd' = "none" /\ UNCHANGED lost) \/ (lost' /\ UNCHANGED cmd)
        PROVE  Fits(C', owed', A', tx_pc', cmd', unsure')
    <3>1. /\ A' \in Nat /\ A' <= A
          /\ p = "complete" => A' + 1 <= A
      BY <1>1, <2>3, AnswersLeave DEF A
    <3>2. PICK e \in Nat, o \in Nat :
            /\ e = Early(tx_pc) /\ e = Early(tx_pc')
            /\ o = (IF owed THEN 1 ELSE 0) /\ o = (IF owed' THEN 1 ELSE 0)
      BY <2>1
    <3>3. PICK d \in Nat, d2 \in Nat :
            /\ d = Due(cmd, unsure) /\ d2 = Due(cmd', unsure')
            /\ d2 >= d - 1
            /\ p = "report" => d2 = d
      BY <1>1, <2>1, <2>3
    <3>4. PICK c \in Nat, a \in Nat, a2 \in Nat : c = C /\ a = A /\ a2 = A'
      BY <1>1, <3>1
    <3>5. c + o + a + e <= d
      BY <1>2, <3>2, <3>3, <3>4
    <3>6. c + o + a2 + e <= d2
      <4>1. CASE p = "complete"
        <5>1. a2 + 1 <= a /\ d2 >= d - 1
          BY <3>1, <3>3, <3>4, <4>1
        <5> QED
          BY <3>5, <5>1
      <4>2. CASE p = "report"
        <5>1. a2 <= a /\ d2 = d
          BY <3>1, <3>3, <3>4, <4>2
        <5> QED
          BY <3>5, <5>1
      <4> QED
        BY <4>1, <4>2, SessionAssumption
    <3> QED
      BY <1>3, <2>1, <3>2, <3>3, <3>4, <3>6
  <2> QED
    BY <1>9, <2>2, <2>3, ReceivingFacts
<1>10. CASE BtTakesCommand
  <2>1. /\ ~owed /\ owed' /\ UNCHANGED <<b2h, cmd, tx_pc, unsure>>
        /\ H2B!Leave("command")
    BY <1>10 DEF BtTakesCommand, BtTake, H2B!Get, b2hVars, txVars
  <2>2. C' \in Nat /\ C' + 1 <= C
    BY <1>1, <2>1, CommandsLeave DEF C
  <2>3. PICK e \in Nat, d \in Nat :
          /\ e = Early(tx_pc) /\ e = Early(tx_pc')
          /\ d = Due(cmd, unsure) /\ d = Due(cmd', unsure')
    BY <1>1, <2>1
  <2>4. PICK c \in Nat, c2 \in Nat, a \in Nat : c = C /\ c2 = C' /\ a = A
    BY <1>1, <2>2
  <2>5. c + 0 + a + e <= d
    BY <1>2, <2>1, <2>3, <2>4
  <2>6. c2 + 1 + a + e <= d
    <3>1. c2 + 1 <= c
      BY <2>2, <2>4
    <3> QED
      BY <2>5, <3>1
  <2> QED
    BY <1>3, <2>1, <2>3, <2>4, <2>6
<1>11. CASE BtAnswers
  <2>1. /\ owed /\ ~owed' /\ B2H!Put("complete") /\ UNCHANGED <<h2b, cmd, tx_pc, unsure>>
    BY <1>11 DEF BtAnswers, BtEvent, h2bVars, txVars
  <2>2. A' = A + 1
    BY <1>1, <2>1, AnswersPut, SessionAssumption DEF A
  <2> QED
    BY <1>1, <1>2, <1>3, <2>1, <2>2
<1>12. CASE BtReports
  <2>1. B2H!Put("report") /\ UNCHANGED <<h2b, tx_pc, cmd, owed, unsure>>
    BY <1>12 DEF BtReports, BtEvent, h2bVars, txVars, sessionVars
  <2>2. A' = A
    BY <1>1, <2>1, AnswersPut, SessionAssumption DEF A
  <2> QED
    BY <1>1, <1>2, <1>3, <2>1, <2>2
<1>13. CASE HostFrees \/ BtSleeps \/ BtMinds
  <2>1. UNCHANGED <<h2b, b2h, tx_pc, cmd, owed, unsure>>
    BY <1>13
       DEF HostFrees, BtSleeps, BtMinds, BtSleep, BtWake, BtNoMore, vars,
           ringVars, h2bVars, b2hVars, txVars, sessionVars
  <2> QED
    BY <1>1, <1>2, <1>3, <2>1
<1> QED
  BY <1>4, <1>5, <1>6, <1>7, <1>8, <1>9, <1>10, <1>11, <1>12, <1>13
     DEF SNext, SendStep, Sending

(* Every step, and stuttering, keeps the invariant. *)
LEMMA NextSInv == SInv /\ [SNext]_allVars => SInv'
<1>1. SInv /\ SNext => SInv'
  <2>1. SInv /\ SNext => IInv'
    BY SessionStep, NextIInv DEF SInv
  <2> QED
    BY <2>1, NextSType, NextCommandMatches, NextSomewhere, NextNothingExtra DEF SInv
<1>2. SInv /\ UNCHANGED allVars => SInv'
  <2> SUFFICES ASSUME SInv, UNCHANGED allVars PROVE SInv'
    OBVIOUS
  <2>1. UNCHANGED vars /\ UNCHANGED sessionVars
    BY DEF allVars
  <2>2. IInv'
    BY <2>1, NextIInv DEF SInv
  <2>3. UNCHANGED <<h2b, b2h, tx_pc>>
    BY <2>1 DEF vars, ringVars, h2bVars, b2hVars, txVars
  <2>4. STypeOK'
    BY <2>1, <2>2 DEF SInv, STypeOK, IInv, sessionVars
  <2>5. CommandMatches' /\ SomewhereUnlessLost' /\ NothingExtra'
    BY <2>1, <2>3, AnswersKept, CommandsKept
       DEF SInv, sessionVars, CommandMatches, SomewhereUnlessLost, NothingExtra,
           Pending
  <2> QED
    BY <2>2, <2>4, <2>5 DEF SInv
<1> QED
  BY <1>1, <1>2

(* The inductive invariant holds of every session. *)
THEOREM SessionInvariant == SSpec => []SInv
  BY InitSInv, NextSInv, PTL DEF SSpec

(* What is proved of the transport holds of it in each session: the steps  *)
(* of a session are steps of the transport, with what the host and the BT  *)
(* core make of them.                                                      *)
THEOREM TransportInSession ==
  SSpec => /\ [][Next]_vars
           /\ [](NoLostDoorbell /\ AwakeUnlessRaced)
           /\ SendGoesForward
<1>1. SInv => IInv /\ NoLostDoorbell /\ AwakeUnlessRaced
  BY DEF SInv, IInv
<1>2. [SNext]_allVars => [Next]_vars
  BY SessionStep DEF allVars
<1>3. IInv /\ [Next]_vars
        => [tx_pc # "idle" => TxLeft' < TxLeft]_<<tx_pc, polls, stage["tx"]>>
  BY StepGoesForward
<1> QED
  BY <1>1, <1>2, <1>3, SessionInvariant, PTL DEF SSpec, SendGoesForward

(* Each variable of the session keeps its type: above all hci_cyw43's      *)
(* net_buf pool is never taken from when it is empty.                      *)
THEOREM SessionTypeCorrect == SSpec => []STypeOK
<1>1. SInv => STypeOK
  BY DEF SInv
<1> QED
  BY <1>1, SessionInvariant, PTL

(* A command that cyw43_bt_send has returned 0 for is in a ring, with the  *)
(* BT core, or on its way back as its answer, until the host has the       *)
(* answer; or the answer was dropped in cyw43_bt_ring_read's caller, for   *)
(* want of a net_buf or in a bus error.                                    *)
THEOREM NoCommandForgotten == SSpec => []CommandNotForgotten
<1>1. SInv => CommandNotForgotten
  BY DEF SInv, SomewhereUnlessLost, CommandNotForgotten
<1> QED
  BY <1>1, SessionInvariant, PTL

(* The host gets no command complete event that it does not wait for, and  *)
(* no second one, but for those of the commands for which cyw43_bt_send    *)
(* has returned an error although they may be in the ring, one each.       *)
THEOREM EachAnswerIsAwaited == SSpec => []AnswersAreAwaited
<1>1. SInv => AnswersAreAwaited
  <2> SUFFICES ASSUME SInv PROVE AnswersAreAwaited
    OBVIOUS
  <2>1. Pending \in Nat /\ unsure \in Nat
    <3>1. /\ h2b \in Seq([pkt : TxPackets, off : Nat])
          /\ b2h \in Seq([pkt : RxPackets, off : Nat])
          /\ unsure \in Nat
      BY DEF SInv, IInv, TypeOK, STypeOK
    <3>2. Cardinality(Commands) \in Nat /\ Cardinality(Answers) \in Nat
      BY <3>1, HeadsFinite DEF Commands, Answers
    <3> QED
      BY <3>1, <3>2 DEF Pending
  <2> QED
    BY <2>1 DEF SInv, NothingExtra, AnswersAreAwaited
<1> QED
  BY <1>1, SessionInvariant, PTL
=============================================================================
