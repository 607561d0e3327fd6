----------------------------- MODULE HciSession -----------------------------
(***************************************************************************)
(* The Bluetooth host over the transport while the radio scans: one HCI    *)
(* command at a time goes out through send, its command complete event     *)
(* comes back among advertising reports, and each event needs a net_buf,   *)
(* for which the RX thread does not wait.                                  *)
(*                                                                         *)
(* The driver's steps are those of Transport.  The host and the BT core    *)
(* are external: the host sends a command when none is outstanding, takes  *)
(* a command complete event at once (in the call of recv) and the reports  *)
(* in a thread of its own; the BT core answers the commands one by one and *)
(* reports what it hears.                                                  *)
(***************************************************************************)
EXTENDS Transport, FiniteSets

CONSTANTS
  NbCount,      \* net_bufs for receiving
  MaxErrors     \* bound: as many bus accesses fail, polls of BT_CTRL apart

ASSUME SessionAssumption ==
  /\ NbCount \in Nat \ {0}
  /\ MaxErrors \in Nat
  /\ TxPackets = {"command"}
  /\ RxPackets = {"complete", "report"}

VARIABLES
  cmd,      \* the host's command: "none", being sent, sent
  owed,     \* the BT core has taken a command and not answered it
  nb_free,  \* net_bufs in the pool; the others hold reports
  lost,     \* the answer was dropped for want of a net_buf, or in a bus error
  errors,   \* bus accesses that have failed
  unsure    \* commands for which send has failed, and that may be in the ring

sessionVars == <<cmd, owed, nb_free, lost, errors, unsure>>
allVars == <<vars, sessionVars>>

(* open has returned 0, with SW_RDY set and DATA_VALID toggled once. *)
SInit ==
  /\ Quiet
  /\ phase = "running"
  /\ host_ctrl = {"SW_RDY", "DATA_VALID"}
  /\ host_ctrl_cache = host_ctrl
  /\ op = [t \in HC!Threads |-> "none"]
  /\ stage = [t \in HC!Threads |-> "idle"]
  /\ value = [t \in HC!Threads |-> {}]
  /\ alone = [t \in HC!Threads |-> TRUE]
  /\ cmd = "none"
  /\ owed = FALSE
  /\ nb_free = NbCount
  /\ lost = FALSE
  /\ errors = 0
  /\ unsure = 0

-----------------------------------------------------------------------------
(* One of the errors that are left. *)
BusError == errors < MaxErrors /\ errors' = errors + 1

SendCommand ==
  /\ cmd = "none"
  /\ Send
  /\ cmd' = "sending"
  /\ lost' = FALSE
  /\ UNCHANGED <<owed, nb_free, errors, unsure>>

(* A step inside send ... *)
Sending ==
  /\ \/ BusWrite("tx") \/ WakeDone \/ PollAwake \/ TxToggle
     \/ RingWrite("command")
     \/ PollAsleep /\ tx_pc' = "poll"
  /\ UNCHANGED sessionVars

(* A mutant: the host does not expect an answer so early. *)
SentAnyway == "sent"

SentUnlessAnswered == IF cmd = "sending" THEN "sent" ELSE cmd

(* ... its return with 0, which the answer may have overtaken ... *)
Sent ==
  /\ TxToggled
  /\ cmd' = SentUnlessAnswered
  /\ UNCHANGED <<owed, nb_free, lost, errors, unsure>>

(* ... or with an error: then the host has done with the command.          *)
SendFails ==
  /\ \/ PollAsleep /\ tx_pc' = "idle" /\ UNCHANGED <<errors, unsure>>
     \/ RingFull("command") /\ UNCHANGED <<errors, unsure>>
     \/ /\ TxFail /\ BusError
        /\ unsure' = unsure + (IF tx_pc = "wake" THEN 0 ELSE 1)
  /\ cmd' = "none"
  /\ UNCHANGED <<owed, nb_free, lost>>

SendStep == Sending \/ Sent \/ SendFails

-----------------------------------------------------------------------------
(* The RX thread has a packet in its buffer.  With a net_buf at hand a     *)
(* command complete event ends the command, and its net_buf comes back; a  *)
(* report keeps its net_buf until the host is done with it.                *)
Passed(p) ==
  /\ IF p = "complete"
       THEN cmd' = "none" /\ UNCHANGED nb_free
       ELSE nb_free' = nb_free - 1 /\ UNCHANGED cmd
  /\ UNCHANGED <<owed, lost, errors, unsure>>

NotPassed(p) ==
  /\ lost' = (lost \/ p = "complete")
  /\ UNCHANGED <<cmd, owed, nb_free, unsure>>

(* A mutant: the thread goes on with a net_buf it did not get. *)
AnyNetBuf == TRUE

HasNetBuf == nb_free > 0

Dispatch(p) ==
  /\ RxToggled(p)
  /\ IF HasNetBuf
       THEN delivered' = p /\ Passed(p)
       ELSE delivered' = delivered /\ NotPassed(p) /\ UNCHANGED errors

Receiving ==
  \/ (RxRead \/ RxToggle \/ BusWrite("rx")) /\ UNCHANGED sessionVars
  \/ \E p \in RxPackets :
       \/ Dispatch(p)
       \/ (RxReadFail(p) \/ RxFail(p)) /\ BusError /\ NotPassed(p)

HostFrees ==
  /\ nb_free < NbCount
  /\ nb_free' = nb_free + 1
  /\ UNCHANGED <<vars, cmd, owed, lost, errors, unsure>>

-----------------------------------------------------------------------------
BtTakesCommand ==
  /\ ~owed
  /\ BtTake("command")
  /\ owed' = TRUE
  /\ UNCHANGED <<cmd, nb_free, lost, errors, unsure>>

BtAnswers ==
  /\ owed
  /\ BtEvent("complete")
  /\ owed' = FALSE
  /\ UNCHANGED <<cmd, nb_free, lost, errors, unsure>>

BtReports == BtEvent("report") /\ UNCHANGED sessionVars

BtSleeps == BtSleep /\ UNCHANGED sessionVars

BtMinds == (BtWake \/ BtNoMore) /\ UNCHANGED sessionVars

SNext ==
  \/ SendCommand \/ SendStep \/ Receiving \/ HostFrees
  \/ BtTakesCommand \/ BtAnswers \/ BtReports \/ BtSleeps \/ BtMinds

SSpec == SInit /\ [][SNext]_allVars

(* Besides what Transport says of the threads: the host is done with each  *)
(* report some day, the BT core works off its commands, and its reports do *)
(* not keep an answer out of the ring for ever.                            *)
SFairSpec ==
  /\ SSpec
  /\ WF_allVars(SendStep) /\ WF_allVars(Receiving) /\ WF_allVars(HostFrees)
  /\ WF_allVars(BtTakesCommand \/ BtMinds)
  /\ SF_allVars(BtAnswers)

-----------------------------------------------------------------------------
STypeOK ==
  /\ TypeOK
  /\ cmd \in {"none", "sending", "sent"}
  /\ nb_free \in 0 .. NbCount
  /\ errors \in 0 .. MaxErrors
  /\ unsure \in 0 .. errors
  /\ {owed, lost} \subseteq BOOLEAN

(* The packets p in a ring, by the words at which they begin. *)
Heads(ring, p) == {i \in 1 .. Len(ring) : ring[i].pkt = p /\ ring[i].off = 0}

Commands == Heads(h2b, "command")
Answers == Heads(b2h, "complete")

(* A command that was sent without an error is somewhere until the host has*)
(* its answer: in the ring, with the BT core, or as its answer in the other*)
(* ring or in the RX thread's buffer; unless that answer was lost.         *)
CommandNotForgotten ==
  cmd = "sent" /\ ~lost => h2b # <<>> \/ owed \/ Answers # {}

(* The commands on their way to an answer, and the answers on their way.   *)
Pending ==
  Cardinality(Commands) + (IF owed THEN 1 ELSE 0) + Cardinality(Answers)

(* The host gets no answer that it does not wait for, and none twice,      *)
(* although send can be overtaken by the answer and can fail at any point: *)
(* what is pending is the command outstanding, and besides it only         *)
(* commands for which send has failed too late to keep them from the ring, *)
(* one for each such failure.                                              *)
AnswersAreAwaited == Pending <= (IF cmd = "none" THEN 0 ELSE 1) + unsure

(* A command is answered, or send gives it up, unless the doorbell was lost*)
(* in a race or a bus error, or the answer for want of a net_buf or in a   *)
(* bus error: there is no other way for a command to hang.                 *)
AnsweredUnlessLost == cmd # "none" ~> cmd = "none" \/ raced \/ lost
=============================================================================
