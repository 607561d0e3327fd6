------------------------------ MODULE HostCtrl ------------------------------
(***************************************************************************)
(* HOST_CTRL_REG and host_ctrl_cache: the register through which the host  *)
(* wakes the BT core and rings its doorbell, and the copy the driver reads *)
(* instead of it.                                                          *)
(*                                                                         *)
(* set_host_ready, set_bt_awake and toggle_intr are the same three steps   *)
(* (the calls to reg_read and reg_write in them): read the cache, write    *)
(* the register over the bus, mirror what was written into the cache.      *)
(* Nothing makes them one.  open runs them alone; after it the TX thread   *)
(* (send) and the RX thread (ring_read) run them as they come, and either  *)
(* may be preempted, or block on the bus, between two of the steps.        *)
(***************************************************************************)
EXTENDS Naturals

CONSTANTS
  Callers,          \* the threads that call the driver after open
  FailedWritesLand  \* may a write that is reported failed have been made?

ASSUME CallersAssumption ==
  /\ Callers \subseteq {"tx", "rx"}
  /\ FailedWritesLand \in BOOLEAN

VARIABLES
  phase,            \* how far open has come
  host_ctrl,        \* the register: the bits that are set
  host_ctrl_cache,
  op,               \* what each thread is doing to the register
  stage,            \* which of the three steps comes next
  value,            \* the local `value' of the call
  alone             \* no other thread was at it during the call

vars == <<phase, host_ctrl, host_ctrl_cache, op, stage, value, alone>>

Bits == {"DATA_VALID", "WAKE_BT", "SW_RDY"}
Ops == {"set_host_ready", "set_bt_awake", "toggle_intr"}
Threads == {"open"} \cup Callers

(* Mutants: the toggle keeps no other bit, or only SW_RDY.                 *)
ToggledAlone(v) == {"DATA_VALID"} \ v
ToggledClears(v) == {"SW_RDY"} \cup ToggledAlone(v)

Toggled(v) == (v \ {"DATA_VALID"}) \cup ({"DATA_VALID"} \ v)

(* What each operation makes of the value it has read. *)
Modified(o, v) ==
  CASE o = "set_host_ready" -> v \cup {"SW_RDY"}
    [] o = "set_bt_awake"   -> v \cup {"WAKE_BT"}
    [] o = "toggle_intr"    -> Toggled(v)

(* The operations a thread calls: open sets SW_RDY and then toggles, send  *)
(* wakes the BT core and later toggles, ring_read toggles.                 *)
MayCall(t, o) ==
  \/ t = "open" /\ phase = "host_ready" /\ o = "set_host_ready"
  \/ t = "open" /\ phase = "first_toggle" /\ o = "toggle_intr"
  \/ t = "tx" /\ phase = "running" /\ o \in {"set_bt_awake", "toggle_intr"}
  \/ t = "rx" /\ phase = "running" /\ o = "toggle_intr"

Busy == {t \in Threads : stage[t] # "idle"}

-----------------------------------------------------------------------------
(* open has come to step 7.  The cache is part of the zeroed driver data;  *)
(* open has read and logged the register but takes nothing over from it.   *)
Init ==
  /\ phase = "host_ready"
  /\ host_ctrl \in SUBSET Bits
  /\ host_ctrl_cache = {}
  /\ op = [t \in Threads |-> "none"]
  /\ stage = [t \in Threads |-> "idle"]
  /\ value = [t \in Threads |-> {}]
  /\ alone = [t \in Threads |-> TRUE]

(* The operation reads the cache and computes the new value. *)
Begin(t, o) ==
  /\ MayCall(t, o)
  /\ stage[t] = "idle"
  /\ op' = [op EXCEPT ![t] = o]
  /\ value' = [value EXCEPT ![t] = Modified(o, host_ctrl_cache)]
  /\ stage' = [stage EXCEPT ![t] = "write"]
  /\ alone' = [u \in Threads |-> IF u = t THEN Busy = {} ELSE alone[u] /\ u \notin Busy]
  /\ UNCHANGED <<phase, host_ctrl, host_ctrl_cache>>

(* The register takes the value; the BT core sees DATA_VALID change. *)
BusWrite(t) ==
  /\ stage[t] = "write"
  /\ host_ctrl' = value[t]
  /\ stage' = [stage EXCEPT ![t] = "mirror"]
  /\ UNCHANGED <<phase, host_ctrl_cache, op, value, alone>>

Over(t) ==
  /\ op' = [op EXCEPT ![t] = "none"]
  /\ stage' = [stage EXCEPT ![t] = "idle"]
  /\ value' = [value EXCEPT ![t] = {}]
  /\ alone' = [alone EXCEPT ![t] = TRUE]

(* The bus write is reported to have failed: the cache keeps its value and *)
(* the operation returns the error.                                        *)
BusFail(t) ==
  /\ stage[t] = "write"
  /\ \/ UNCHANGED host_ctrl
     \/ FailedWritesLand /\ host_ctrl' = value[t]
  /\ Over(t)
  /\ phase' = IF t = "open" THEN "failed" ELSE phase
  /\ UNCHANGED host_ctrl_cache

(* A mutant: reg_write forgets the cache. *)
NotCached(t) == host_ctrl_cache

Cached(t) == value[t]

(* The cache follows and the operation is over.  open goes on to its next  *)
(* one; after the last it starts the RX thread and lets the stack send.    *)
Mirror(t) ==
  /\ stage[t] = "mirror"
  /\ host_ctrl_cache' = Cached(t)
  /\ Over(t)
  /\ phase' = CASE t = "open" /\ phase = "host_ready" -> "first_toggle"
                [] t = "open" /\ phase = "first_toggle" -> "running"
                [] OTHER -> phase
  /\ UNCHANGED host_ctrl

Next ==
  \E t \in Threads :
    \/ \E o \in Ops : Begin(t, o)
    \/ BusWrite(t)
    \/ BusFail(t)
    \/ Mirror(t)

Spec == Init /\ [][Next]_vars

-----------------------------------------------------------------------------
TypeOK ==
  /\ phase \in {"host_ready", "first_toggle", "running", "failed"}
  /\ host_ctrl \in SUBSET Bits
  /\ host_ctrl_cache \in SUBSET Bits
  /\ op \in [Threads -> Ops \cup {"none"}]
  /\ stage \in [Threads -> {"idle", "write", "mirror"}]
  /\ value \in [Threads -> SUBSET Bits]
  /\ alone \in [Threads -> BOOLEAN]

(* Whatever the threads do to each other, none of them takes SW_RDY back:  *)
(* it is in the register, in the cache and in every value on its way once  *)
(* open has returned.                                                      *)
SwRdyKept ==
  phase = "running" =>
    /\ "SW_RDY" \in host_ctrl
    /\ "SW_RDY" \in host_ctrl_cache
    /\ \A t \in Busy : "SW_RDY" \in value[t]

(* WAKE_BT is never cleared once it is everywhere: in the register, in the *)
(* cache and in every value a thread is about to write.                    *)
WakeSettled ==
  /\ "WAKE_BT" \in host_ctrl \cap host_ctrl_cache
  /\ \A t \in Busy : "WAKE_BT" \in value[t]

WakeStaysSettled == [][WakeSettled => WakeSettled']_vars

(* A call that no other overlaps is as good as one step: by its end it has *)
(* made of the cache what it should, and register and cache are together   *)
(* again, whatever earlier calls did to them.                              *)
LoneCallIsAtomic ==
  [][\A t \in Threads :
       stage[t] = "mirror" /\ stage'[t] = "idle" /\ alone[t]
         => /\ host_ctrl_cache' = Modified(op[t], host_ctrl_cache)
            /\ host_ctrl' = host_ctrl_cache']_vars

(* A toggle that no other call overlaps and that finds the cache in step   *)
(* with the register is an edge for the BT core.                           *)
InStep == host_ctrl_cache = host_ctrl

LoneToggleIsAnEdge ==
  \A t \in Threads :
    stage[t] = "write" /\ alone[t] /\ op[t] = "toggle_intr" /\ InStep =>
      ("DATA_VALID" \in value[t]) # ("DATA_VALID" \in host_ctrl)

(* For open each of its calls is one step (OpenCalls), whatever the former *)
(* boot has left in the register and whichever write fails.  The call that *)
(* has written the register counts as over: only the cache is still to be  *)
(* told, and nobody else reads it.                                         *)
OpenMirrors == stage["open"] = "mirror"

Promise == INSTANCE OpenCalls WITH
  reg <- host_ctrl,
  cache <- IF OpenMirrors THEN value["open"] ELSE host_ctrl_cache,
  at <- CASE OpenMirrors /\ phase = "host_ready" -> "first_toggle"
          [] OpenMirrors /\ phase = "first_toggle" -> "running"
          [] OTHER -> phase

ImplementsOpenCalls == Promise!Spec
=============================================================================
