-------------------------- MODULE HostCtrl_proofs ---------------------------
(***************************************************************************)
(* Theorems about the read-modify-writes of HOST_CTRL_REG, for every set   *)
(* of calling threads, whether failed bus writes may land or not, and      *)
(* whatever the register held before open.                                 *)
(***************************************************************************)
EXTENDS HostCtrl, TLAPS

(* While open runs no other thread does; afterwards it does not. *)
OneAtATimeDuringOpen ==
  /\ phase # "running" => \A t \in Callers : stage[t] = "idle"
  /\ phase \in {"running", "failed"} => stage["open"] = "idle"

(* How SW_RDY comes to be everywhere: open's first operation puts it into  *)
(* its value, the register and the cache, one after the other.             *)
SwRdyOnItsWay ==
  /\ phase = "host_ready" /\ stage["open"] # "idle" => "SW_RDY" \in value["open"]
  /\ phase = "host_ready" /\ stage["open"] = "mirror" => "SW_RDY" \in host_ctrl
  /\ phase \in {"first_toggle", "running"} =>
       /\ "SW_RDY" \in host_ctrl
       /\ "SW_RDY" \in host_ctrl_cache
       /\ \A t \in Threads : stage[t] # "idle" => "SW_RDY" \in value[t]

(* A call marked alone is the only one, and it has lost nothing on the way:*)
(* its value still comes from what the cache holds, and the register has   *)
(* it when the cache is to be told.                                        *)
AloneIsAlone ==
  \A t \in Threads : alone[t] /\ stage[t] # "idle" =>
    /\ \A u \in Threads \ {t} : stage[u] = "idle"
    /\ op[t] \in Ops /\ value[t] = Modified(op[t], host_ctrl_cache)
    /\ stage[t] = "mirror" => host_ctrl = value[t]

IInv == TypeOK /\ OneAtATimeDuringOpen /\ SwRdyOnItsWay /\ AloneIsAlone

-----------------------------------------------------------------------------
LEMMA ModifiedType ==
  ASSUME NEW o \in Ops, NEW v \in SUBSET Bits
  PROVE  /\ Modified(o, v) \in SUBSET Bits
         /\ "SW_RDY" \in v => "SW_RDY" \in Modified(o, v)
         /\ "WAKE_BT" \in v => "WAKE_BT" \in Modified(o, v)
         /\ o = "set_host_ready" => "SW_RDY" \in Modified(o, v)
         /\ o = "toggle_intr" =>
              ("DATA_VALID" \in Modified(o, v)) # ("DATA_VALID" \in v)
<1>1. CASE o = "set_host_ready"
  BY <1>1 DEF Modified, Toggled, Bits
<1>2. CASE o = "set_bt_awake"
  BY <1>2 DEF Modified, Toggled, Bits
<1>3. CASE o = "toggle_intr"
  BY <1>3 DEF Modified, Toggled, Bits
<1> QED
  BY <1>1, <1>2, <1>3 DEF Ops

LEMMA InitIInv == Init => IInv
  BY DEF Init, IInv, TypeOK, OneAtATimeDuringOpen, SwRdyOnItsWay, AloneIsAlone,
     Threads, Ops, Bits

LEMMA NextIInv == IInv /\ [Next]_vars => IInv'
<1> SUFFICES ASSUME IInv, [Next]_vars PROVE IInv'
  OBVIOUS
<1>1. ASSUME NEW t \in Threads, NEW o \in Ops, Begin(t, o)
      PROVE  IInv'
  <2>1. Modified(o, host_ctrl_cache) \in SUBSET Bits
    BY ModifiedType DEF IInv, TypeOK
  <2>2. TypeOK'
    BY <1>1, <2>1 DEF Begin, IInv, TypeOK, Busy
  <2>3. OneAtATimeDuringOpen'
    BY <1>1, CallersAssumption
       DEF Begin, MayCall, IInv, OneAtATimeDuringOpen, TypeOK, Threads
  <2>4. SwRdyOnItsWay'
    BY <1>1, ModifiedType DEF Begin, MayCall, IInv, SwRdyOnItsWay, TypeOK, Threads
  <2>5. AloneIsAlone'
    BY <1>1 DEF Begin, IInv, AloneIsAlone, TypeOK, Busy
  <2> QED
    BY <2>2, <2>3, <2>4, <2>5 DEF IInv
<1>2. ASSUME NEW t \in Threads, BusWrite(t)
      PROVE  IInv'
  <2>1. TypeOK'
    BY <1>2 DEF BusWrite, IInv, TypeOK
  <2>2. OneAtATimeDuringOpen'
    BY <1>2 DEF BusWrite, IInv, OneAtATimeDuringOpen, TypeOK, Threads
  <2>3. SwRdyOnItsWay'
    BY <1>2 DEF BusWrite, IInv, SwRdyOnItsWay, OneAtATimeDuringOpen, TypeOK, Threads
  <2>4. AloneIsAlone'
    BY <1>2 DEF BusWrite, IInv, AloneIsAlone, TypeOK
  <2> QED
    BY <2>1, <2>2, <2>3, <2>4 DEF IInv
<1>3. ASSUME NEW t \in Threads, BusFail(t)
      PROVE  IInv'
  <2>1. TypeOK'
    BY <1>3 DEF BusFail, Over, IInv, TypeOK
  <2>2. OneAtATimeDuringOpen'
    BY <1>3 DEF BusFail, Over, IInv, OneAtATimeDuringOpen, TypeOK, Threads
  <2>3. SwRdyOnItsWay'
    BY <1>3 DEF BusFail, Over, IInv, SwRdyOnItsWay, OneAtATimeDuringOpen, TypeOK, Threads
  <2>4. AloneIsAlone'
    BY <1>3 DEF BusFail, Over, IInv, AloneIsAlone, TypeOK
  <2> QED
    BY <2>1, <2>2, <2>3, <2>4 DEF IInv
<1>4. ASSUME NEW t \in Threads, Mirror(t)
      PROVE  IInv'
  <2>1. TypeOK'
    BY <1>4 DEF Mirror, Cached, Over, IInv, TypeOK
  <2>2. OneAtATimeDuringOpen'
    BY <1>4 DEF Mirror, Cached, Over, IInv, OneAtATimeDuringOpen, TypeOK, Threads
  <2>3. SwRdyOnItsWay'
    BY <1>4 DEF Mirror, Cached, Over, IInv, SwRdyOnItsWay, OneAtATimeDuringOpen, TypeOK, Threads
  <2>4. AloneIsAlone'
    BY <1>4 DEF Mirror, Cached, Over, IInv, AloneIsAlone, TypeOK
  <2> QED
    BY <2>1, <2>2, <2>3, <2>4 DEF IInv
<1>5. CASE UNCHANGED vars
  BY <1>5 DEF vars, IInv, TypeOK, OneAtATimeDuringOpen, SwRdyOnItsWay, AloneIsAlone
<1> QED
  BY <1>1, <1>2, <1>3, <1>4, <1>5 DEF Next

THEOREM InductiveInvariant == Spec => []IInv
  BY InitIInv, NextIInv, PTL DEF Spec

-----------------------------------------------------------------------------
(* Register, cache and values on their way are sets of the three bits. *)
THEOREM TypeCorrect == Spec => []TypeOK
<1>1. IInv => TypeOK
  BY DEF IInv
<1> QED
  BY <1>1, InductiveInvariant, PTL

(* Once open has returned SW_RDY is never lost, race or no race: every     *)
(* value any thread writes was derived from a cache that held it.          *)
THEOREM SwRdyIsKept == Spec => []SwRdyKept
<1>1. IInv => SwRdyKept
  BY DEF IInv, SwRdyOnItsWay, SwRdyKept, Busy
<1> QED
  BY <1>1, InductiveInvariant, PTL

(* A toggle that overlaps nothing and finds the cache right will be an     *)
(* edge: the BT core sees it.                                              *)
THEOREM LoneTogglesAreEdges == Spec => []LoneToggleIsAnEdge
<1>1. IInv => LoneToggleIsAnEdge
  BY ModifiedType DEF IInv, TypeOK, AloneIsAlone, LoneToggleIsAnEdge, InStep
<1> QED
  BY <1>1, InductiveInvariant, PTL

(* A call that nothing overlaps is as good as one step: cache and register *)
(* end as what its operation makes of the cache.                           *)
THEOREM LoneCallsAreAtomic == Spec => LoneCallIsAtomic
<1> DEFINE A == \A t \in Threads :
                  stage[t] = "mirror" /\ stage'[t] = "idle" /\ alone[t]
                    => /\ host_ctrl_cache' = Modified(op[t], host_ctrl_cache)
                       /\ host_ctrl' = host_ctrl_cache'
<1>1. IInv /\ [Next]_vars => [A]_vars
  <2> SUFFICES ASSUME IInv, Next,
                      NEW t \in Threads,
                      stage[t] = "mirror", stage'[t] = "idle", alone[t]
               PROVE  /\ host_ctrl_cache' = Modified(op[t], host_ctrl_cache)
                      /\ host_ctrl' = host_ctrl_cache'
    OBVIOUS
  <2>1. Mirror(t)
    BY DEF Next, Begin, BusWrite, BusFail, Mirror, Cached, Over, IInv, TypeOK
  <2> QED
    BY <2>1 DEF Mirror, Cached, IInv, AloneIsAlone
<1> QED
  BY <1>1, InductiveInvariant, PTL DEF Spec, LoneCallIsAtomic

(* WAKE_BT, once it is in the register, in the cache and in every value on *)
(* its way, stays in all of them: no caller ever clears it.                *)
LEMMA NextWake == IInv /\ [Next]_vars /\ WakeSettled => WakeSettled'
<1> SUFFICES ASSUME IInv, [Next]_vars, WakeSettled PROVE WakeSettled'
  OBVIOUS
<1>1. ASSUME NEW t \in Threads, NEW o \in Ops, Begin(t, o)
      PROVE  WakeSettled'
  BY <1>1, ModifiedType DEF Begin, WakeSettled, Busy, IInv, TypeOK
<1>2. ASSUME NEW t \in Threads, BusWrite(t) \/ BusFail(t) \/ Mirror(t)
      PROVE  WakeSettled'
  BY <1>2 DEF BusWrite, BusFail, Mirror, Cached, Over, WakeSettled, Busy, IInv, TypeOK
<1>3. CASE UNCHANGED vars
  BY <1>3 DEF vars, WakeSettled, Busy
<1> QED
  BY <1>1, <1>2, <1>3 DEF Next

THEOREM WakeIsStable == Spec => WakeStaysSettled
<1> DEFINE A == WakeSettled => WakeSettled'
<1>1. IInv /\ [Next]_vars => [A]_vars
  BY NextWake
<1> QED
  BY <1>1, InductiveInvariant, PTL DEF Spec, WakeStaysSettled

-----------------------------------------------------------------------------
(* The calls of open.  While one runs it is alone, it is the one that is   *)
(* due, and open has not returned.                                         *)
OpenCallIsDue ==
  stage["open"] # "idle" =>
    /\ alone["open"]
    /\ \/ phase = "host_ready" /\ op["open"] = "set_host_ready"
       \/ phase = "first_toggle" /\ op["open"] = "toggle_intr"

LEMMA NextOpenCall == IInv /\ OpenCallIsDue /\ [Next]_vars => OpenCallIsDue'
<1> SUFFICES ASSUME IInv, OpenCallIsDue, [Next]_vars PROVE OpenCallIsDue'
  OBVIOUS
<1>0. /\ "open" \in Threads /\ "open" \notin Callers
      /\ \A t \in Threads : t # "open" => t \in Callers
  BY CallersAssumption DEF Threads
<1>1. ASSUME NEW t \in Threads, NEW o \in Ops, Begin(t, o)
      PROVE  OpenCallIsDue'
  <2>1. CASE t = "open"
    <3>1. phase # "running" /\ Busy = {}
      BY <1>0, <1>1, <2>1
         DEF Begin, MayCall, Busy, IInv, OneAtATimeDuringOpen
    <3> QED
      BY <1>0, <1>1, <2>1, <3>1 DEF Begin, MayCall, OpenCallIsDue, IInv, TypeOK
  <2>2. CASE t # "open"
    <3>1. phase = "running" /\ stage["open"] = "idle"
      BY <1>0, <1>1, <2>2 DEF Begin, MayCall, IInv, OneAtATimeDuringOpen
    <3> QED
      BY <1>0, <1>1, <2>2, <3>1 DEF Begin, OpenCallIsDue, IInv, TypeOK
  <2> QED
    BY <2>1, <2>2
<1>2. ASSUME NEW t \in Threads, BusWrite(t) \/ BusFail(t) \/ Mirror(t)
      PROVE  OpenCallIsDue'
  BY <1>0, <1>2
     DEF BusWrite, BusFail, Mirror, Over, OpenCallIsDue, IInv, TypeOK
<1>3. CASE UNCHANGED vars
  BY <1>3 DEF vars, OpenCallIsDue
<1> QED
  BY <1>1, <1>2, <1>3 DEF Next

(* The write of the register is the step of OpenCalls; reading the cache   *)
(* before it and telling the cache after it are none.                      *)
LEMMA StepOfOpenCalls ==
  IInv /\ OpenCallIsDue /\ [Next]_vars
    => [Promise!SetHostReady \/ Promise!ToggleIntr \/ Promise!Others]_Promise!cVars
<1> SUFFICES ASSUME IInv, OpenCallIsDue, [Next]_vars
             PROVE  [Promise!SetHostReady \/ Promise!ToggleIntr
                       \/ Promise!Others]_Promise!cVars
  OBVIOUS
<1>0. /\ "open" \in Threads /\ "open" \notin Callers
      /\ \A t \in Threads : t # "open" => t \in Callers
  BY CallersAssumption DEF Threads
<1> USE DEF Promise!cVars, OpenMirrors
<1>1. ASSUME NEW t \in Threads, t # "open",
             (\E o \in Ops : Begin(t, o)) \/ BusWrite(t) \/ BusFail(t) \/ Mirror(t)
      PROVE  Promise!Others
  <2>1. phase = "running" /\ stage["open"] = "idle"
    BY <1>0, <1>1
       DEF Begin, MayCall, BusWrite, BusFail, Mirror, IInv, OneAtATimeDuringOpen
  <2>2. phase' = phase /\ stage'["open"] = "idle"
    BY <1>0, <1>1, <2>1 DEF Begin, BusWrite, BusFail, Mirror, Over, IInv, TypeOK
  <2> QED
    BY <2>1, <2>2 DEF Promise!Others
<1>2. ASSUME NEW o \in Ops, Begin("open", o)
      PROVE  UNCHANGED Promise!cVars
  BY <1>0, <1>2 DEF Begin, IInv, TypeOK
<1>3. ASSUME BusWrite("open") \/ BusFail("open")
      PROVE  Promise!SetHostReady \/ Promise!ToggleIntr
  <2>1. /\ stage["open"] = "write"
        /\ value["open"] = Modified(op["open"], host_ctrl_cache)
        /\ \/ phase = "host_ready" /\ op["open"] = "set_host_ready"
           \/ phase = "first_toggle" /\ op["open"] = "toggle_intr"
    BY <1>0, <1>3
       DEF BusWrite, BusFail, IInv, AloneIsAlone, OpenCallIsDue
  <2>2. \/ /\ stage'["open"] = "mirror" /\ value' = value
           /\ host_ctrl' = value["open"] /\ UNCHANGED <<phase, host_ctrl_cache>>
        \/ /\ stage'["open"] = "idle" /\ phase' = "failed"
           /\ host_ctrl' \in {host_ctrl, value["open"]} /\ UNCHANGED host_ctrl_cache
    BY <1>0, <1>3 DEF BusWrite, BusFail, Over, IInv, TypeOK
  <2>3. CASE phase = "host_ready"
    BY <2>1, <2>2, <2>3
       DEF Modified, Promise!SetHostReady, Promise!Call, Promise!Succeeds, Promise!Fails
  <2>4. CASE phase = "first_toggle"
    BY <2>1, <2>2, <2>4
       DEF Modified, Toggled, Promise!ToggleIntr, Promise!Call, Promise!Succeeds,
           Promise!Fails
  <2> QED
    BY <2>1, <2>3, <2>4
<1>4. ASSUME Mirror("open")
      PROVE  UNCHANGED Promise!cVars
  BY <1>0, <1>4 DEF Mirror, Cached, Over, IInv, TypeOK, OpenCallIsDue
<1>5. CASE UNCHANGED vars
  BY <1>5 DEF vars
<1> QED
  BY <1>1, <1>2, <1>3, <1>4, <1>5 DEF Next

(* To open each of its calls is one step that either succeeds as a whole   *)
(* or leaves the cache alone.                                              *)
THEOREM OpenCallsAreAtomic == Spec => ImplementsOpenCalls
<1>1. Init => Promise!Init /\ OpenCallIsDue
  BY DEF Init, Promise!Init, OpenCallIsDue, OpenMirrors, Threads
<1> QED
  BY <1>1, NextOpenCall, StepOfOpenCalls, InductiveInvariant, PTL
     DEF Spec, ImplementsOpenCalls, Promise!Spec
=============================================================================
