-------------------------- MODULE BleLogger_proofs --------------------------
(***************************************************************************)
(* Theorems about the BLE logger, for any devices, any size of the table   *)
(* and any numbers typed.  g_state and g_target are shared without a lock; *)
(* what holds of them all the same rests on each command cancelling the    *)
(* timer's work before anything else, and on a callback that waits for the *)
(* mutex going on before the shell does.                                   *)
(***************************************************************************)
EXTENDS BleLogger, TLAPS

(* While a command runs the work is not scheduled. *)
WorkIsCancelled == sh_pc # "prompt" => ~end_work

(* A callback that waits has found a discovery, and it is still on. *)
WaitsInDiscovery == blocked # None => state = "discovering" /\ ~end_work

(* How g_target comes to be the chosen device, half by half; the table     *)
(* does not change meanwhile, for the shell has the mutex.                 *)
TargetIsChosen ==
  /\ sh_pc = "copy" => ValidNumber /\ target = <<Entry[1], target[2]>>
  /\ sh_pc \in {"log_unlock", "log_set"} => target = chosen
  /\ target_set /\ sh_pc # "copy" => target = chosen

(* The flags, apart from the rest of TypeOK. *)
FlagsOK == target_set \in BOOLEAN /\ end_work \in BOOLEAN /\ bad_log \in BOOLEAN

IInv == TypeOK /\ WorkIsCancelled /\ WaitsInDiscovery /\ TargetIsChosen

(* The groups of variables and main's two steps, expanded in every proof. *)
USE DEF tableVars, restVars, mainVars, targetVars, logVars, Main

-----------------------------------------------------------------------------
LEMMA ListType ==
  ASSUME NEW a \in Addresses, List(a),
         devices \in Seq(Addresses), Len(devices) <= MaxDevices
  PROVE  devices' \in Seq(Addresses) /\ Len(devices') <= MaxDevices
<1>1. MaxDevices \in Nat /\ Len(devices) \in Nat
  BY LoggerAssumption
<1>2. CASE Listed(a) \/ Len(devices) >= MaxDevices
  BY <1>2 DEF List, Full
<1>3. CASE ~(Listed(a) \/ Len(devices) >= MaxDevices)
  <2>1. devices' = Append(devices, a)
    BY <1>3 DEF List, Full
  <2>2. devices' \in Seq(Addresses) /\ Len(devices') = Len(devices) + 1
    BY <2>1
  <2> QED
    BY <1>1, <1>3, <2>2
<1> QED
  BY <1>2, <1>3

LEMMA EntryType ==
  ASSUME devices \in Seq(Addresses), ValidNumber
  PROVE  Entry \in Addresses /\ Entry = <<Entry[1], Entry[2]>>
<1>1. number \in 1 .. Len(devices)
  BY DEF ValidNumber
<1>2. devices[number] \in Addresses
  BY <1>1
<1>3. \A a \in Addresses : a = <<a[1], a[2]>>
  BY LoggerAssumption
<1> QED
  BY <1>2, <1>3, Zenon DEF Entry

LEMMA InitIInv == Init => IInv
<1> SUFFICES ASSUME Init PROVE IInv
  OBVIOUS
<1>1. Len(devices) <= MaxDevices
  BY LoggerAssumption DEF Init
<1>2. FlagsOK
  BY Zenon DEF Init, FlagsOK
<1>3. TypeOK
  BY <1>1, <1>2 DEF Init, TypeOK, FlagsOK
<1> QED
  BY <1>3 DEF Init, IInv, WorkIsCancelled, WaitsInDiscovery, TargetIsChosen

(* Each shared variable is touched by few steps, so each part of the       *)
(* invariant is kept for its own reason.                                   *)
LEMMA FlagsKept == TypeOK /\ [Next]_vars => FlagsOK'
<1> SUFFICES ASSUME FlagsOK, [Next]_vars PROVE FlagsOK'
  BY DEF TypeOK, FlagsOK
<1>1. ASSUME UNCHANGED targetVars, UNCHANGED <<end_work, bad_log>> PROVE FlagsOK'
  BY <1>1 DEF FlagsOK
<1>2. CASE User
  BY <1>2, Zenon DEF User, ScanCancel, StopCancel, LogCancel, Command, FlagsOK
<1>3. CASE ScanSchedule \/ LogInvalid
  BY <1>3, Zenon DEF ScanSchedule, Scheduled, LogInvalid, FlagsOK
<1>4. CASE LogSet \/ StopUnset \/ EndDiscovery
  BY <1>4, Zenon DEF LogSet, StopUnset, EndDiscovery, FlagsOK
<1>5. CASE LogCopy \/ LogCopied
  BY <1>5, Zenon DEF LogCopy, LogCopied, FlagsOK
<1>6. CASE ShellStep /\ ~(\/ ScanSchedule \/ LogInvalid \/ LogSet \/ StopUnset
                         \/ LogCopy \/ LogCopied)
  BY <1>1, <1>6 DEF ShellStep, LockOrUnlock, ScanClear, ScanState,
     ScanSem, LogState, StopState
<1>7. ASSUME NEW a \in Addresses, CbDiscover(a) \/ CbLog(a) PROVE FlagsOK'
  BY <1>1, <1>7 DEF CbDiscover, CbLog
<1>8. CASE CbResume \/ Main \/ UNCHANGED vars
  BY <1>1, <1>8 DEF CbResume, MainEnable, MainStart, vars
<1> QED
  BY <1>2, <1>3, <1>4, <1>5, <1>6, <1>7, <1>8 DEF Next

LEMMA TypeKept == IInv /\ [Next]_vars => TypeOK'
<1> SUFFICES ASSUME IInv, [Next]_vars, FlagsOK' PROVE TypeOK'
  BY FlagsKept DEF IInv
<1> USE DEF FlagsOK
<1>1. CASE User
  BY <1>1 DEF User, ScanCancel, StopCancel, LogCancel, Command, IInv, TypeOK
<1>2. CASE LogCopied
  <2>1. sh_pc = "copy" /\ ValidNumber /\ chosen' = Entry
    BY <1>2 DEF LogCopied, Shell, IInv, TargetIsChosen, Entry
  <2>2. chosen' \in Addresses
    BY <2>1, EntryType DEF IInv, TypeOK
  <2> QED
    BY <1>2, <2>2 DEF LogCopied, IInv, TypeOK
<1>3. CASE ScanClear
  <2>1. devices' \in Seq(Addresses) /\ Len(devices') <= MaxDevices
    BY <1>3, LoggerAssumption DEF ScanClear
  <2> QED
    BY <1>3, <2>1 DEF ScanClear, IInv, TypeOK
<1>8. CASE LockOrUnlock \/ ScanState \/ ScanSem \/ ScanSchedule
  BY <1>8 DEF LockOrUnlock, ScanState, ScanSem, Given, ScanSchedule,
     IInv, TypeOK
<1>9. CASE LogInvalid \/ LogCopy \/ LogSet \/ LogState
  BY <1>9 DEF LogInvalid, LogCopy, LogSet, LogState,
     IInv, TypeOK
<1>10. CASE StopState \/ StopUnset
  BY <1>10 DEF StopState, StopUnset, IInv, TypeOK
<1>4. ASSUME NEW a \in Addresses, CbDiscover(a) PROVE TypeOK'
  BY <1>4, ListType DEF CbDiscover, IInv, TypeOK
<1>5. ASSUME NEW a \in Addresses, CbLog(a) PROVE TypeOK'
  BY <1>5 DEF CbLog, IInv, TypeOK
<1>6. CASE CbResume
  BY <1>6, ListType DEF CbResume, CallbackReady, IInv, TypeOK
<1>7. CASE EndDiscovery \/ Main \/ UNCHANGED vars
  BY <1>7 DEF EndDiscovery, MainEnable, MainStart, vars, IInv, TypeOK
<1> QED
  BY <1>1, <1>2, <1>3, <1>4, <1>5, <1>6, <1>7, <1>8, <1>9, <1>10
     DEF Next, ShellStep

(* The work is scheduled only by the last step of `ble scan'. *)
LEMMA WorkKept == IInv /\ [Next]_vars => WorkIsCancelled'
  BY DEF Next, User, ShellStep, ScanCancel, StopCancel, LogCancel, Command,
     LockOrUnlock, ScanClear, ScanState, ScanSem, ScanSchedule,
     LogInvalid, LogCopy, LogCopied, LogSet, LogState,
     StopState, StopUnset, Shell, CbDiscover, CbResume, CbLog, EndDiscovery,
     MainEnable, MainStart, vars, IInv, WorkIsCancelled

(* Only a callback that finds the mutex taken waits; g_state is written    *)
(* by the shell without the mutex, and so not before that callback has     *)
(* gone on, or by the work, which is cancelled.                            *)
LEMMA WaitKept == IInv /\ [Next]_vars => WaitsInDiscovery'
<1> SUFFICES ASSUME IInv, [Next]_vars PROVE WaitsInDiscovery'
  OBVIOUS
<1>1. CASE User
  BY <1>1 DEF User, ScanCancel, StopCancel, LogCancel, Command, Shell, IInv,
     WaitsInDiscovery
<1>2. CASE ShellStep
  BY <1>2 DEF ShellStep, LockOrUnlock, ScanClear, ScanState, ScanSem,
     ScanSchedule, LogInvalid, LogCopy, LogCopied, LogSet,
     LogState, StopState, StopUnset, Shell, CallbackReady, ShellHasMutex,
     IInv, WaitsInDiscovery
<1>3. ASSUME NEW a \in Addresses, CbDiscover(a) PROVE WaitsInDiscovery'
  BY <1>3 DEF CbDiscover, ShellHasMutex, IInv, WaitsInDiscovery, WorkIsCancelled
<1>4. CASE CbResume \/ EndDiscovery \/ Main \/ UNCHANGED vars
  BY <1>4 DEF CbResume, EndDiscovery, MainEnable, MainStart, vars, IInv, WaitsInDiscovery
<1>5. ASSUME NEW a \in Addresses, CbLog(a) PROVE WaitsInDiscovery'
  BY <1>5 DEF CbLog, IInv, WaitsInDiscovery
<1> QED
  BY <1>1, <1>2, <1>3, <1>4, <1>5 DEF Next

LEMMA TargetKept == IInv /\ [Next]_vars => TargetIsChosen'
<1> SUFFICES ASSUME IInv, [Next]_vars PROVE TargetIsChosen'
  OBVIOUS
<1>1. CASE User
  BY <1>1 DEF User, ScanCancel, StopCancel, LogCancel, Command, Shell, IInv, TargetIsChosen
<1>2. CASE LogCopy
  <2>1. target' = <<Entry[1], target[2]>> /\ ValidNumber /\ sh_pc' = "copy"
    BY <1>2 DEF LogCopy, Shell
  <2>2. ValidNumber' /\ Entry' = Entry
    BY <1>2, <2>1 DEF LogCopy, ValidNumber, Entry
  <2> QED
    BY <2>1, <2>2 DEF TargetIsChosen
<1>3. CASE LogCopied
  <2>1. /\ ValidNumber /\ target = <<Entry[1], target[2]>>
        /\ target' = <<target[1], Entry[2]>> /\ chosen' = Entry
        /\ sh_pc' = "log_unlock"
    BY <1>3 DEF LogCopied, Shell, IInv, TargetIsChosen, Entry
  <2>2. target[1] = Entry[1]
    BY <2>1
  <2>3. target' = chosen'
    BY <2>1, <2>2, EntryType DEF IInv, TypeOK
  <2> QED
    BY <2>1, <2>3 DEF TargetIsChosen
<1>4. CASE ShellStep /\ ~LogCopy /\ ~LogCopied
  BY <1>4 DEF ShellStep, LockOrUnlock, ScanClear, ScanState, ScanSem,
     ScanSchedule, LogInvalid, LogSet, LogState,
     StopState, StopUnset, Shell, IInv, TargetIsChosen
<1>5. ASSUME UNCHANGED <<targetVars, sh_pc, number, chosen>>,
             sh_pc = "copy" => UNCHANGED devices
      PROVE  TargetIsChosen'
  BY <1>5 DEF IInv, TargetIsChosen, ValidNumber, Entry
<1>6. CASE EndDiscovery \/ Main \/ UNCHANGED vars
  BY <1>5, <1>6 DEF EndDiscovery, MainEnable, MainStart, vars
<1>7. ASSUME NEW a \in Addresses, CbDiscover(a) \/ CbLog(a) PROVE TargetIsChosen'
  BY <1>5, <1>7 DEF CbDiscover, CbLog, ShellHasMutex
<1>8. CASE CbResume
  BY <1>5, <1>8 DEF CbResume, CallbackReady, ShellHasMutex
<1> QED
  BY <1>1, <1>2, <1>3, <1>4, <1>6, <1>7, <1>8 DEF Next

THEOREM InductiveInvariant == Spec => []IInv
<1>1. IInv /\ [Next]_vars => IInv'
  BY TypeKept, WorkKept, WaitKept, TargetKept DEF IInv
<1> QED
  BY <1>1, InitIInv, PTL DEF Spec

-----------------------------------------------------------------------------
(* The table holds addresses that were advertised, at most MAX_DEVICES.    *)
THEOREM TypeCorrect == Spec => []TypeOK
<1>1. IInv => TypeOK
  BY DEF IInv
<1> QED
  BY <1>1, InductiveInvariant, PTL

(* Nothing is listed outside a discovery, although scan_cb tests g_state   *)
(* and may wait for the mutex after that, with a command going on.         *)
THEOREM ListedInDiscovery == Spec => ListsOnlyInDiscovery
<1> DEFINE A == Len(devices') > Len(devices) => state = "discovering"
<1>1. IInv /\ [Next]_vars => [A]_vars
  <2> SUFFICES ASSUME IInv, Next, Len(devices') > Len(devices), state # "discovering"
               PROVE  FALSE
    OBVIOUS
  <2>1. blocked = None
    BY DEF IInv, WaitsInDiscovery
  <2>2. devices' = devices \/ devices' = <<>>
    BY <2>1 DEF Next, User, ShellStep, ScanCancel, StopCancel, LogCancel,
       LockOrUnlock, ScanClear, ScanState, ScanSem, ScanSchedule,
       LogInvalid, LogCopy, LogCopied, LogSet, LogState,
       StopState, StopUnset, CbDiscover, CbResume, CallbackReady, CbLog,
       EndDiscovery, MainEnable, MainStart
  <2>3. Len(devices) \in Nat /\ Len(<<>>) = 0
    BY DEF IInv, TypeOK
  <2> QED
    BY <2>2, <2>3
<1> QED
  BY <1>1, InductiveInvariant, PTL DEF Spec, ListsOnlyInDiscovery

(* A request to start the radio is not lost; the induction needs nothing   *)
(* else, for only main takes the semaphore, and it goes on from there.     *)
THEOREM RadioIsStarted == Spec => []StartIsNotLost
<1>1. Init => StartIsNotLost
  BY DEF Init, StartIsNotLost
<1>2. StartIsNotLost /\ [Next]_vars => StartIsNotLost'
  <2> SUFFICES ASSUME StartIsNotLost, [Next]_vars PROVE StartIsNotLost'
    OBVIOUS
  <2>1. CASE User
    BY <2>1 DEF User, ScanCancel, StopCancel, LogCancel, Command, Shell, StartIsNotLost
  <2>2. CASE LockOrUnlock \/ ScanClear \/ ScanState \/ ScanSem \/ ScanSchedule
    BY <2>2 DEF LockOrUnlock, ScanClear, ScanState, ScanSem, Given, ScanSchedule,
       Shell, StartIsNotLost
  <2>3. CASE LogInvalid \/ LogCopy \/ LogCopied \/ LogSet \/ LogState
    BY <2>3 DEF LogInvalid, LogCopy, LogCopied, LogSet, LogState, Shell, StartIsNotLost
  <2>4. CASE StopState \/ StopUnset \/ EndDiscovery
    BY <2>4 DEF StopState, StopUnset, EndDiscovery, Shell, StartIsNotLost
  <2>5. ASSUME NEW a \in Addresses, CbDiscover(a) \/ CbLog(a) PROVE StartIsNotLost'
    BY <2>5 DEF CbDiscover, CbLog, StartIsNotLost
  <2>6. CASE CbResume \/ Main \/ UNCHANGED vars
    BY <2>6 DEF CbResume, MainEnable, MainStart, vars, StartIsNotLost
  <2> QED
    BY <2>1, <2>2, <2>3, <2>4, <2>5, <2>6 DEF Next, ShellStep
<1> QED
  BY <1>1, <1>2, PTL DEF Spec

(* Where `ble stop' comes back to the prompt it has ended the discovery    *)
(* already, and nothing but `ble scan' begins one; its last step schedules *)
(* the end.                                                                *)
EndInv == EndIsScheduled /\ (sh_pc = "stop_unset" => state = "idle")

THEOREM EndStaysScheduled == Spec => []EndIsScheduled
<1>1. Init => EndInv
  BY DEF Init, EndInv, EndIsScheduled
<1>2. EndInv /\ [Next]_vars => EndInv'
  <2> SUFFICES ASSUME EndInv, [Next]_vars PROVE EndInv'
    OBVIOUS
  <2> USE DEF EndInv, EndIsScheduled
  <2>1. CASE User
    BY <2>1 DEF User, ScanCancel, StopCancel, LogCancel, Command, Shell
  <2>2. CASE LockOrUnlock \/ ScanClear \/ ScanState \/ ScanSem \/ ScanSchedule
    BY <2>2 DEF LockOrUnlock, ScanClear, ScanState, ScanSem, ScanSchedule,
       Scheduled, Shell
  <2>3. CASE LogInvalid \/ LogCopy \/ LogCopied \/ LogSet \/ LogState
    BY <2>3 DEF LogInvalid, LogCopy, LogCopied, LogSet, LogState, Shell
  <2>4. CASE StopState \/ StopUnset \/ EndDiscovery
    BY <2>4 DEF StopState, StopUnset, EndDiscovery, Shell
  <2>5. ASSUME NEW a \in Addresses, CbDiscover(a) \/ CbLog(a) PROVE EndInv'
    BY <2>5 DEF CbDiscover, CbLog
  <2>6. CASE CbResume \/ Main \/ UNCHANGED vars
    BY <2>6 DEF CbResume, MainEnable, MainStart, vars
  <2> QED
    BY <2>1, <2>2, <2>3, <2>4, <2>5, <2>6 DEF Next, ShellStep
<1>3. EndInv => EndIsScheduled
  BY DEF EndInv
<1> QED
  BY <1>1, <1>2, <1>3, PTL DEF Spec

(* Only the device that was chosen is logged, except while memcpy has      *)
(* written one half of g_target.                                           *)
THEOREM LoggedIsChosen == Spec => LogsOnlyChosen
<1> DEFINE A == logged' # logged => logged' = chosen \/ sh_pc = "copy"
<1>1. IInv /\ [Next]_vars => [A]_vars
  <2> SUFFICES ASSUME IInv, Next, logged' # logged, sh_pc # "copy"
               PROVE  logged' = chosen
    OBVIOUS
  <2>1. PICK a \in Addresses : CbLog(a)
    BY DEF Next, User, ShellStep, ScanCancel, StopCancel, LogCancel,
       LockOrUnlock, ScanClear, ScanState, ScanSem, ScanSchedule,
       LogInvalid, LogCopy, LogCopied, LogSet, LogState,
       StopState, StopUnset, CbDiscover, CbResume, EndDiscovery, MainEnable, MainStart
  <2> QED
    BY <2>1 DEF CbLog, IInv, TargetIsChosen
<1> QED
  BY <1>1, InductiveInvariant, PTL DEF Spec, LogsOnlyChosen
=============================================================================
