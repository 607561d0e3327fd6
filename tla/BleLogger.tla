----------------------------- MODULE BleLogger ------------------------------
(***************************************************************************)
(* samples/ble_logger/src/main.c: `ble scan', `ble log <N>' and `ble stop' *)
(* in the shell's thread, the scan callback in the Bluetooth stack's       *)
(* receive thread, the work that ends a discovery after 10 s, and main,    *)
(* which starts the radio once.                                            *)
(*                                                                         *)
(* There is one core.  The shell is preemptible and may be interrupted     *)
(* between any two of its statements; callback and work are cooperative,   *)
(* so each runs through unless it blocks on g_devices_mutex, and a         *)
(* callback that was blocked runs as soon as the shell unlocks it.         *)
(***************************************************************************)
EXTENDS Naturals, Sequences

CONSTANTS
  Addresses,    \* of advertising devices: pairs, see LogCopy
  MaxDevices,   \* MAX_DEVICES
  Numbers,      \* what the user types after `ble log'
  None

ASSUME LoggerAssumption ==
  /\ MaxDevices \in Nat \ {0}
  /\ Numbers \subseteq Nat
  /\ None \notin Addresses
  /\ \A a \in Addresses : a = <<a[1], a[2]>>

VARIABLES
  state,        \* g_state
  devices,      \* g_devices up to g_device_count: the addresses
  target,       \* g_target
  target_set,   \* g_target_set
  end_work,     \* is g_discovery_end_work scheduled?
  start_sem,    \* g_start_scan_sem
  radio,        \* main: in bt_enable ("off"), waiting, done or given up
  sh_pc,        \* where the shell's thread is
  number,       \* n of cmd_log
  blocked,      \* the address a callback blocked on the mutex was called with
  logged,       \* the device whose advertisement was last logged
  chosen,       \* the device that `ble log' last chose
  bad_log       \* an invalid `ble log' has come during this discovery

logVars == <<logged, chosen>>
targetVars == <<target, target_set>>
mainVars == <<start_sem, radio>>
tableVars == <<state, devices, targetVars>>
restVars == <<mainVars, blocked, logVars>>
vars == <<tableVars, end_work, sh_pc, number, restVars, bad_log>>

ShellHasMutex == sh_pc \in {"clear", "scan_unlock", "check", "copy", "log_unlock"}

(* A callback is ready to go on, and goes before the shell.                *)
CallbackReady == blocked # None /\ ~ShellHasMutex

-----------------------------------------------------------------------------
Init ==
  /\ state = "idle" /\ devices = <<>>
  /\ target = <<None, None>> /\ target_set = FALSE
  /\ end_work = FALSE
  /\ start_sem = 0 /\ radio = "off"
  /\ sh_pc = "prompt" /\ number = 0
  /\ blocked = None
  /\ logged = None /\ chosen = None /\ bad_log = FALSE

(* A step of the shell's thread. *)
Shell(from, to) == sh_pc = from /\ sh_pc' = to /\ ~CallbackReady

(* A mutant: the work stays scheduled. *)
CommandOnly(to) == Shell("prompt", to) /\ UNCHANGED end_work

(* Each command cancels the work first. *)
Command(to) == Shell("prompt", to) /\ end_work' = FALSE

(* k_mutex_lock and k_mutex_unlock. *)
LockOrUnlock ==
  /\ \/ Shell("scan_lock", "clear") \/ Shell("scan_unlock", "scan_state")
     \/ Shell("log_lock", "check") \/ Shell("log_unlock", "log_set")
  /\ UNCHANGED <<tableVars, end_work, number, restVars, bad_log>>

ScanCancel ==
  /\ Command("scan_lock")
  /\ UNCHANGED <<tableVars, number, restVars, bad_log>>

ScanClear ==
  /\ Shell("clear", "scan_unlock")
  /\ devices' = <<>>
  /\ UNCHANGED <<state, targetVars, end_work, number, restVars, bad_log>>

ScanState ==
  /\ Shell("scan_state", "scan_sem")
  /\ state' = "discovering"
  /\ UNCHANGED <<devices, targetVars, end_work, number, restVars, bad_log>>

(* A mutant: nobody tells main. *)
NotGiven == start_sem

Given == 1

ScanSem ==
  /\ Shell("scan_sem", "scan_schedule")
  /\ start_sem' = Given
  /\ UNCHANGED <<tableVars, end_work, radio, number, blocked, logVars, bad_log>>

(* A mutant: the work is not scheduled for a second scan. *)
ScheduledOnce == radio \in {"off", "waiting"}

Scheduled == TRUE

ScanSchedule ==
  /\ Shell("scan_schedule", "prompt")
  /\ end_work' = Scheduled
  /\ bad_log' = FALSE
  /\ UNCHANGED <<tableVars, number, restVars>>

LogCancel(n) ==
  /\ Command("log_lock")
  /\ number' = n
  /\ UNCHANGED <<tableVars, restVars, bad_log>>

ValidNumber == number \in 1 .. Len(devices)

(* The number is wrong: the command ends, the work stays cancelled. *)
LogInvalid ==
  /\ ~ValidNumber
  /\ Shell("check", "prompt")
  /\ number' = 0
  /\ bad_log' = (bad_log \/ state = "discovering")
  /\ UNCHANGED <<tableVars, end_work, restVars>>

(* A mutant: the entry after the one that is meant. *)
EntryNext == IF number < Len(devices) THEN devices[number + 1] ELSE devices[number]

Entry == devices[number]

(* g_target takes the address in two pieces: memcpy is not atomic, and     *)
(* what reads g_target does not take the mutex.                            *)
LogCopy ==
  /\ ValidNumber
  /\ Shell("check", "copy")
  /\ target' = <<Entry[1], target[2]>>
  /\ UNCHANGED <<state, devices, target_set, end_work, number, restVars, bad_log>>

LogCopied ==
  /\ Shell("copy", "log_unlock")
  /\ target' = <<target[1], Entry[2]>>
  /\ chosen' = devices[number]
  /\ UNCHANGED <<state, devices, target_set, end_work, mainVars, number,
                 blocked, logged, bad_log>>

LogSet ==
  /\ Shell("log_set", "log_state")
  /\ target_set' = TRUE
  /\ UNCHANGED <<state, devices, target, end_work, number, restVars, bad_log>>

LogState ==
  /\ Shell("log_state", "prompt")
  /\ state' = "logging"
  /\ number' = 0
  /\ UNCHANGED <<devices, targetVars, end_work, restVars, bad_log>>

StopCancel ==
  /\ Command("stop_state")
  /\ UNCHANGED <<tableVars, number, restVars, bad_log>>

StopState ==
  /\ Shell("stop_state", "stop_unset")
  /\ state' = "idle"
  /\ UNCHANGED <<devices, targetVars, end_work, number, restVars, bad_log>>

StopUnset ==
  /\ Shell("stop_unset", "prompt")
  /\ target_set' = FALSE
  /\ UNCHANGED <<state, devices, target, end_work, number, restVars, bad_log>>

-----------------------------------------------------------------------------
(* The device is listed, unless it is or the table is full. *)
Listed(a) == \E i \in 1 .. Len(devices) : devices[i] = a

Full == Len(devices) >= MaxDevices

List(a) ==
  IF Listed(a) \/ Full THEN UNCHANGED devices
                      ELSE devices' = Append(devices, a)

(* scan_cb during a discovery: it takes the mutex, or waits for the shell  *)
(* to give it up. *)
CbDiscover(a) ==
  /\ radio = "scanning"
  /\ blocked = None
  /\ state = "discovering"
  /\ IF ShellHasMutex THEN blocked' = a /\ UNCHANGED devices
                      ELSE List(a) /\ UNCHANGED blocked
  /\ UNCHANGED <<state, targetVars, end_work, mainVars, sh_pc, number,
                 logVars, bad_log>>

CbResume ==
  /\ CallbackReady
  /\ List(blocked)
  /\ blocked' = None
  /\ UNCHANGED <<state, targetVars, end_work, mainVars, sh_pc, number,
                 logVars, bad_log>>

(* scan_cb while logging: an advertisement of the target is logged. *)
CbLog(a) ==
  /\ radio = "scanning"
  /\ blocked = None
  /\ state = "logging"
  /\ target_set
  /\ a = target
  /\ logged' = a
  /\ UNCHANGED <<tableVars, end_work, mainVars, sh_pc, number, blocked, chosen,
                 bad_log>>

(* discovery_end_work_fn, 10 s after it was scheduled. *)
EndDiscovery ==
  /\ end_work
  /\ end_work' = FALSE
  /\ state' = "idle"
  /\ UNCHANGED <<devices, targetVars, sh_pc, number, restVars, bad_log>>

(* main: bt_enable, with the shell running already, and bt_le_scan_start   *)
(* after the first `ble scan'.  Each is called once, and main returns.     *)
MainEnable ==
  /\ radio = "off"
  /\ radio' \in {"waiting", "failed"}
  /\ UNCHANGED <<tableVars, end_work, sh_pc, number, start_sem, blocked,
                 logVars, bad_log>>

MainStart ==
  /\ start_sem = 1
  /\ radio = "waiting"
  /\ ~CallbackReady
  /\ start_sem' = 0
  /\ radio' \in {"scanning", "failed"}
  /\ UNCHANGED <<tableVars, end_work, sh_pc, number, blocked, logVars, bad_log>>

Main == MainEnable \/ MainStart

User == ScanCancel \/ StopCancel \/ \E n \in Numbers : LogCancel(n)

ShellStep ==
  \/ LockOrUnlock \/ ScanClear \/ ScanState \/ ScanSem \/ ScanSchedule
  \/ LogInvalid \/ LogCopy \/ LogCopied \/ LogSet \/ LogState
  \/ StopState \/ StopUnset

Next ==
  \/ User \/ ShellStep
  \/ \E a \in Addresses : CbDiscover(a) \/ CbLog(a)
  \/ CbResume \/ EndDiscovery \/ Main

Spec == Init /\ [][Next]_vars

(* A command that was typed runs to its end, as main and the callback do,  *)
(* and the timer of the work goes off.                                     *)
FairSpec ==
  /\ Spec
  /\ WF_vars(ShellStep) /\ WF_vars(CbResume)
  /\ WF_vars(EndDiscovery) /\ WF_vars(Main)

-----------------------------------------------------------------------------
TypeOK ==
  /\ state \in {"idle", "discovering", "logging"}
  /\ devices \in Seq(Addresses) /\ Len(devices) <= MaxDevices
  /\ logged \in Addresses \cup {None}
  /\ chosen \in Addresses \cup {None}
  /\ blocked \in Addresses \cup {None}
  /\ target_set \in BOOLEAN
  /\ end_work \in BOOLEAN
  /\ bad_log \in BOOLEAN
  /\ start_sem \in 0 .. 1
  /\ radio \in {"off", "waiting", "scanning", "failed"}
  /\ number \in Numbers \cup {0}

(* `ble log N' logs the device that was the Nth in the list and no other,  *)
(* although the callback lists, logs and reads g_target all the time the   *)
(* command runs; only while g_target is half written may it take another.  *)
LogsOnlyChosen ==
  [][logged' # logged => logged' = chosen \/ sh_pc = "copy"]_vars

(* A device is listed only during a discovery, even by a callback that has *)
(* tested g_state and then waited for the mutex while a command went on.   *)
ListsOnlyInDiscovery ==
  [][Len(devices') > Len(devices) => state = "discovering"]_vars

(* No request to start the radio is lost, whether main is in bt_enable,    *)
(* waits or has returned: once a scan is on, the radio is on or has failed,*)
(* or the semaphore that main waits for is given or about to be.           *)
StartIsNotLost ==
  state = "discovering" =>
    radio \in {"scanning", "failed"} \/ start_sem = 1 \/ sh_pc = "scan_sem"

(* Between two commands a discovery has its end scheduled, although each   *)
(* command cancels it before it does anything else: only an invalid        *)
(* `ble log' leaves one without.                                           *)
EndIsScheduled ==
  sh_pc = "prompt" /\ state = "discovering" /\ ~bad_log => end_work

(* The first `ble scan' gets main to start the radio, one that is typed    *)
(* while bt_enable is still at work too, and if main has not given up then.*)
ScanStartsRadio == state = "discovering" ~> radio \in {"scanning", "failed"}

(* A discovery that no invalid `ble log' has disturbed does not go on for  *)
(* good without another command.                                           *)
EndsUnlessDisturbed ==
  []<>(state # "discovering" \/ sh_pc # "prompt" \/ bad_log)
=============================================================================
