----------------------------- MODULE BleScanner -----------------------------
(***************************************************************************)
(* samples/ble_scanner/src/main.c: main starts Bluetooth and the scan, and *)
(* from then on scan_cb reports each device that record_new does not know. *)
(* The table of known devices fills up and is never cleared.               *)
(***************************************************************************)
EXTENDS Naturals, Sequences

CONSTANTS
  Addresses,    \* of advertising devices
  MaxSeen,      \* MAX_SEEN
  MaxReports    \* bound: as many lines of the log are looked at

ASSUME ScannerAssumption == MaxSeen \in Nat \ {0} /\ MaxReports \in Nat

VARIABLES
  main,         \* where main is: it has returned when "scanning" or "failed"
  seen,         \* seen up to seen_count
  reports       \* the lines of the log: seen_count and address

scannerVars == <<main, seen, reports>>

ScannerInit == main = "enable" /\ seen = <<>> /\ reports = <<>>

(* bt_enable, then bt_le_scan_start; main returns the error of either. *)
Main ==
  /\ \/ main = "enable" /\ main' \in {"start", "failed"}
     \/ main = "start" /\ main' \in {"scanning", "failed"}
  /\ UNCHANGED <<seen, reports>>

-----------------------------------------------------------------------------
(* A mutant: the last entry is not looked at. *)
NewToAllButLast(a) == \A k \in 1 .. Len(seen) - 1 : seen[k] # a

HasRoom == Len(seen) < MaxSeen

(* record_new: with the table full the device is new all the same. *)
New(a) == \A k \in 1 .. Len(seen) : seen[k] # a

(* scan_cb. *)
Advertised(a) ==
  /\ main = "scanning"
  /\ Len(reports) < MaxReports
  /\ New(a)
  /\ seen' = IF HasRoom THEN Append(seen, a) ELSE seen
  /\ reports' = Append(reports, [count |-> Len(seen'), addr |-> a])
  /\ UNCHANGED main

ScannerNext == Main \/ \E a \in Addresses : Advertised(a)

ScannerSpec == ScannerInit /\ [][ScannerNext]_scannerVars

-----------------------------------------------------------------------------
Lines(a) == {k \in 1 .. Len(reports) : reports[k].addr = a}

(* The table holds what it can and no more.  A device that is reported     *)
(* twice was never let into it: those in the table have one line, and its  *)
(* number is their place in it, and those that are not come after the table*)
(* has filled up.                                                          *)
OnceIfInTable ==
  /\ Len(seen) <= MaxSeen
  /\ \A a \in Addresses :
       IF \E k \in 1 .. Len(seen) : seen[k] = a
         THEN \E k \in 1 .. Len(seen) :
                /\ seen[k] = a
                /\ Lines(a) = {k} /\ reports[k].count = k
         ELSE \A k \in Lines(a) : k > MaxSeen
=============================================================================
