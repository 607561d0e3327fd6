---------------------------- MODULE MCBleLogger -----------------------------
(***************************************************************************)
(* BleLogger for TLC: three devices and a table for two of them, and       *)
(* numbers below, in and above what the table can hold.                    *)
(***************************************************************************)
EXTENDS BleLogger

(* The address of the third is the first half of one and the second of the *)
(* other.                                                                  *)
MCAddresses == {<<"a", "a">>, <<"b", "b">>, <<"a", "b">>}
MCNumbers == 0 .. 3
=============================================================================
