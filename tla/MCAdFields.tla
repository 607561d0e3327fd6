----------------------------- MODULE MCAdFields -----------------------------
(***************************************************************************)
(* AdFields for TLC with the sizes of the code: the payload that           *)
(* ble_advertiser sends, fields of every length that the one byte for it   *)
(* can state, and up to three fields with lengths around the size of a     *)
(* name, complete or cut.                                                  *)
(***************************************************************************)
EXTENDS AdFields

Bytes(fs) == BytesOf(fs)[Len(fs)]

(* "total budget is 31 bytes across all fields" *)
ASSUME BudgetAssumption == Bytes(BeaconAd) <= 31

OneField == {<< AdField("other", n) >> : n \in 0 .. 254}

ShortFields == {AdField(t, n) : t \in FieldTypes, n \in {0, 2}}
NameFields == {AdField(t, n) : t \in {"name_complete", "name_shortened"}, n \in {30, 31, 32, 200}}

Mixed ==
  (ShortFields \X ShortFields \X ShortFields)
    \cup (ShortFields \X NameFields \X ShortFields)

MCPayloads ==
  {[fields |-> fs, total |-> Bytes(fs)] : fs \in OneField \cup {BeaconAd} \cup Mixed}
    \cup {[fields |-> fs, total |-> Bytes(fs) - cut] : fs \in Mixed, cut \in 1 .. 5}
=============================================================================
