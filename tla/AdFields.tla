------------------------------ MODULE AdFields ------------------------------
(***************************************************************************)
(* What the BLE samples do with the payload of an advertisement:           *)
(* parse_name_cb of ble_logger and ble_scanner, which takes the device's   *)
(* name out of it, and log_ad_field_cb of ble_logger, which prints each    *)
(* field as hex, byte by byte into a local array.  bt_data_parse, which    *)
(* hands them the fields one by one, is external.                          *)
(*                                                                         *)
(* A character is a pair: <<j, 1>> and <<j, 2>> are the digits of byte j   *)
(* of the field, and <<0, n>> is one of the others.                        *)
(***************************************************************************)
EXTENDS Integers, Sequences

CONSTANTS
  Payloads,     \* of advertisements: the fields and how many bytes there are
  NameSize,     \* CONFIG_BT_DEVICE_NAME_MAX
  HexSize,      \* sizeof(hex)
  MaxBytes      \* 40: how many bytes of a field are printed

FieldTypes == {"name_complete", "name_shortened", "other"}
Fields == [type : FieldTypes, data_len : Nat]

ASSUME AdAssumption ==
  /\ Payloads \subseteq [fields : Seq(Fields), total : Nat]
  /\ NameSize \in Nat \ {0}
  /\ MaxBytes \in Nat \ {0}
  /\ HexSize \in Nat
  /\ 3 * MaxBytes + 4 <= HexSize

(* The payload that ble_advertiser sends: flags, "Pico W", mfr_payload. *)
AdField(type, n) == [type |-> type, data_len |-> n]
BeaconAd ==
  << AdField("other", 1), AdField("name_complete", 6), AdField("other", 5) >>

Unset == <<0, 0>>
Nul == <<0, 1>>
Space == <<0, 2>>
Dot == <<0, 3>>

VARIABLES
  ad,           \* the payload
  callback,     \* the one that bt_data_parse was called with
  left,         \* bytes not parsed yet: ad->len
  at,           \* the field that comes next
  pc,
  name,         \* which field `name' was copied from, and how many bytes
  hex, len, i, pos    \* locals of log_ad_field_cb

parseVars == <<ad, callback, left, at, name>>
hexVars == <<hex, len, i, pos>>
vars == <<parseVars, pc, hexVars>>

Field == ad.fields[at]
NoName == [field |-> 0, len |-> 0]
Least(a, b) == IF a < b THEN a ELSE b

-----------------------------------------------------------------------------
Init ==
  /\ ad \in Payloads
  /\ callback \in {"parse_name_cb", "log_ad_field_cb"}
  /\ left = ad.total
  /\ at = 1
  /\ pc = "parse"
  /\ name = NoName
  /\ hex = [k \in 0 .. HexSize - 1 |-> Unset]
  /\ len = 0 /\ i = 0 /\ pos = 0

(* bt_data_parse (external): it ends with the payload, or at a field that  *)
(* says it is longer than what is left; a field takes its length, its type *)
(* and its data.                                                           *)
IsWhole == left > 1 /\ at <= Len(ad.fields) /\ 1 + Field.data_len < left

ParseEnd ==
  /\ pc = "parse"
  /\ ~IsWhole
  /\ pc' = "end"
  /\ UNCHANGED <<parseVars, hexVars>>

NextField == at' = at + 1 /\ left' = left - 2 - Field.data_len

-----------------------------------------------------------------------------
IsName == Field.type \in {"name_complete", "name_shortened"}

(* A mutant: the last name counts. *)
ParseOn == "parse"

NameLen(n) == Least(n, NameSize - 1)
AfterName == "end"

ParseName ==
  /\ pc = "parse"
  /\ IsWhole
  /\ callback = "parse_name_cb"
  /\ IF IsName
       THEN /\ name' = [field |-> at, len |-> NameLen(Field.data_len)]
            /\ pc' = AfterName
       ELSE UNCHANGED <<name, pc>>
  /\ NextField
  /\ UNCHANGED <<ad, callback, hexVars>>

-----------------------------------------------------------------------------
(* A mutant: the field may have any length. *)
BytesAll(n) == n

BytesPrinted(n) == Least(n, MaxBytes)

(* log_ad_field_cb begins with an array that has not been set. *)
LogBegin ==
  /\ pc = "parse"
  /\ IsWhole
  /\ callback = "log_ad_field_cb"
  /\ hex' = [k \in 0 .. HexSize - 1 |-> Unset]
  /\ len' = BytesPrinted(Field.data_len)
  /\ i' = 0 /\ pos' = 0
  /\ pc' = IF len' = 0 THEN "dots" ELSE "byte"
  /\ UNCHANGED parseVars

(* snprintf of s at p: as much of s as there is room for, and a NUL.       *)
Written(p, s) ==
  LET n == Least(Len(s), HexSize - p - 1)
  IN  [k \in 0 .. HexSize - 1 |->
         CASE k \in p .. p + n - 1 -> s[k - p + 1]
           [] k = p + n            -> Nul
           [] OTHER                -> hex[k]]

(* A mutant: a space behind every byte. *)
SpaceAlways == TRUE

SpaceFollows == i < len - 1

(* One turn of the loop: "%02x", and a space over the NUL. *)
LogByte ==
  /\ pc = "byte"
  /\ LET h == Written(pos, << <<i + 1, 1>>, <<i + 1, 2>> >>)
     IN  IF SpaceFollows
           THEN hex' = [h EXCEPT ![pos + 2] = Space] /\ pos' = pos + 3
           ELSE hex' = h /\ pos' = pos + 2
  /\ i' = i + 1
  /\ pc' = IF i' = len THEN "dots" ELSE "byte"
  /\ UNCHANGED <<parseVars, len>>

LogDots ==
  /\ pc = "dots"
  /\ hex' = IF Field.data_len > MaxBytes
              THEN Written(pos, <<Space, Dot, Dot, Dot>>) ELSE hex
  /\ pc' = "print"
  /\ UNCHANGED <<parseVars, len, i, pos>>

LogPrint ==
  /\ pc = "print"
  /\ pc' = "parse"
  /\ NextField
  /\ UNCHANGED <<ad, callback, name, hexVars>>

Next == ParseEnd \/ ParseName \/ LogBegin \/ LogByte \/ LogDots \/ LogPrint

Spec == Init /\ [][Next]_vars

-----------------------------------------------------------------------------
(* However long a field is, what is about to be printed, with its NUL, has *)
(* room in the array: "sizeof(hex) - pos" never wraps, and the space has a *)
(* place.                                                                  *)
HexInBounds ==
  /\ pc = "byte" => pos + 3 <= HexSize
  /\ pc = "dots" => pos + 5 <= HexSize

(* The bytes of the first k fields, each with its length and its type.     *)
BytesOf(fields) ==
  LET bytes[k \in 0 .. Len(fields)] ==
        IF k = 0 THEN 0 ELSE bytes[k - 1] + 2 + fields[k].data_len
  IN  bytes

(* The fields that are there as a whole, before the first that is not.     *)
WholeFields == {k \in 1 .. Len(ad.fields) : BytesOf(ad.fields)[k] <= ad.total}

(* What the comment of log_ad_field_cb asks for: up to 40 bytes as hex, and*)
(* " ..." behind them if there are more.                                   *)
Text(n) ==
  [k \in 1 .. 3 * Least(n, MaxBytes) - 1 |->
     IF k % 3 = 0 THEN Space ELSE <<k \div 3 + 1, k % 3>>]
  \o IF n > MaxBytes THEN <<Space, Dot, Dot, Dot>> ELSE <<>>

Prints(s) ==
  /\ \A k \in 1 .. Len(s) : hex[k - 1] = s[k]
  /\ hex[Len(s)] = Nul

(* A field with data is printed so, and ends with a NUL. *)
PrintsTheData ==
  pc = "print" /\ Field.data_len > 0 => Prints(Text(Field.data_len))

(* The name is that of the first name field that is there as a whole, cut  *)
(* to what the array holds with its NUL, and none if there is none.        *)
FirstNameTaken ==
  LET names == {k \in WholeFields : ad.fields[k].type # "other"}
  IN  pc = "end" /\ callback = "parse_name_cb" =>
        IF names = {} THEN name = NoName
        ELSE /\ name.field \in names
             /\ \A k \in names : name.field <= k
             /\ name.len = Least(ad.fields[name.field].data_len, NameSize - 1)
=============================================================================
