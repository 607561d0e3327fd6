----------------------------- MODULE Blob43439 ------------------------------
(***************************************************************************)
(* The firmware patch that is built in: cyw43_btfw_43439, record by record.*)
(* Of a record the type, the address, the length and, for an address       *)
(* record, the number in it are modelled, not the bytes (see FwDownload).  *)
(***************************************************************************)
EXTENDS Naturals, Sequences

DataAt(a, n) == [type |-> "data", addr |-> a, len |-> n, base |-> 0]
Extended(b) == [type |-> "extended", addr |-> 0, len |-> 2, base |-> b]
EndRecord == [type |-> "end", addr |-> 0, len |-> 0, base |-> 0]

(* n records of the greatest length in the file, one after the other. *)
Run(a, n) == [i \in 1 .. n |-> DataAt(a + 251 * (i - 1), 251)]

VersionString == 74
record_count == 35
cyw43_btfw_43439_len == 6970

(* "BRCMcfgS" ... *)
Signature == << Extended(\h21), DataAt(\he000, 66) >>

(* ... "BRCMcfgD" and the configuration behind it, up to the table that    *)
(* ends it, ...                                                            *)
ConfigData == Run(\hf000, 12) \o << DataAt(\hfbc4, 188) >>

(* ... the code ... *)
PatchCode == << Extended(\h0d) >> \o Run(\h0200, 13) \o << DataAt(\h0ebf, 209) >>

(* ... and two words that are put into place behind it. *)
PatchEntries ==
  << Extended(\h20), DataAt(\h38d4, 4), Extended(\h20), DataAt(\h4164, 4) >>

cyw43_btfw_43439 ==
  Signature \o ConfigData \o PatchCode \o PatchEntries \o << EndRecord >>
=============================================================================
