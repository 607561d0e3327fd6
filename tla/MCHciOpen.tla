----------------------------- MODULE MCHciOpen ------------------------------
(***************************************************************************)
(* HciOpen for TLC with the sizes of the driver.  The blobs are the patch  *)
(* that is built in and small ones for each branch of the parser: one that *)
(* changes the address mode twice and has records that begin and end inside*)
(* a word, overlap and cross a window, and one for each kind of bad record.*)
(***************************************************************************)
EXTENDS HciOpen, Blob43439

Moves(t, b, n) == [type |-> t, addr |-> 0, len |-> n, base |-> b]

Good ==
  << Moves("extended", 1, 2), DataAt(4093, 4), DataAt(4098, 6),
     Moves("segment", 4352, 2), DataAt(0, 1),
     Moves("absolute", 69639, 4), DataAt(1, 2), EndRecord, DataAt(0, 2) >>

SmallBlobs ==
  { Good,
    << DataAt(2, 3), DataAt(4, 3) >>,
    << Moves("other", 0, 1), DataAt(0, 1) >>,
    << Moves("extended", 1, 1) >>,
    << Moves("absolute", 1, 3) >>,
    << DataAt(0, 1), DataAt(0, 0), DataAt(4, 1) >> }

MCBlobs == SmallBlobs \cup {cyw43_btfw_43439}

(* Whole files; and Good, cut in the preamble, in front of the second of   *)
(* its records and in it.                                                  *)
Cuts == {0, 1, VersionString} \cup {VersionString + n : n \in {8, 11, 13}}

MCFileLens ==
  [b \in MCBlobs |->
     IF b = cyw43_btfw_43439 THEN {cyw43_btfw_43439_len}
     ELSE {BlobBytes(b)} \cup IF b = Good THEN Cuts ELSE {}]

(* The patch that is built in is well-formed; it is as long as its length  *)
(* says and has as many records as its record count says, the address      *)
(* records and the last one included.                                      *)
ASSUME BlobAssumption ==
  /\ WellFormed(cyw43_btfw_43439)
  /\ BlobBytes(cyw43_btfw_43439) = cyw43_btfw_43439_len
  /\ Len(cyw43_btfw_43439) = record_count

(* The words at both ends of each data record.  No byte's value depends on *)
(* another byte of the memory, and inside a record all are written alike.  *)
WordAt(a) == (a \div 4) * 4 .. (a \div 4) * 4 + 3

EndsOf(b) ==
  UNION {LET moves == {j \in 1 .. i : b[j].type \in AddressTypes}
             last == CHOOSE j \in moves : \A k \in moves : k <= j
             first == b[i].addr + IF moves = {} THEN 0 ELSE BaseOf(b[last])
         IN  WordAt(first) \cup WordAt(first + b[i].len - 1)
         : i \in {i \in 1 .. Len(b) : b[i].type = "data" /\ b[i].len > 0}}

MCAddresses == UNION {EndsOf(b) : b \in MCBlobs}

MCProbes ==
  << "whd_driver", "share_bt_init", "bt_driver", "bt_info", "BT_CTRL_REG",
     "BT_BUF_REG", "HOST_CTRL_REG", "bt_attach" >>

=============================================================================
