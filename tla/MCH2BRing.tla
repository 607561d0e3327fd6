------------------------------ MODULE MCH2BRing ------------------------------
(***************************************************************************)
(* H2BRing for TLC: a ring of 8 words and packets of 2, 3 and 7 words, of  *)
(* which the last fills the ring, and one that does not fit send's buffer. *)
(***************************************************************************)
EXTENDS H2BRing, TLC

CONSTANTS cmd, acl, full, huge

MCPackets == {cmd, acl, full, huge}

MCPayloadLen == cmd :> 3 @@ acl :> 8 @@ full :> 24 @@ huge :> 25
=============================================================================
