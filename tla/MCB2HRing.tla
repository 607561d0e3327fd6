----------------------------- MODULE MCB2HRing ------------------------------
(***************************************************************************)
(* B2HRing for TLC: a ring of 6 words, a local buffer of 3 and packets for *)
(* each branch of ring_read and of the RX thread.                          *)
(***************************************************************************)
EXTENDS B2HRing, Functions, TLC

CONSTANTS
  evt, acl,     \* an event and ACL data of 2 and 3 words
  tight,        \* an event that does not fit its net_buf
  odd, bare,    \* of a type the host does not take; a header alone
  long,         \* more than the local buffer takes
  broken        \* its header states too much (see the runs)

CONSTANT BrokenLen  \* what the header of `broken' states; it has 1 byte

Lens ==
  evt :> 3 @@ acl :> 6 @@ tight :> 5 @@ odd :> 1 @@ bare :> 0 @@ long :> 12
    @@ broken :> BrokenLen
KindOf ==
  evt :> "event" @@ acl :> "acl" @@ tight :> "event" @@ odd :> "other"
    @@ bare :> "event" @@ long :> "acl" @@ broken :> "event"

MCPayloadLen == Restrict(Lens, Packets)
MCRealLen == Restrict([Lens EXCEPT ![broken] = 1], Packets)
MCKind == Restrict(KindOf, Packets)
MCTailroom == [event |-> 4, acl |-> 8]

Honest == {evt, acl, long, broken}
Few == {evt, broken}
Dirty == {acl, tight, bare, broken}
=============================================================================
