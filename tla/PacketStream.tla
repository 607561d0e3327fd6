---------------------------- MODULE PacketStream ----------------------------
(***************************************************************************)
(* What a BTSDIO ring promises, whichever way it points: the packets put   *)
(* in come out whole, in order, once.  The state is the words in transit;  *)
(* nothing is said of indices, of memory or of who is doing what.          *)
(*                                                                         *)
(* Spec is a ring that loses nothing (host to BT).  LossySpec may also     *)
(* lose packets, but whole ones and the oldest (BT to host, where the      *)
(* driver drops what it has no room for, and all there is when a header    *)
(* makes no sense).                                                        *)
(***************************************************************************)
EXTENDS Btsdio

CONSTANTS
  Capacity,     \* the most bytes in transit
  NoPacket      \* no packet has been taken yet

VARIABLES
  stream,       \* the words in transit, the oldest first
  got           \* the packet last taken

sVars == <<stream, got>>

Init == stream = <<>> /\ got = NoPacket

(* The writer adds a packet. *)
Put(p) ==
  /\ 4 * Len(stream) + RoundedLen(p) <= Capacity
  /\ stream' = stream \o PacketWords(p)
  /\ UNCHANGED got

(* p is at the front and leaves. *)
Leave(p) ==
  LET n == RoundedLen(p) \div 4
  IN  /\ n <= Len(stream)
      /\ SubSeq(stream, 1, n) = PacketWords(p)
      /\ stream' = SubSeq(stream, n + 1, Len(stream))

(* The reader takes the oldest packet. *)
Get(p) == Leave(p) /\ got' = p

(* The oldest packet is dropped. *)
Lose(p) == Leave(p) /\ UNCHANGED got

Spec == Init /\ [][\E p \in Packets : Put(p) \/ Get(p)]_sVars

(* The oldest packets are dropped, any number of them: what is left starts *)
(* with a header.                                                          *)
LoseOldest ==
  /\ \E n \in 1 .. Len(stream) :
       /\ n < Len(stream) => stream[n + 1].off = 0
       /\ stream' = SubSeq(stream, n + 1, Len(stream))
  /\ UNCHANGED got

LossySpec ==
  Init /\ [][LoseOldest \/ \E p \in Packets : Put(p) \/ Get(p)]_sVars
=============================================================================
