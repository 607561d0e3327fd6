------------------------------- MODULE Btsdio -------------------------------
(***************************************************************************)
(* The arithmetic of the BTSDIO rings of                                   *)
(* drivers/cyw43/bt/hci_cyw43_shared_bus.c: the sizes, the index           *)
(* differences and the split of a transfer that crosses the end of a ring. *)
(* ring_write and ring_read share it, so it is stated once, with what a    *)
(* packet looks like in a ring.                                            *)
(*                                                                         *)
(* Lengths, indices and addresses are byte counts, as in the code.  The    *)
(* rings are only ever accessed in 32-bit words, at offsets that are       *)
(* multiples of 4.                                                         *)
(***************************************************************************)
EXTENDS Integers, Sequences

CONSTANTS
  FwBufSize,    \* BTSDIO_FWBUF_SIZE: bytes of one ring
  Packets,      \* the packets that cross the ring
  PayloadLen    \* [Packets -> Nat]: the length their header states

(* 4096 in the code.  Two words are the least a ring can work with: one of *)
(* them stays empty.                                                       *)
ASSUME FwBufSizeAssumption ==
  /\ FwBufSize \in Nat
  /\ FwBufSize >= 8
  /\ FwBufSize % 4 = 0

ASSUME PacketsAssumption == PayloadLen \in [Packets -> Nat]

(* sizeof of the 4-byte packet header, and of one word *)
HeaderSize == 4

(* ROUND_UP(n, 4) *)
RoundUp(n) == ((n + 3) \div 4) * 4

(* x & (BTSDIO_FWBUF_SIZE - 1), the size being a power of two *)
Mask(x) == x % FwBufSize

(* The word offsets of a ring: the values its two indices take. *)
WordOffsets == {o \in 0 .. FwBufSize - 1 : o % 4 = 0}

(* Bytes between the reader's index and the writer's.  The code subtracts  *)
(* in 32 bits; the ring size divides 2^32, so the mask of the wrapped      *)
(* difference is the remainder of the exact one.                           *)
CircCount(in, out) == Mask(in - out)

(* A mutant: the writer may fill the ring to the last word. *)
CircSpaceAll(in, out) == FwBufSize - CircCount(in, out)

(* Bytes a writer may still add.  One word always stays free. *)
CircSpace(in, out) == CircCount(out, in + 4)

(* The ring address of byte j of a transfer of len bytes that starts at    *)
(* `start': the part that does not fit before the end of the ring          *)
(* continues at its base.                                                  *)
RingAddr(start, len, j) ==
  LET first == FwBufSize - start
  IN  IF start + len <= FwBufSize \/ j < first THEN start + j ELSE j - first

(* The index after that transfer, before it is masked: it can be FwBufSize.*)
RingNext(start, len) ==
  IF start + len <= FwBufSize THEN start + len
                              ELSE len - (FwBufSize - start)

(* The bytes p takes in a ring: header and payload, in whole words. *)
RoundedLen(p) == RoundUp(HeaderSize + PayloadLen[p])

(* The word of packet p at byte offset j; the one at 0 is its header.  The *)
(* bytes themselves are left out: two words are equal when they are the    *)
(* same place of the same packet.                                          *)
Word(p, j) == [pkt |-> p, off |-> j]

PacketWords(p) ==
  [i \in 1 .. RoundedLen(p) \div 4 |-> Word(p, 4 * (i - 1))]
=============================================================================
