----------------------------- MODULE FwDownload -----------------------------
(***************************************************************************)
(* Step 3 of open: cyw43_bt_download_firmware reads the records of the     *)
(* firmware blob and write_firmware_record writes each data record to the  *)
(* memory of the BT core, in chunks (mem_xfer), reads it back and retries. *)
(*                                                                         *)
(* A byte is not a number here but where it comes from: <<r, i>> is byte i *)
(* of record r.  Addresses are relative to BTFW_MEM_OFFSET, a multiple of  *)
(* the window, and no address wraps at 2^32.                               *)
(***************************************************************************)
EXTENDS Integers, Sequences

CONSTANTS
  Blobs,         \* firmware blobs: sequences of records
  FileLens,      \* how many bytes of each blob the file may hold
  VersionLen,    \* length of the version string before the records
  Unit,          \* the access size of the backplane: 4
  MaxChunk,      \* most bytes in one bus transfer: 512
  Window,        \* bytes of a backplane window: 0x1000
  BufSize,       \* bytes of `aligned' and `verify': CYW43_BT_BUF_WORDS words
  WriteRetries,  \* BTFW_WRITE_RETRIES
  Addresses,     \* the bytes of the memory that are modelled, see below
  ExtendedUnit,  \* what hi_addr counts: 2^16 ...
  SegmentUnit    \* ... and 2^4 in segment mode

Types == {"data", "end", "extended", "segment", "absolute", "other"}
AddressTypes == {"extended", "segment", "absolute"}

(* base is the number in the payload of an address record. *)
Records == [type : Types, addr : Nat, len : Nat, base : Nat]

(* How many bytes of the file of blob b come before its record n + 1: the  *)
(* version string, the record count, and n records with their headers.     *)
BytesBefore(b) ==
  LET before[n \in 0 .. Len(b)] ==
        IF n = 0 THEN VersionLen + 2 ELSE before[n - 1] + 4 + b[n].len
  IN  before

BlobBytes(b) == BytesBefore(b)[Len(b)]

ASSUME DownloadAssumption ==
  /\ \A b \in Blobs : b \in Seq(Records)
  /\ FileLens \in [Blobs -> SUBSET Nat]
  /\ \A b \in Blobs : FileLens[b] \subseteq 0 .. BlobBytes(b)
  /\ VersionLen \in Nat
  /\ {Unit, MaxChunk, Window, BufSize, WriteRetries} \subseteq Nat \ {0}
  /\ {ExtendedUnit, SegmentUnit} \subseteq Nat
  /\ Addresses \subseteq Nat

VARIABLES
  blob,
  mem,          \* the memory of the BT core
  dl_pc,        \* where download_firmware is
  remaining,    \* bytes of the file not read yet
  pos,          \* the record at `record', as an index of blob
  hi_addr, abs_base_addr, addr_mode,  \* what address records have stated
  dest,         \* dest_addr of the data record being written
  aligned,      \* the bytes to write, with those around them
  done,         \* how many of them are written, or verified
  attempt,
  dl_ret

addrVars == <<hi_addr, abs_base_addr, addr_mode>>
parseVars == <<blob, remaining, pos, addrVars>>
writeVars == <<dest, aligned, done, attempt>>
dlVars == <<mem, dl_pc, parseVars, writeVars, dl_ret>>

Untouched == <<0, 0>>
Garbage == <<0, 1>>   \* a byte of `aligned' that was never set

Rec == blob[pos]

RoundDown(n) == (n \div Unit) * Unit
RoundUp(n) == RoundDown(n + Unit - 1)

(* The block of whole words around len bytes at address d. *)
WriteLen(d, len) == RoundUp(d - RoundDown(d) + len)

(* What is added to the address of a data record.  Two of the modes share *)
(* hi_addr, which each reads in its own unit.                              *)
Base ==
  CASE addr_mode = "extended" -> hi_addr * ExtendedUnit
    [] addr_mode = "segment"  -> hi_addr * SegmentUnit
    [] addr_mode = "absolute" -> abs_base_addr

(* A mutant: all address records hold four bytes. *)
LeastLenFour(t) == 4

LeastLen(t) == IF t = "absolute" THEN 4 ELSE 2

(* How many of the n bytes at address a one transfer takes. *)
Chunk(a, n) ==
  LET c == IF n < MaxChunk THEN n ELSE MaxChunk
  IN  IF (a % Window) + c > Window THEN Window - (a % Window) ELSE c

-----------------------------------------------------------------------------
Init ==
  /\ blob \in Blobs
  /\ mem = [a \in Addresses |-> Untouched]
  /\ dl_pc = "preamble"
  /\ remaining \in FileLens[blob]
  /\ pos = 1
  /\ hi_addr = 0 /\ abs_base_addr = 0 /\ addr_mode = "extended"
  /\ dest = 0 /\ aligned = <<>> /\ done = 0 /\ attempt = 0
  /\ dl_ret = "none"

Finish(v) == dl_pc' = "done" /\ dl_ret' = v
GoTo(pc) == dl_pc' = pc /\ UNCHANGED dl_ret

(* The version string and the record count, which nothing uses. *)
Preamble ==
  /\ dl_pc = "preamble"
  /\ IF remaining >= VersionLen + 2
       THEN remaining' = remaining - VersionLen - 2 /\ GoTo("power_up")
       ELSE /\ Finish(IF remaining = 0 THEN "ENOENT" ELSE "EINVAL")
            /\ UNCHANGED remaining
  /\ UNCHANGED <<mem, blob, pos, addrVars, writeVars>>

(* The write of BT2WLAN_PWRUP_WAKE comes before the first record. *)
PowerUp ==
  /\ dl_pc = "power_up"
  /\ GoTo("record") \/ Finish("EIO")
  /\ UNCHANGED <<mem, parseVars, writeVars>>

(* A mutant: an unknown record ends the file. *)
AtEndOrOther == remaining >= 4 => Rec.len = 0 \/ Rec.type \in {"end", "other"}

(* The end: too few bytes for another record, or the record says so. *)
AtEnd == remaining >= 4 => Rec.len = 0 \/ Rec.type = "end"

BadRecord ==
  /\ ~AtEnd
  /\ \/ Rec.len > remaining - 4
     \/ Rec.type = "other"
     \/ Rec.type \in AddressTypes /\ Rec.len < LeastLen(Rec.type)
     \/ Rec.type = "data" /\ WriteLen(Base + Rec.addr, Rec.len) > BufSize

StopAtRecord ==
  /\ dl_pc = "record"
  /\ AtEnd \/ BadRecord
  /\ Finish(IF AtEnd THEN "ok" ELSE "EINVAL")
  /\ UNCHANGED <<mem, parseVars, writeVars>>

NextRecord(types) ==
  dl_pc = "record" /\ ~AtEnd /\ ~BadRecord /\ Rec.type \in types

(* The record is behind us. *)
Advance ==
  /\ pos' = pos + 1
  /\ remaining' = remaining - 4 - Rec.len
  /\ UNCHANGED blob

AddressRecord ==
  /\ NextRecord(AddressTypes)
  /\ addr_mode' = Rec.type
  /\ IF Rec.type = "absolute"
       THEN abs_base_addr' = Rec.base /\ UNCHANGED hi_addr
       ELSE hi_addr' = Rec.base /\ UNCHANGED abs_base_addr
  /\ Advance
  /\ UNCHANGED <<mem, dl_pc, writeVars, dl_ret>>

(* A mutant: only the beginning is asked for. *)
NeedsReadAtStart(d, len) == d # RoundDown(d)

(* Is any byte of the block not the record's own? *)
NeedsRead(d, len) == d # RoundDown(d) \/ WriteLen(d, len) # len

(* The block to write: the record's bytes over what was read there. *)
Block(d, len) ==
  [i \in 1 .. WriteLen(d, len) |->
     LET a == RoundDown(d) + i - 1
     IN  CASE a \in d .. d + len - 1 -> <<pos, a - d + 1>>
           [] a \notin d .. d + len - 1 /\ NeedsRead(d, len) -> mem[a]
           [] OTHER -> Garbage]

(* The block is put together, unless the read for it fails. *)
DataRecord ==
  LET d == Base + Rec.addr
  IN  /\ NextRecord({"data"})
      /\ \/ dest' = d /\ aligned' = Block(d, Rec.len) /\ GoTo("write")
         \/ NeedsRead(d, Rec.len) /\ Finish("EIO") /\ UNCHANGED <<dest, aligned>>
      /\ UNCHANGED <<mem, parseVars, done, attempt>>

-----------------------------------------------------------------------------
(* The next transfer of mem_write or mem_read.  A transfer cannot leave    *)
(* the window it begins in: its address would wrap there.                  *)
Here == RoundDown(dest) + done
ThisChunk == Chunk(Here, Len(aligned) - done)
OffsetOf(a) == (a - Here) % Window
Reached(a) == a \div Window = Here \div Window /\ OffsetOf(a) < ThisChunk
ByteFor(a) == aligned[done + 1 + OffsetOf(a)]

(* What becomes of the memory when these words of the transfer arrive. *)
ThisWords == {RoundDown(a) : a \in {a \in Addresses : Reached(a)}}

Landed(words) ==
  [a \in Addresses |->
     IF RoundDown(a) \in words /\ Reached(a) THEN ByteFor(a) ELSE mem[a]]

(* A mutant: the attempts are not counted. *)
AttemptsForgotten == attempt

Attempts == attempt + 1

(* An attempt has failed. *)
Retry ==
  /\ attempt' = Attempts
  /\ done' = 0
  /\ IF Attempts < WriteRetries THEN GoTo("write") ELSE Finish("EIO")
  /\ UNCHANGED <<parseVars, dest, aligned>>

(* One transfer of mem_write.  "Writes can silently fail": whether the bus *)
(* says that it succeeded or that it failed, any of its words may have     *)
(* arrived.                                                                *)
WriteChunk ==
  /\ dl_pc = "write"
  /\ \E words \in SUBSET ThisWords : mem' = Landed(words)
  /\ \/ /\ IF done + ThisChunk < Len(aligned)
             THEN done' = done + ThisChunk /\ UNCHANGED dl_pc
             ELSE done' = 0 /\ dl_pc' = "verify"
        /\ UNCHANGED <<parseVars, dest, aligned, attempt, dl_ret>>
     \/ Retry

(* A mutant: what was read is not compared. *)
MatchesAnyway == TRUE

Matches == \A a \in Addresses : Reached(a) => mem[a] = ByteFor(a)

(* One transfer of the mem_read that verifies; what it read is compared.   *)
VerifyChunk ==
  /\ dl_pc = "verify"
  /\ Matches
  /\ IF done + ThisChunk < Len(aligned)
       THEN /\ done' = done + ThisChunk
            /\ UNCHANGED <<dl_pc, parseVars, dest, aligned, attempt>>
       ELSE /\ dl_pc' = "record"
            /\ Advance
            /\ dest' = 0 /\ aligned' = <<>> /\ done' = 0 /\ attempt' = 0
            /\ UNCHANGED addrVars
  /\ UNCHANGED <<mem, dl_ret>>

(* It differs, or the read fails. *)
VerifyFail == dl_pc = "verify" /\ Retry /\ UNCHANGED mem

DlNext ==
  \/ Preamble \/ PowerUp \/ StopAtRecord \/ AddressRecord \/ DataRecord
  \/ WriteChunk \/ VerifyChunk \/ VerifyFail

Spec == Init /\ [][DlNext]_dlVars

-----------------------------------------------------------------------------
TypeOK ==
  /\ blob \in Blobs
  /\ mem \in [Addresses -> ({0} \X {0, 1}) \cup (Nat \X Nat)]
  /\ dl_pc \in {"preamble", "power_up", "record", "write", "verify", "done"}
  /\ remaining \in Nat
  /\ pos \in 1 .. Len(blob) + 1
  /\ hi_addr \in Nat /\ abs_base_addr \in Nat /\ addr_mode \in AddressTypes
  /\ dest \in Nat
  /\ Len(aligned) <= BufSize
  /\ done \in 0 .. BufSize
  /\ attempt \in 0 .. WriteRetries
  /\ dl_ret \in {"none", "ok", "ENOENT", "EINVAL", "EIO"}

(* What the records of a blob ask for, up to the nth: at each address the  *)
(* byte of the last data record that covers it, the address of a record    *)
(* being its own on top of what the last address record before it stated.  *)
BaseOf(r) ==
  CASE r.type = "extended" -> r.base * ExtendedUnit
    [] r.type = "segment"  -> r.base * SegmentUnit
    [] r.type = "absolute" -> r.base

LastOf(s) == CHOOSE j \in s : \A k \in s : k <= j

First ==
  [b \in Blobs |-> [i \in 1 .. Len(b) |->
     LET moves == {j \in 1 .. i : b[j].type \in AddressTypes}
     IN  b[i].addr + IF moves = {} THEN 0 ELSE BaseOf(b[LastOf(moves)])]]

CoversIn(b, i, a) ==
  b[i].type = "data" /\ a \in First[b][i] .. First[b][i] + b[i].len - 1

(* A table, which TLC computes once. *)
Images ==
  [b \in Blobs |-> [n \in 0 .. Len(b) |-> [a \in Addresses |->
     LET by == {i \in 1 .. n : CoversIn(b, i, a)}
     IN  IF by = {} THEN Untouched ELSE <<LastOf(by), a - First[b][LastOf(by)] + 1>>]]]

Covers(i, a) == CoversIn(blob, i, a)
Image(n) == Images[blob][n]

(* When download_firmware goes on to the next record, and when it returns  *)
(* success, the memory holds what all records before ask for: silent       *)
(* failures, retries, transfers cut in two and changes of the address mode *)
(* leave nothing behind.                                                   *)
LoadedSoFar ==
  dl_pc = "record" \/ dl_ret = "ok" => mem = Image(pos - 1)

(* A record is written in whole words, again and again if need be; the     *)
(* bytes in them that are not its own keep what earlier records put there, *)
(* or what was there, at every moment and even if the download fails.      *)
OthersKept ==
  LET image == Image(pos - 1)
  IN  \A a \in Addresses :
        mem[a] = image[a] \/ (pos <= Len(blob) /\ Covers(pos, a))

(* The records of b that count: those before the one that says it is the   *)
(* last.                                                                   *)
CountedOf(b) ==
  LET ends == {i \in 1 .. Len(b) : b[i].type = "end" \/ b[i].len = 0}
  IN  IF ends = {} THEN Len(b)
      ELSE (CHOOSE i \in ends : \A j \in ends : i <= j) - 1

Counted == CountedOf(blob)

(* After success everything the file asks for is in the memory, up to the *)
(* record that is the last, unless the file ends in front of one: nothing  *)
(* else makes the parser stop early and say that all is well.              *)
WholeUnlessCut == dl_ret = "ok" => mem = Image(Counted) \/ remaining < 4

(* A blob in order, as the one that is built in is: the file is all of     *)
(* it, and each record that counts is of a known type, holds its base if   *)
(* it is an address record, and fits the buffer with the bytes around it.  *)
BaseLen == [extended |-> 2, segment |-> 2, absolute |-> 4]

WellFormed(b) ==
  /\ FileLens[b] = {BlobBytes(b)}
  /\ \A i \in 1 .. CountedOf(b) :
       /\ b[i].type # "other"
       /\ b[i].type \in AddressTypes => b[i].len >= BaseLen[b[i].type]
       /\ b[i].type = "data" => WriteLen(First[b][i], b[i].len) <= BufSize

(* A well-formed blob parses to its end: only the bus, or a memory that    *)
(* does not keep what is written to it, can make its download fail, and    *)
(* once that has returned 0 all of it is in the memory.                    *)
WellFormedLoads ==
  WellFormed(blob) =>
    /\ dl_ret \notin {"ENOENT", "EINVAL"}
    /\ dl_ret = "ok" => mem = Image(Counted)

(* What the download has still to do, the slowest hand of the clock first: *)
(* its stages, the records, the attempts at one, the two passes of each,   *)
(* the bytes of a pass.                                                    *)
StagesLeft ==
  CASE dl_pc = "preamble" -> 3
    [] dl_pc = "power_up" -> 2
    [] dl_pc = "done" -> 0
    [] OTHER -> 1

DlRank ==
  << StagesLeft,
     Len(blob) + 1 - pos,
     IF dl_pc = "record" THEN WriteRetries + 1 ELSE WriteRetries - attempt,
     IF dl_pc = "write" THEN 1 ELSE 0,
     Len(aligned) - done >>
=============================================================================
