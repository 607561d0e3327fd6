# The CYW43439 Bluetooth transport in TLA+

The repository brings Bluetooth up on a Raspberry Pi Pico W under Zephyr. Its
core is one HCI driver, `src/drivers/cyw43/bt/hci_cyw43_shared_bus.c` (1199
lines): it loads firmware into the BT core of the CYW43439 through the WLAN
chip's backplane, sets up two ring buffers in the chip's memory, and carries HCI
packets through them, with one register as doorbell and wake-up line. Around it
are small samples, of which the BLE logger is a concurrent program of its own.

`D:n` below is line n of the driver, `L:n` and `S:n` line n of
`src/samples/ble_logger/src/main.c` and `src/samples/ble_scanner/src/main.c`.

## Inventory

| Part | State | Operations | What is hard |
|---|---|---|---|
| Host-to-BT ring, D:739-826, 1155-1186 | data ring, `h2b_in` (host), `h2b_out` (BT core) | `send`, `ring_write` | the BT core reads while the host writes; a stale snapshot of `h2b_out`; wrap-around; full against empty; a bus error half way |
| BT-to-host ring, D:829-999 | data ring, `b2h_in` (BT core), `b2h_out` (host), `net_buf` pool | `ring_read`, the RX thread | lengths come from memory the BT core wrote; three places give space back; no buffer; errors after a packet was taken out |
| `HOST_CTRL_REG`, D:207-249, 581-651 | the register, `host_ctrl_cache` | `set_host_ready`, `set_bt_awake`, `toggle_intr` | read-modify-write by two threads with no lock, over a bus on which a thread may block |
| `open`, D:1018-1141, 543-579, 662-708 | the register, the indices, the polling loops | eight steps in order | each can fail; the BT core goes its own way meanwhile; a register left over from a former boot |
| Firmware download, D:263-513 | the memory of the BT core, the position in the blob | parser of the records, `write_firmware_record`, `mem_xfer` | writes that silently fail, partial words, retries, address modes, the 4 KB window |
| The built-in patch, `cyw43_btfw_43439.h` | 35 records, 6970 bytes | - | records at odd addresses, one behind the other, over windows; a parser that trusts each length |
| Commands and events over the transport | the host's outstanding command, the pool of `net_buf`s | an HCI command, its command complete event, advertising reports | an answer that overtakes `send`; one pool for answers and reports, and a thread that does not wait for it |
| BLE logger, `samples/ble_logger` | `g_state`, `g_devices`, `g_target`, a delayed work, a semaphore | `ble scan`, `ble log`, `ble stop`, the scan callback, the timer, `main` | five contexts, one mutex that covers only part of the state |
| Advertisement payloads, L:80-116, S:56-71 | a local array, a position in it | `parse_name_cb`, `log_ad_field_cb` | lengths that come over the air against arrays of fixed size |
| BLE scanner, S:31-113 | the table of seen devices | the scan callback, `main` | the table full |
| Advertiser | its payload | start-up | - |
| Blinky, CLI | none to speak of | start-up | - |
| Scripts, Kconfig, device tree, docs | - | build, flash, memory report | - |

How they interact. `bt_enable` of the Zephyr host calls `open` once; `open` runs
alone and starts the RX thread as its last act. From then on the host's TX
processor calls `send`, and the RX thread polls the BT-to-host ring and hands
packets to the host through `recv`. Both threads write `HOST_CTRL_REG` through
`host_ctrl_cache` (D:143), the only variable they share; each ring has one
writer for each index. The BT core looks into the host-to-BT ring when
`DATA_VALID` *changes* (D:634), and stays awake while `WAKE_BT` is set. Every
access goes over the WHD bus and may fail or block; nothing is retried but the
records of the firmware.

What makes each part correct: the rings pass on whole packets in order and never
overwrite or skip what the other side has not finished with; the RX thread loses
no buffer and leaves no packet lying; the register keeps `SW_RDY` and `WAKE_BT`
and each toggle is an edge; `open` leaves a BT core whose image and indices are
right before it is told to start; a packet put into the ring is noticed; the
logger logs what was chosen, lists only in a discovery, and ends a discovery.

## Modules

| Module | What it models |
|---|---|
| `Btsdio` | the arithmetic both rings share: `circ_count`, `circ_space`, rounding, the split at the end of a ring; packets as sequences of words |
| `PacketStream` | **abstract**: a first-in first-out stream of whole packets (`Spec`), or one that may drop the oldest (`LossySpec`) |
| `H2BRing` | `send` and `ring_write`, one action per bus access, against a BT core that reads word by word |
| `B2HRing` | `ring_read` and the RX thread, one action per bus access, with the pool of `net_buf`s, against a BT core that adds packets whose header need not be true |
| `OpenCalls` | **abstract**: the calls of `open` on the register, each of them one step |
| `HostCtrl` | the register and its cache: each operation as three steps, read the cache, write the register, mirror |
| `Transport` | **composition**: `send`, the RX thread and the BT core; `HostCtrl` is instantiated step by step, each ring is the `PacketStream` it was shown to implement |
| `FwDownload` | step 3 of `open`: parser, merge with the surrounding words, transfers, verification, retries |
| `HciOpen` | **composition**: `open` from the first probe to the first toggle, with `FwDownload` in it and the BT core booting beside it |
| `Blob43439` | the patch that is built in, as a sequence of records for `FwDownload` |
| `HciSession` | **composition**: the Bluetooth host's commands and the pool of `net_buf`s over `Transport` |
| `BleLogger` | the BLE logger |
| `AdFields` | what the samples do with the fields of an advertisement |
| `BleScanner` | the BLE scanner |
| `Btsdio_proofs`, `H2BRing_proofs`, `B2HRing_proofs`, `HostCtrl_proofs`, `BleLogger_proofs`, `HciSession_proofs`, `HciOpen_proofs` | the theorems, of the module each is named after; those about `Transport` are in `HciSession_proofs`, those about `FwDownload` in `HciOpen_proofs` |
| `Samples_proofs` | the theorems about `AdFields` and `BleScanner` |
| `MC*` | values of the constants for TLC |

### How they correspond to the code

*Rings.* Ring memory is a function from word offsets to words; a word is "byte
offset `off` of packet `pkt`", so that two words are equal only if they are the
same place of the same packet, and a misplaced word shows. `pc` names the bus access that
comes next. `index` is the local snapshot of D:858 and D:788. Each word of
`mem_write`/`mem_read` is an action, which allows every order of events that the
512-byte chunks of `mem_xfer` do and more. A bus error is an action of its own at each
access (`BusFail`); a *write* that is reported to have failed may have been made
or not. `send`'s test at D:1163 is `SendTooLarge`; the second one, D:781, cannot
fire with the real sizes (264 against 320 bytes) and is left out, as is the
32-bit wrap of an index (all indices are below the ring's size).

In `B2HRing`, `PayloadLen` is what a header states and `RealLen` how much the BT core
wrote. If they differ, the reader gets out of step and payload words are read as
headers, which may then state any of `StrayLens` and be of any type.

*Register.* A register value is the set of its bits. `alone[t]` records whether
another thread was inside an operation during `t`'s; `InStep` that cache and
register agree. `phase` is how far `open` has come.

*Firmware.* A byte is modelled by where it comes from (`<<record, index>>`), so that
"the memory holds the image" says that every byte is the right one. Of a transfer any
of its words may arrive (`Landed`), whether the bus says that it succeeded (D:311-316: "writes can
silently fail") or that it failed. `hi_addr`, `abs_base_addr` and `addr_mode` are
variables, as in the code, where two of the modes share the first (`Base`); the properties go by
`BaseOf` the last address record instead. Addresses are relative to `BTFW_MEM_OFFSET`, which is
a multiple of the window. The record test D:337 cannot fire with one-byte
lengths, but is in the model (`BadRecord`), for it is a guard of what follows. `Blob43439` has
the type, address and length of each record of the header file.

*Open.* `Probe` stands for the eight steps up to `whd_bus_bt_attach` that can only
fail or go on; the three polling loops are one operator, `Poll`, with its
condition and its error. `host_ctrl` starts with *any* bits: the register
survives a reboot of the host, and `open` does not read it into the cache. `SetHostReady` and
`ToggleIntr` are one step each, not the three of `HostCtrl`. Both modules implement `OpenCalls`, which says
what `open` may rely on: `HostCtrl` by `ImplementsOpenCalls`, under a mapping in which a call is over
when it has written the register (the cache is only read by `open` itself then), `HciOpen` by `CallsAreOpenCalls`.

*Session.* `Transport` with a client. The host sends a command when none is
outstanding; `cmd` goes from "sending" to "sent" when `send` returns 0, unless the answer
has come before. The RX thread takes a `net_buf` without waiting (D:971): it has one if
`nb_free > 0`. A report keeps its `net_buf` until the host is done with it; that of an answer comes back at
once, because the host handles command complete events in the call of `recv`. It
starts where `open` has returned 0 (`SInit`).

*Payloads.* A character is `<<j, d>>`, digit d of byte j of the field, or one of NUL, space, dot,
and "never set". `Written` is `snprintf`: it stops where the room does and ends with a NUL, over
which the loop then puts a space (L:107). `bt_data_parse` is external: it takes fields while one is there as
a whole.

*Scanner.* The log is part of the state (`reports`), for what is promised is about its lines.

*Logger.* Each statement of a shell command that touches shared state is an
action. The RP2040 runs Zephyr on one core: the shell is preemptible; the
callback (Bluetooth receive work queue) and the timer's work (system work queue)
are cooperative and run through, unless the callback blocks on the mutex, and
then it goes on as soon as the shell unlocks. `memcpy` of `g_target` is two
steps; nothing but a half-written target may be compared wrongly. The shell runs from the
beginning, `main` is in `bt_enable` meanwhile (`MainEnable`), and each of its two calls
may fail (`radio = "failed"`).

## Runs

| Run | Checks | Shows |
|---|---|---|
| `h2b_ring` | `WritesFreeSpace`, `PublishNeverAliases`, `ImplementsPacketStream` | the word-by-word ring refines `PacketStream!Spec`: no packet lost, torn, repeated or reordered, under every interleaving and with any access failing |
| `host_ctrl` | `SwRdyKept`, `WakeStaysSettled`, `LoneCallIsAtomic`, `ImplementsOpenCalls` | what the unlocked operations do guarantee: two of the bits, one-step behaviour of a call that no other overlaps, and so of both calls of `open` |
| `b2h_ring` | `ImplementsPacketStream` (lossy), `KeepsReading` | packets with honest headers come out whole and in order or are dropped; none stays for good once the bus works, nor a header that states more than the ring holds |
| `b2h_stray` | `NoBufferLeak`, `CopyInBounds`, `OutNeverPassesIn` | the same with headers that lie: no overrun, no index that passes the other, no lost buffer |
| `b2h_wedge` (violated) | `TooLongIsDropped` | the length that is exactly the ring's size wedges the RX thread |
| `transport` | `NoLostDoorbell`, `AwakeUnlessRaced`, `SendReturns`, `SendGoesForward`, `TakenUnlessRaced` | as long as no two register operations overlap and no bus error ends one, or a `send`, each packet is noticed and taken, and the BT core is awake for it; `send` always returns, each of its steps bringing it nearer, whatever else happens |
| `transport_doorbell` (violated) | `PublishedIsTaken` | two overlapping toggles are one edge or none: a packet is never noticed |
| `open` | `OpenTypeOK`, `LoadedSoFar`, `OthersKept`, `WholeUnlessCut`, `WellFormedLoads`, `LiveOnlyWhenReady`, `HandsOver`, `OpenReturns`, `OpenGoesForward` | `open` as a whole with the driver's own sizes, for the built-in patch and for small blobs, any step failing: the image, the state in which the rings and the register are handed over, and that `open` comes to an end, each step bringing it nearer; also that the patch is as long, and has as many records, as it says (`BlobAssumption`) |
| `hci_session` | `STypeOK`, `CommandNotForgotten`, `AnswersAreAwaited`, `AnsweredUnlessLost` | a command that was sent, or its answer, is somewhere unless the answer is known to be lost; no answer comes unasked or twice: there is at most one on its way for the command outstanding, and one for each command whose `send` failed after the packet may have been in the ring; a command hangs only if its doorbell or its answer was lost |
| `ble_logger` | `LogsOnlyChosen`, `ListsOnlyInDiscovery`, `StartIsNotLost`, `EndIsScheduled`, `ScanStartsRadio`, `EndsUnlessDisturbed` | the logger under every interleaving of its contexts; `StartIsNotLost` and `EndIsScheduled` are why the two liveness properties hold |
| `ad_fields` | `HexInBounds`, `PrintsTheData`, `FirstNameTaken` | fields of any type and of lengths around each limit, in payloads cut anywhere |
| `ble_scanner` | `OnceIfInTable` | as long as there is room each device has one line, and after that those in the table still have one |

`OpenTypeOK` includes the type invariant of `FwDownload`, `STypeOK` those of `Transport` and
`HostCtrl`. Those of the rings and of the logger are proved (`TypeCorrect`) and in no run. In the
samples' models a value of a wrong type would show in the properties.

### Bounds

- `h2b_ring`: a ring of 8 words; packets of 2, 3 and 7 words and one too large. 2
  and 3 against 8 make every alignment at the end of the ring come up, 7 fills it.
- `b2h_ring`, `b2h_stray`: a ring of 6 words, a local buffer of 3, one `net_buf`; a
  packet for each branch of `ring_read` and of the dispatch. Stray lengths: 0, one
  that fits the buffer, one that does not, one that takes exactly the ring's size, and
  one above it. `b2h_wedge` takes a ring of 4 words.
- `host_ctrl`: both threads, any number of calls (the state space is finite as it
  is).
- `transport`: one packet each way at a time, rings of 4 words, two polls of
  `BT_CTRL`, any number of bus errors. Calls go on for ever; more packets would only repeat what the rings'
  own runs show.
- `open`: the driver's sizes (4-byte words, 512-byte transfers, 4 KB windows, 3 write attempts)
  and the built-in patch record by record; 2 polls instead of 300. The small blob `Good` has all three address modes, records that begin
  and end inside words, that overlap an earlier one and that cross a window; the others have
  each kind of bad record. `Good` may be cut: in the preamble, in front of a record, inside one. Of the memory
  the words at both ends of each record are looked at: inside a record all bytes are written
  alike, and no byte depends on another one's value. Which of the words of a transfer arrive is
  chosen among these. A block never reaches 512 bytes, in the
  model as in the code, so that the only cut of a transfer is that at a window.
- `hci_session`: rings that hold one packet, so that with the one in the RX thread's buffer
  two events are on their way; one `net_buf`; two polls; `MaxErrors` = 2 failing accesses (the
  polls of `BT_CTRL` apart, which may fail at any time), so that two commands in a row can be given up
  and answered all the same. Commands go on for ever.
- `ad_fields`: see `MCAdFields` for the lengths; they are around 0, 1, the name's array, and the 40 bytes of a
  hex line, and the payloads end in front of, inside and behind each field. The payload of
  `samples/ble_advertiser` is among them.
- `ble_scanner`: five devices, a table of three (128 in the code), at most six lines of the log.
- `ble_logger`: three devices, a table of two, numbers 0 to 3. The third address
  shares one half with each of the others, so that a torn target can match it.

### Fairness

- `B2HRing`: weak fairness of the RX thread (it waits for nothing but the bus and a
  1 ms sleep), and `<>[][~BusFail]_vars`: from some time on the bus works. With a
  bus that fails for ever nothing can be read. The BT core and the stack are under
  no fairness.
- `Transport`: weak fairness of a `send` that was called, of the RX thread, and of
  the BT core waking when asked and looking when notified, which is what D:634 and
  D:68 assume of it. Nothing makes the stack send, or the BT core sleep or speak.
- `HciOpen`: weak fairness of `open`'s own steps; none of the BT core's.
- `HciSession`: weak fairness of `send` once it was called, of the RX thread, of the host freeing a report
  it was given, and of the BT core waking, looking and taking a command; strong fairness of
  its answer, for its own reports may take the room in the ring again and again but not for ever. Nothing
  makes the host send a command or the BT core report.
- `BleLogger`: weak fairness of a command that was typed, of a woken callback, of
  `main` and of the timer. None of the user or of the radio.

## Where the code and its comments part

Two runs show a violation:

- **Lost doorbell** (`transport_doorbell`, D:825). `toggle_intr` reads the cache, writes the
  register over a bus that blocks, and mirrors. If the RX thread toggles between, both write
  the same level: one edge for two notifications. If `send` toggles while the RX thread is between
  the register and the cache, its toggle is no edge at all: `send` returns 0 and the packet
  waits until something else rings. A lock around the three steps would do.
- **Wedged reader** (`b2h_wedge`, D:877). `rounded_len > BTSDIO_FWBUF_SIZE` should be `>=`, or the
  test against `max_len` should come before the one against `available`: a packet of
  exactly the ring's size can never be available, so `ring_read` says -EAGAIN for ever.

The others are in the properties that hold, as the exception each of them makes. Take the
exception away, and TLC shows how it comes about:

- **WAKE_BT taken back** (D:1177; `AwakeUnlessRaced` without `~raced`). The race of the doorbell around the first
  `send`, while the cache does not have `WAKE_BT` yet; the comment at D:1149 has the BT core
  "woken before each write". `WakeStaysSettled` (proved) shows that it cannot happen any more once the bit is everywhere.
- **Dropped answer** (D:984; `AnsweredUnlessLost` without `lost`). `bt_buf_get_rx(..., K_NO_WAIT)` gives command
  complete events and advertising reports the same buffers. While the host is slow with
  reports, an answer is logged as "no RX buffer" and gone, with no race at all. Apart from bus
  errors this and the lost doorbell are the only two ways for a command to stay
  unanswered: the logger's remark that completions are lost in a scan (L:195-198) has two
  possible causes in the driver.
- **Cut firmware** (D:441; `WholeUnlessCut` without `remaining < 4`). The loop ends with success whatever the reason.
  The record count is read and logged only (D:429); comparing it would do. The patch that is built in
  is whole.
- **`ble log` with a wrong number** (L:247; `EndsUnlessDisturbed` without `bad_log`) cancels the timer before it looks at
  the number: a discovery of "10 s" (L:289) goes on for good.
- **Full table** (S:49; `OnceIfInTable` says which devices). `record_new` is true each time for a device that it has
  no room for, where the comment (S:32) has "each device is logged once".
- **Empty field** (L:100; `PrintsTheData` without `data_len > 0`). `hex` has no initial value; a field of length 0 is
  printed from it.
- **A start that fails** (L:316; `ScanStartsRadio` has "failed" in it) is final, although each `ble scan` goes on
  saying "Scanning".

And three are differences of order or wording that need no run: `open` waits for `BT_AWAKE`
without having set `WAKE_BT` (D:1115), which is step 10 of `src/docs/bt_bringup.md`; it makes the
power-up write before the download (D:433), which is step 6 there, after the patch; and `ble stop`
leaves the radio on (L:280), as the comment inside it says and those at L:56 and L:200 do not.

## Proofs

Everything in the `_proofs` modules holds for every value of the constants under the
named assumptions of the modules. The ring's size is a multiple of 4 and at least 8 (4096
in the code), `PayloadLen` is any function into the naturals, `NoPacket` is no packet;
`HostCtrl` has any subset of the two threads. In `HciOpen` the blobs are any sequences of records, of a file
no longer than they are, the sizes of words, transfers, windows and the buffer any positive
numbers, and there is at least one probe and one turn of each polling loop. `HciSession` has any number of `net_buf`s and of bus errors.
TLC evaluates these assumptions for the values of each run.

Each inductive invariant was first checked by TLC on the instance of its run.

- `Btsdio_proofs`: `CircCount`, `CircSpace` and the split, in terms of `Advance(o, n)`, the
  offset n bytes further round. These lemmas carry all the modular arithmetic. Then `Whole`:
  each word of a sequence belongs to a packet that is all there. It stays so when a packet is
  added (`WholePut`) and when the words in front of any header are taken away (`WholeFrom`), and
  what is in front of the second header is one packet (`WholeFirst`). `Between` is what lies
  between two indices, with what becomes of it when either moves (`BetweenPut`, `BetweenTake`).
- `H2BRing_proofs`: `TypeCorrect`, `HostWritesFreeSpace`, `PublishIsExact`. None of the
  invariants is inductive: that a word goes to free space follows from the snapshot
  having had room, and that the ring has only become emptier since. `IInv` adds this
  (`SnapshotHolds`), how far the copy has come (`Progressed`), and that the BT core reads
  no further than `h2b_in` (`BtBehind`), without which its move of `h2b_out` could be anything.
  One lemma per group of actions, then `Spec => []IInv`.
  `RingIsPacketStream` is the refinement: `Spec => Promise!Spec`. For it `SInv` has the content
  too: between the indices there are whole packets, the BT core has read the first words of them
  in order, and what `ring_write` has put beyond `h2b_in` is the beginning of its packet, all
  of it when `h2b_in` is moved. So moving `h2b_in` is `Put`, the BT core's move of `h2b_out` is
  `Get`, and all other steps stutter.
- `B2HRing_proofs`: `TypeCorrect`, `CopiesInBounds`, `NoBufferLeaks`, `OutStaysBehindIn`, for
  any table of true lengths beside the stated ones, and any local buffer of whole words. The
  invariant adds that the snapshot shows no more than the ring holds (`SnapshotHolds`: only the
  BT core moves `b2h_in`, forwards, and only this thread moves `b2h_out`), what the tests of
  the header leave for each way on (`HeaderTested`), and where the copy stands (`Copied`).
  `RingIsPacketStream` is `Spec => Promise!LossySpec`, under `TrueOrInvalid`: each header states
  the length of its packet, or more than the ring can hold. Without that it is false, as the driver
  cannot know better. `SInv` adds that the words the snapshot shows end where a packet does
  (`SeenWhole`), that the length in hand is that of the packet at the front and the copy so far its
  words (`FrontInHand`), and that from the release on it is one whole packet (`HandWhole`). The
  lemma `StepOfStream` has one case per kind of step: `recv` is `Get`, every other way to let go
  of a packet, in the ring or in hand, is `LoseOldest`.
- `HostCtrl_proofs`: `SwRdyIsKept`, `LoneCallsAreAtomic`, `LoneTogglesAreEdges`,
  `WakeIsStable`. The invariant says what each `phase` has established and what a call
  that is alone has in hand: its `value` is what its operation makes of the
  cache, which stays as it was until the call is over, and once it is written the register holds that value.
  `OpenCallsAreAtomic` is the refinement, `Spec => Promise!Spec`: the write of the register is the step
  of `OpenCalls`, reading the cache before it and telling the cache after it are none. It needs that nobody
  else has a call under way before `running` (`OneAtATimeDuringOpen`) and which operation is due in which phase
  (`OpenCallIsDue`).
- `HciSession_proofs`, on `Transport`: `TypeCorrect`, `DoorbellNotLost`, `AwakeForThePacket`, and
  `ImplementsHostCtrl`: each step of the transport is a step of `HostCtrl` or leaves the register
  alone. So the invariant of `HostCtrl_proofs` is instantiated and carried along, and the proof
  here only has to tie the calls to where the threads are (`CallsMatch`) and say what holds until
  two calls overlap: each call is alone (`CallsAreAlone`), the cache is right between calls
  (`CacheInStep`), and `WAKE_BT` is everywhere while `send` polls and writes (`WakeHolds`). The last is why the
  BT core cannot go back to sleep between the poll and the write. `SendIsOnItsWay` is the safety half of
  `SendReturns`: `TxLeft`, at most `Retries + 6`, becomes less with each step of `send`, and no other step
  changes it while `send` runs.
- `HciSession_proofs`, on the session: `SessionTypeCorrect`, `NoCommandForgotten`, `EachAnswerIsAwaited`,
  and `TransportInSession`, which carries over what is proved of the transport. Its steps are
  steps of `Transport` (`SessionStep`), so `SInv` has that module's invariant as a conjunct. It adds
  where the host believes its command to be (`CommandMatches`), that a command or its answer is
  somewhere from the write of `h2b_in` on, and not only from the return of `send`, for
  the answer may be quicker (`SomewhereUnlessLost`), and that besides it there is no more on its way than
  commands whose `send` failed too late (`NothingExtra`). That counts packets, by the words
  they begin at (`Heads`): a packet that is put into a ring is one more (`HeadsPutCount`), when one leaves
  the others move up and none is added (`HeadsLeaveCount`).
- `HciOpen_proofs`: `OpenTypeCorrect`, `MemoryIsLoaded`, `OtherBytesKept`, `LoadedWhole`,
  `RingsReadyWhenLive`, `OpenRings`, and `DownloadInvariant` for the download by itself. `DInv` says that the
  block being written holds, at every byte, what the image *with* this record asks for
  (`BlockInv`: its own bytes, and those read back around it); that the bytes verified are in the memory
  (`VerifyInv`); and that all bytes outside the block are as the image before says (`OthersKept`). So an
  attempt that had no effect, or only part of it, can only be between the two images. That a window never
  cuts a transfer badly is arithmetic with symbolic sizes (`Chunk`, `Reached`). That the parser
  stays in the blob is no guard of the code: it follows from the bytes left being no more than the
  records left take (`ParseInv`). `OInv` adds the order of the steps of `open`.
  `WellFormedIsLoaded` is about blobs in order, the built-in one among them: `WellInv` has the bytes left
  *equal* to those of the records left, so that each record passes the tests of the parser, and
  the record it ends at is the first that says so (`CountedIs`, `CountedIsHere`).
  `OpenRings` is what `open` hands over: an edge has been seen, and cache and register agree, although the
  register held anything at first. `CallsOfOpen` ties its two calls to `OpenCalls`.
  `OpenIsOnItsWay` and `RanksRunOut` are the safety half of `OpenReturns`. `Rank` has seven parts: the stages of
  `open`, the turns of the loop it is in, the stages of the download, the records left, the attempts left at
  one, its two passes, the bytes left of a pass. Each step of `open` lowers the first part that it changes, and
  there is no infinite descent in that order. `LeftInv` says that no pass is beyond its end, and one that is under way
  has bytes left, and `ChunkIsNotEmpty` that each transfer moves at least a byte. What is left to TLC
  is only that a step of `open` is always enabled.

- `BleLogger_proofs`: `TypeCorrect`, `LoggedIsChosen`, `ListedInDiscovery`, `RadioIsStarted`, `EndStaysScheduled`.
  The invariant says that a command has cancelled the timer's work from its first step to its last
  (`WorkIsCancelled`), and that a callback which waits for the mutex has tested `g_state` and the
  work cannot have run since (`WaitsInDiscovery`): a discovery does not end under it.
  `RadioIsStarted` and `EndStaysScheduled` say why the two liveness properties hold.
- `Samples_proofs`: `HexStaysInBounds`, `DataPrinted`, `FirstNameIsTaken`, for any payloads cut anywhere
  and any sizes of the two arrays that leave room for the text of `MaxBytes` bytes. `AInv` says that
  what is left of a payload is what is behind the fields parsed (`Parsed`), so that `bt_data_parse` goes on
  exactly while the next field is there as a whole (`WholeIs`); that the array holds the text of the bytes
  printed so far and `pos` is 3 for each of them (`HexSoFar`), which is what keeps `sizeof(hex) - pos`
  from wrapping; and that no field parsed so far was a name, or the last one was (`NameSoFar`).
  `ReportedOnce` is about the scanner: the first lines of its log are the table, and no later line is about
  a device in it (`ScanInv`).

What is said of every record of a blob or field of a payload, where a proof would use induction, is proved by a least
counterexample (`UpTo`, from the well-foundedness of the naturals): that the sums of the lengths
exist and grow (`BytesBeforeIs`, `BytesOfIs`), and that the three address variables give what the last address
record asks for (`BaseStated`, `SameBase`).

Only model-checked is liveness (`KeepsReading`, `SendReturns`, `TakenUnlessRaced`, `OpenReturns`,
`AnsweredUnlessLost`, `ScanStartsRadio`, `EndsUnlessDisturbed`), for fairness and ENABLED are out of the
prover's reach. Of `SendReturns`,
`OpenReturns` and the logger's two the safety that they rest on is proved, see above. That the built-in patch is
well-formed is a fact about 35 records that TLC evaluates (`BlobAssumption`).

## Assumptions about what is outside

The WHD bus, the BT core and Zephyr are external. The BT core writes only its own indices, does not
read past `h2b_in` nor write past `b2h_out`, hands back space when it has read a packet.
One thread at a time calls `send` (the TX processor of the Zephyr host). A failed bus
write may or may not have been made; a bus read is either right or reported failed.
A transfer that crossed a window would wrap in it. The RX thread is preemptible
(D:88) and each bus access may block, so that any other thread may run between two steps.

## Not modelled

- Advertiser: its `main` makes two calls and returns; only its payload is in a model.
- Blinky, CLI, scripts, Kconfig and device tree: no state to speak of.
- Payload bytes, the wording of the log, RSSI, the uptime in the logger's lines.
- What the Bluetooth host does when a command is not answered (it times out and asserts).
- Memory reuse of the RX thread's stack should `open` be called twice: `bt_disable` is
  not supported by the driver (it has no `close`).

## Plan

Done: `Btsdio`, `PacketStream`, `OpenCalls`, `H2BRing`, `B2HRing`, `HostCtrl`, `BleLogger`, `Transport`,
`HciSession`, `FwDownload`, `HciOpen`, `AdFields` and `BleScanner` (with their proofs), `Blob43439`.
Every part of the C code with state of its own is modelled, and every invariant, action property
and refinement that a run checks has its theorem.

Next: nothing that a proof can reach is left of the plan; the liveness properties stay with TLC.
