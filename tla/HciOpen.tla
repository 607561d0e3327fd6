------------------------------ MODULE HciOpen -------------------------------
(***************************************************************************)
(* cyw43_bt_open: the sequence that brings the transport up, with every    *)
(* step that can fail failing, and the BT core booting, publishing its RAM *)
(* base, sleeping and waking at its own pace.  The firmware download in it *)
(* is module FwDownload.                                                   *)
(*                                                                         *)
(* There is no other thread before open starts the RX thread, so that a    *)
(* read-modify-write of HOST_CTRL_REG is one step here (HostCtrl shows     *)
(* that a call that nothing overlaps behaves like one).                    *)
(***************************************************************************)
EXTENDS FwDownload

CONSTANTS
  Probes,       \* the steps up to whd_bus_bt_attach, in order
  PollRetries   \* BTSDIO_FW_READY_RETRIES, BTSDIO_BT_AWAKE_RETRIES and the
                \* 300 of init_buffers

ASSUME OpenAssumption ==
  /\ Probes \in Seq({"whd_driver", "share_bt_init", "bt_driver", "bt_info",
                     "BT_CTRL_REG", "BT_BUF_REG", "HOST_CTRL_REG", "bt_attach"})
  /\ Probes # <<>>
  /\ PollRetries \in Nat \ {0}

VARIABLES
  open_pc,
  open_ret,         \* what open returns
  probe,            \* Probes done
  polls,            \* turns of the polling loop that open is in
  written,          \* index registers that init_buffers is done with
  write_ret,        \* `ret' of init_buffers: has one of the writes failed?
  host_ctrl, host_ctrl_cache,
  zeroed,           \* index registers that are zero
  fw_rdy,           \* FW_RDY in BT_CTRL_REG
  bt_awake,         \* BT_AWAKE in BT_CTRL_REG
  base_published,   \* WLAN_RAM_BASE_REG is not 0
  bt_live,          \* the BT core has begun to use the rings
  edge              \* DATA_VALID has changed and SW_RDY was set

loopVars == <<probe, polls, written, write_ret>>
regVars == <<host_ctrl, host_ctrl_cache, edge>>
btVars == <<fw_rdy, bt_awake, base_published, bt_live>>
vars == <<dlVars, open_pc, open_ret, loopVars, regVars, zeroed, btVars>>

Bits == {"DATA_VALID", "WAKE_BT", "SW_RDY"}
Indices == <<"h2b_in", "h2b_out", "b2h_in", "b2h_out">>

-----------------------------------------------------------------------------
OpenInit ==
  /\ Init
  /\ open_pc = "probe" /\ open_ret = "none"
  /\ probe = 0 /\ polls = 0 /\ written = 0 /\ write_ret = "ok"
  /\ host_ctrl \in SUBSET Bits
  /\ host_ctrl_cache = {}
  /\ zeroed = {}
  /\ bt_awake \in BOOLEAN
  /\ fw_rdy = FALSE /\ base_published = FALSE /\ bt_live = FALSE /\ edge = FALSE

Fail(e) == open_pc' = "failed" /\ open_ret' = e
GoOn(pc) == open_pc' = pc /\ UNCHANGED open_ret

(* Getting the driver handles, sharing the bus, the reads that log the     *)
(* registers, and attaching. *)
Probe ==
  /\ open_pc = "probe"
  /\ \/ /\ probe' = probe + 1
        /\ GoOn(IF probe' = Len(Probes) THEN "download" ELSE "probe")
     \/ /\ Fail(IF Probes[probe + 1] = "whd_driver" THEN "ENODEV" ELSE "EIO")
        /\ UNCHANGED probe
  /\ UNCHANGED <<dlVars, polls, written, write_ret, regVars, zeroed, btVars>>

Download ==
  /\ open_pc = "download"
  /\ DlNext
  /\ UNCHANGED <<open_pc, open_ret, loopVars, regVars, zeroed, btVars>>

Downloaded ==
  /\ open_pc = "download"
  /\ dl_pc = "done"
  /\ IF dl_ret = "ok" THEN GoOn("wait_ready") ELSE Fail(dl_ret)
  /\ UNCHANGED <<dlVars, loopVars, regVars, zeroed, btVars>>

(* A mutant: one turn too many. *)
TurnsPlusOne == PollRetries + 1

Turns == PollRetries

(* One turn of the polling loop at pc.  It has seen what it waits for, or  *)
(* it has missed it and tries again, PollRetries times in all.             *)
Poll(pc, next, seen, missed, e) ==
  /\ open_pc = pc
  /\ \/ seen /\ polls' = 0 /\ GoOn(next)
     \/ missed /\ polls + 1 < Turns /\ polls' = polls + 1 /\ GoOn(pc)
     \/ missed /\ polls + 1 = Turns /\ polls' = 0 /\ Fail(e)
  /\ UNCHANGED <<dlVars, probe, written, write_ret, regVars, zeroed, btVars>>

(* A read that fails counts as "not ready", here and in WaitAwake ... *)
WaitReady == Poll("wait_ready", "read_base", fw_rdy, TRUE, "ETIMEDOUT")

(* ... but ends this loop. *)
ReadBase == Poll("read_base", "zero", base_published, ~base_published, "EIO")

ReadBaseFail ==
  /\ open_pc = "read_base"
  /\ polls' = 0
  /\ Fail("EIO")
  /\ UNCHANGED <<dlVars, probe, written, write_ret, regVars, zeroed, btVars>>

(* A mutant: the result of the last write is all that counts. *)
WriteRetLast(ok) == write_ret' = IF ok THEN "ok" ELSE "EIO"

(* ret |= ... *)
WriteRet(ok) == write_ret' = IF ok THEN write_ret ELSE "EIO"

(* One of the four index writes.  After a failure the others follow. *)
ZeroIndex ==
  /\ open_pc = "zero"
  /\ written < 4
  /\ written' = written + 1
  /\ \/ zeroed' = zeroed \cup {Indices[written + 1]} /\ WriteRet(TRUE)
     \/ zeroed' \in {zeroed, zeroed \cup {Indices[written + 1]}} /\ WriteRet(FALSE)
  /\ UNCHANGED <<dlVars, open_pc, open_ret, probe, polls, regVars, btVars>>

Zeroed ==
  /\ open_pc = "zero"
  /\ written = 4
  /\ IF write_ret = "ok" THEN GoOn("wait_awake") ELSE Fail("EIO")
  /\ UNCHANGED <<dlVars, loopVars, regVars, zeroed, btVars>>

(* Nothing has set WAKE_BT. *)
WaitAwake == Poll("wait_awake", "host_ready", bt_awake, TRUE, "ETIMEDOUT")

(* HOST_CTRL_REG takes v. *)
Register(v) ==
  /\ host_ctrl' = v
  /\ edge' = \/ edge
             \/ "SW_RDY" \in v /\ ("DATA_VALID" \in v) # ("DATA_VALID" \in host_ctrl)

(* A call that computes v from the cache: it succeeds, or it fails, with   *)
(* or without an effect. *)
HostCtrlCall(pc, next, v) ==
  /\ open_pc = pc
  /\ \/ Register(v) /\ host_ctrl_cache' = v /\ GoOn(next)
     \/ /\ Register(v) \/ UNCHANGED <<host_ctrl, edge>>
        /\ UNCHANGED host_ctrl_cache
        /\ Fail("EIO")
  /\ UNCHANGED <<dlVars, loopVars, zeroed, btVars>>

SetHostReady ==
  HostCtrlCall("host_ready", "toggle", host_ctrl_cache \cup {"SW_RDY"})

(* A mutant: the bit is cleared, not toggled. *)
Cleared(v) == v \ {"DATA_VALID"}

Toggled(v) == (v \ {"DATA_VALID"}) \cup ({"DATA_VALID"} \ v)

ToggleIntr == HostCtrlCall("toggle", "running", Toggled(host_ctrl_cache))

-----------------------------------------------------------------------------
(* The BT core (external): it boots what was loaded, says so, publishes    *)
(* its base, sleeps when WAKE_BT is clear, and uses the rings once the     *)
(* host has said that it is ready and rung.                                *)
BtCore ==
  /\ \/ /\ ~fw_rdy /\ dl_ret = "ok"
        /\ fw_rdy' = TRUE
        /\ UNCHANGED <<bt_awake, base_published, bt_live>>
     \/ /\ fw_rdy /\ ~base_published
        /\ base_published' = TRUE
        /\ UNCHANGED <<fw_rdy, bt_awake, bt_live>>
     \/ /\ bt_awake => "WAKE_BT" \notin host_ctrl
        /\ bt_awake' = ~bt_awake
        /\ UNCHANGED <<fw_rdy, base_published, bt_live>>
     \/ /\ ~bt_live /\ edge /\ bt_awake
        /\ bt_live' = TRUE
        /\ UNCHANGED <<fw_rdy, bt_awake, base_published>>
  /\ UNCHANGED <<dlVars, open_pc, open_ret, loopVars, regVars, zeroed>>

OpenStep ==
  \/ Probe \/ Download \/ Downloaded
  \/ WaitReady \/ ReadBase \/ ReadBaseFail \/ ZeroIndex \/ Zeroed
  \/ WaitAwake \/ SetHostReady \/ ToggleIntr

OpenNext == OpenStep \/ BtCore

(* open runs in one thread that waits for nothing but bounded sleeps. *)
OpenSpec == OpenInit /\ [][OpenNext]_vars /\ WF_vars(OpenStep)

-----------------------------------------------------------------------------
OpenTypeOK ==
  /\ TypeOK
  /\ open_pc \in {"probe", "download", "wait_ready", "read_base", "zero",
                  "wait_awake", "host_ready", "toggle", "running", "failed"}
  /\ open_ret \in {"none", "ENODEV", "ENOENT", "EINVAL", "EIO", "ETIMEDOUT"}
  /\ probe \in 0 .. Len(Probes)
  /\ polls \in 0 .. PollRetries - 1
  /\ written \in 0 .. 4
  /\ write_ret \in {"ok", "EIO"}
  /\ host_ctrl \in SUBSET Bits
  /\ host_ctrl_cache \in SUBSET Bits
  /\ zeroed \subseteq {Indices[i] : i \in 1 .. 4}
  /\ {fw_rdy, bt_awake, base_published, bt_live, edge} \subseteq BOOLEAN

(* The BT core never uses rings that are not initialised: by the time the  *)
(* doorbell says that the host is ready the whole image is in its memory   *)
(* and all four indices are zero, although a failed index write does not   *)
(* stop the ones after it.                                                 *)
LiveOnlyWhenReady ==
  bt_live => /\ zeroed = {Indices[i] : i \in 1 .. 4}
             /\ dl_ret = "ok" /\ mem = Image(pos - 1)

(* What open hands over to send and the RX thread when it returns 0: the   *)
(* BT core has seen an edge of DATA_VALID since SW_RDY was set, and cache  *)
(* and register agree, whatever a former boot has left in the register.    *)
(* The calls go by a cache that says that it is clear.                     *)
HandsOver ==
  open_pc = "running" =>
    edge /\ host_ctrl_cache = host_ctrl /\ host_ctrl = {"SW_RDY", "DATA_VALID"}

(* open returns, whatever the bus and the BT core do. *)
OpenReturns == <>(open_pc \in {"running", "failed"})

(* There is no step of open, failed or not, that does not bring it nearer  *)
(* to its end: none of its loops, nor the retries inside them, can start   *)
(* over without one outside it having gone on.                             *)
StepsLeft ==
  CASE open_pc = "probe" -> 8
    [] open_pc = "download" -> 7
    [] open_pc = "wait_ready" -> 6
    [] open_pc = "read_base" -> 5
    [] open_pc = "zero" -> 4
    [] open_pc = "wait_awake" -> 3
    [] open_pc = "host_ready" -> 2
    [] open_pc = "toggle" -> 1
    [] OTHER -> 0

TurnsLeft ==
  CASE open_pc = "probe" -> Len(Probes) - probe
    [] open_pc \in {"wait_ready", "read_base", "wait_awake"} -> PollRetries - polls
    [] open_pc = "zero" -> 4 - written
    [] OTHER -> 0

Rank == <<StepsLeft, TurnsLeft>> \o DlRank

Lower(s, t) ==
  \E j \in 1 .. 7 : s[j] < t[j] /\ \A i \in 1 .. j - 1 : s[i] = t[i]

openVars == <<dlVars, open_pc, open_ret, loopVars, regVars, zeroed>>

OpenGoesForward == [][Lower(Rank', Rank)]_openVars

-----------------------------------------------------------------------------
(* To open its two calls are what OpenCalls says, and HostCtrl shows that  *)
(* three steps of the code amount to.                                      *)
Calls == INSTANCE OpenCalls WITH
  reg <- host_ctrl,
  cache <- host_ctrl_cache,
  at <- CASE open_pc = "toggle" -> "first_toggle"
          [] open_pc \in {"running", "failed"} -> open_pc
          [] OTHER -> "host_ready"

CallsAreOpenCalls == Calls!Spec
=============================================================================
