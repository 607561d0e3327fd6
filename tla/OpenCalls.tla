----------------------------- MODULE OpenCalls ------------------------------
(***************************************************************************)
(* What open may rely on when it calls set_host_ready and toggle_intr,     *)
(* whatever HOST_CTRL_REG holds at first: each call is one step.  It finds *)
(* the cache as the last call left it, and it either leaves register and   *)
(* cache with the same value, or fails with the cache as it was.           *)
(*                                                                         *)
(* Nothing is said of the register once open has returned 0: other threads *)
(* call then.                                                              *)
(***************************************************************************)
CONSTANT Bits

VARIABLES
  reg,      \* HOST_CTRL_REG
  cache,    \* host_ctrl_cache
  at        \* how far open has come

cVars == <<reg, cache, at>>

Init ==
  /\ at = "host_ready"
  /\ reg \in SUBSET Bits
  /\ cache = {}

(* A call of open that makes v of the value in the cache. *)
Succeeds(next, v) == reg' = v /\ cache' = v /\ at' = next
Fails(v) == reg' \in {reg, v} /\ UNCHANGED cache /\ at' = "failed"
Call(next, v) == Succeeds(next, v) \/ Fails(v)

SetHostReady ==
  at = "host_ready" /\ Call("first_toggle", cache \cup {"SW_RDY"})

ToggleIntr ==
  /\ at = "first_toggle"
  /\ LET dv == {"DATA_VALID"}
     IN  Call("running", (cache \ dv) \cup (dv \ cache))

Others == at = "running" /\ UNCHANGED at

Spec == Init /\ [][SetHostReady \/ ToggleIntr \/ Others]_cVars
=============================================================================
