---------------------------- MODULE MCHciSession ----------------------------
(***************************************************************************)
(* HciSession for TLC: packets of 2 words, rings that hold one of them (4  *)
(* words, one of which stays free), so that with the one in the RX thread's*)
(* buffer two events are on their way, and one net_buf.                    *)
(***************************************************************************)
EXTENDS HciSession, TLC

MCTx == {"command"}
MCRx == {"complete", "report"}
MCTxLen == "command" :> 3
MCRxLen == "complete" :> 3 @@ "report" :> 3
=============================================================================
