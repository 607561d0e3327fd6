---------------------------- MODULE MCTransport -----------------------------
(***************************************************************************)
(* Transport for TLC: one command and one event of 2 words each, rings     *)
(* that hold one of them (4 words, one of which stays free).               *)
(***************************************************************************)
EXTENDS Transport, TLC

CONSTANTS cmd, evt

MCTx == {cmd}
MCRx == {evt}
MCTxLen == cmd :> 3
MCRxLen == evt :> 3
=============================================================================
