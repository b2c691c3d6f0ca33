----------------------------- MODULE MCInboundReceipt -----------------------------
(***********************************************************************************)
(* InboundReceipt for TLC.  No symmetry: a run of it checks liveness.              *)
(***********************************************************************************)
EXTENDS InboundReceipt
===================================================================================
