----------------------------- MODULE MCAccountLockout -----------------------------
(***********************************************************************************)
(* AccountLockout for TLC.  No symmetry: a run of it checks liveness.              *)
(***********************************************************************************)
EXTENDS AccountLockout
===================================================================================
