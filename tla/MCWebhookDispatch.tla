----------------------------- MODULE MCWebhookDispatch -----------------------------
(***********************************************************************************)
(* Instances of WebhookDispatch for TLC.                                           *)
(***********************************************************************************)
EXTENDS WebhookDispatch
===================================================================================
