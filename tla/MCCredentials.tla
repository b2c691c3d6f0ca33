------------------------------- MODULE MCCredentials -------------------------------
(***********************************************************************************)
(* Instances of Credentials small enough for TLC.                                  *)
(***********************************************************************************)
EXTENDS Credentials, TLC

Interchangeable == Permutations(Request) \cup Permutations(Process)
===================================================================================
