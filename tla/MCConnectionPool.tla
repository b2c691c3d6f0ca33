----------------------------- MODULE MCConnectionPool -----------------------------
(***********************************************************************************)
(* Instances of ConnectionPool for TLC.                                            *)
(***********************************************************************************)
EXTENDS ConnectionPool

\* The longest way through a request, which may also end early, and the shortest.
MCKinds == {[limited |-> TRUE, announces |-> TRUE], [limited |-> FALSE, announces |-> FALSE]}
===================================================================================
