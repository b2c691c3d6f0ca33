-------------------------------- MODULE MCBrowser --------------------------------
(***********************************************************************************)
(* Instances of Browser for TLC.                                                   *)
(***********************************************************************************)
EXTENDS Browser

\* More than are ever held at once by the jar, two pages and two responses.
MCNonce == 1..6
===================================================================================
