------------------------------- MODULE MCDeployment --------------------------------
(***********************************************************************************)
(* Instances of Deployment for TLC.                                                *)
(***********************************************************************************)
EXTENDS Deployment, TLC

CONSTANTS up1, up2, down, admin, seed, server

MCRole == (up1 :> "upgrade") @@ (up2 :> "upgrade") @@ (down :> "downgrade")
    @@ (admin :> "create_admin") @@ (seed :> "seed_demo") @@ (server :> "serve")

MCMistakes ==
    [p \in Process |-> IF p = server THEN {"environment", "database_url"} \X {"misspelt", "missing"} ELSE {}]
===================================================================================
