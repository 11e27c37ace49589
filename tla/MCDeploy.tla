------------------------------ MODULE MCDeploy ------------------------------
(* Two deployments with a function of the same name, for TLC.              *)
EXTENDS Deploy, TLC

CONSTANTS d1, d2, m1, f1, r1

\* d1 is middleware, a function and a router, d2 a function of the same name
MCDpItems == (d1 :> <<<<m1>>, <<f1>>, <<r1>>>>) @@ (d2 :> <<<<>>, <<f1>>, <<>>>>)
=============================================================================
