------------------------------- MODULE MCGate -------------------------------
(* What the gate's API keeps, for TLC: deployments of several items,       *)
(* repositories, accounts, packages, middleware and web sockets.  They     *)
(* share no state: a behaviour is one of one of them, the others stand     *)
(* still.                                                                  *)
EXTENDS Deploy, Repos, Accounts, Packages, Mware, WebSock, TLC

CONSTANTS w1, w2, i1, i2, d1, d2, m1, f1, f2, r1

VARIABLE part

\* d1 is middleware, a function and a router, d2 a function of the same name
MCDpItems == (d1 :> <<<<m1>>, <<f1>>, <<r1>>>>) @@ (d2 :> <<<<>>, <<f1>>, <<>>>>)
\* two commits, and the file differs between them
MCRpContent == <<11, 12>>

\* goroutines are alike in every part, and so are the ids of accounts and middleware
Symmetry == Permutations({w1, w2}) \cup Permutations({i1, i2})

gateVars == <<dpVars, rpVars, acVars, pkVars, mwVars, wsVars, part>>

GateInit ==
    /\ part \in {"deploy", "repos", "accounts", "packages", "mware", "websock"}
    /\ DpInit /\ RpInit /\ AcInit /\ PkInit /\ MwInit /\ WsInit

GateNext ==
    \/ part = "deploy"   /\ DpNext /\ UNCHANGED <<rpVars, acVars, pkVars, mwVars, wsVars, part>>
    \/ part = "repos"    /\ RpNext /\ UNCHANGED <<dpVars, acVars, pkVars, mwVars, wsVars, part>>
    \/ part = "accounts" /\ AcNext /\ UNCHANGED <<dpVars, rpVars, pkVars, mwVars, wsVars, part>>
    \/ part = "packages" /\ PkNext /\ UNCHANGED <<dpVars, rpVars, acVars, mwVars, wsVars, part>>
    \/ part = "mware"    /\ MwNext /\ UNCHANGED <<dpVars, rpVars, acVars, pkVars, wsVars, part>>
    \/ part = "websock"  /\ WsNext /\ UNCHANGED <<dpVars, rpVars, acVars, pkVars, mwVars, part>>

GateSpec == GateInit /\ [][GateNext]_gateVars

\* The variables of every part have their types (deploy.go, repo.go, accounts.go,
\* packages.go, mware.go, mw-websocket.go).
GateTypeOK == DpTypeOK /\ RpTypeOK /\ AcTypeOK /\ PkTypeOK /\ MwTypeOK /\ WsTypeOK

\* A middleware's server, secret and record agree, and for a web socket the list of
\* its clients and the clients (mware.go, mw-websocket.go).
MiddlewareSound == MwareSound /\ WebSockSound
=============================================================================
