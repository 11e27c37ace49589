------------------------------- MODULE MCCalls ------------------------------
(* What a call of a function goes through, for TLC: pods and balancer,     *)
(* scaler, rate limiters, statistics, triggers and routers.  Their state   *)
(* is separate: a behaviour is one of one of them, the others stand still. *)
EXTENDS FnPods, Scaler, RateLimit, CallStats, Triggers, Routers, TLC

CONSTANTS a1, a2, b1, b2

VARIABLE part

\* the limiters of a function, its tenant and the gate
AllBurst == <<2, 2, 1>>
AllEps   == <<2, 2, 1>>
Three    == 1..3

\* a1 and a2 are goroutines or calls, b1 and b2 callers or triggers, alike in every
\* part
Symmetry == Permutations({a1, a2}) \cup Permutations({b1, b2})

callsVars == <<podsVars, scalerVars, rlVars, csVars, tgVars, rtVars, part>>

CallsInit ==
    /\ part \in {"pods", "scaler", "rate", "stats", "triggers", "routers"}
    /\ PodsInit /\ ScalerInit /\ RlInit /\ CsInit /\ TgInit /\ RtInit

CallsNext ==
    \/ part = "pods"     /\ PodsNext   /\ UNCHANGED <<scalerVars, rlVars, csVars, tgVars, rtVars, part>>
    \/ part = "scaler"   /\ ScalerNext /\ UNCHANGED <<podsVars, rlVars, csVars, tgVars, rtVars, part>>
    \/ part = "rate"     /\ RlNext     /\ UNCHANGED <<podsVars, scalerVars, csVars, tgVars, rtVars, part>>
    \/ part = "stats"    /\ CsNext     /\ UNCHANGED <<podsVars, scalerVars, rlVars, tgVars, rtVars, part>>
    \/ part = "triggers" /\ TgNext     /\ UNCHANGED <<podsVars, scalerVars, rlVars, csVars, rtVars, part>>
    \/ part = "routers"  /\ RtNext     /\ UNCHANGED <<podsVars, scalerVars, rlVars, csVars, tgVars, part>>

CallsSpec == CallsInit /\ [][CallsNext]_callsVars

\* The variables of every part have their types: no structure of pods is locked
\* through a nil pointer, no count goes below zero, no listener is stopped that was
\* not started (pods.go, scaler.go, ratelimit, stats.go, event.go, router.go).
CallsTypeOK ==
    PodsTypeOK /\ ScalerTypeOK /\ RlTypeOK /\ CsTypeOK /\ TgTypeOK /\ RtTypeOK
=============================================================================
