----------------------------- MODULE OneAtATime -----------------------------
(***************************************************************************)
(* What a function's pod promises its callers: the function runs one call  *)
(* at a time and each call at most once, and a call that is answered gets  *)
(* the result of its own run.  Any call may fail at any time, and a run    *)
(* may be cut off.                                                         *)
(***************************************************************************)
CONSTANT OaCalls

VARIABLES
    oast,       \* each call: idle, waiting, done or failed
    oarun,      \* the call the function is running, at most one
    oastarted,  \* calls the function was given
    oaran       \* calls it returned from

oaVars == <<oast, oarun, oastarted, oaran>>

OaInit ==
    /\ oast = [c \in OaCalls |-> "idle"]
    /\ oarun = {} /\ oastarted = {} /\ oaran = {}

OaArrive(c) ==
    /\ oast[c] = "idle" /\ oast' = [oast EXCEPT ![c] = "waiting"]
    /\ UNCHANGED <<oarun, oastarted, oaran>>

OaStart(c) ==
    /\ oarun = {} /\ c \notin oastarted /\ oast[c] # "idle"
    /\ oarun' = {c} /\ oastarted' = oastarted \cup {c}
    /\ UNCHANGED <<oast, oaran>>

OaReturn ==
    /\ oarun # {} /\ oarun' = {} /\ oaran' = oaran \cup oarun
    /\ UNCHANGED <<oast, oastarted>>

OaCut ==
    /\ oarun # {} /\ oarun' = {} /\ UNCHANGED <<oast, oastarted, oaran>>

OaDone(c) ==
    /\ oast[c] = "waiting" /\ c \in oaran
    /\ oast' = [oast EXCEPT ![c] = "done"] /\ UNCHANGED <<oarun, oastarted, oaran>>

\* Several calls fail together, and their run with them, when a process dies.
OaFail(C, cut) ==
    /\ C # {} /\ \A c \in C : oast[c] = "waiting"
    /\ oast' = [c \in OaCalls |-> IF c \in C THEN "failed" ELSE oast[c]]
    /\ oarun' = IF cut THEN {} ELSE oarun
    /\ UNCHANGED <<oastarted, oaran>>

OaNext ==
    \/ \E c \in OaCalls : OaArrive(c) \/ OaStart(c) \/ OaDone(c)
    \/ OaReturn \/ OaCut
    \/ \E C \in SUBSET OaCalls, cut \in BOOLEAN : OaFail(C, cut)

OaSpec == OaInit /\ [][OaNext]_oaVars
=============================================================================
