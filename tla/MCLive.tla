------------------------------- MODULE MCLive -------------------------------
(* What must happen in the end, for TLC: functions that start, pods that   *)
(* are added, the scaler, uploads, pulls of a repository, calls at the     *)
(* watchdog, waits, and the quota of a database.  They share no state: a   *)
(* behaviour is one of one of them, the others stand still.  Each has the  *)
(* fairness of its own module.                                             *)
EXTENDS FnLife, FnPods, Scaler, S3Upload, Repos, Wdog, XWait, DbQuota

VARIABLE part

Three == 1..3
\* two commits, and the file differs between them
TwoCommits == <<11, 12>>

fnAll   == <<fnVars, podsVars, scalerVars>>
workAll == <<upVars, rpVars>>
nodeAll == <<wdVars, xwVars, dqVars>>
liveVars == <<fnAll, workAll, nodeAll, part>>

LiveInit ==
    /\ part \in {"function", "pods", "scaler", "upload", "repos", "wdog", "wait", "quota"}
    /\ FnInit /\ PodsInit /\ ScalerInit /\ UpInit /\ RpInit /\ WdInit /\ XwInit /\ DqInit

LiveNext ==
    \/ part = "function" /\ FnNext /\ UNCHANGED <<podsVars, scalerVars, workAll, nodeAll, part>>
    \/ part = "pods"     /\ PodsNext /\ UNCHANGED <<fnVars, scalerVars, workAll, nodeAll, part>>
    \/ part = "scaler"   /\ ScalerNext /\ UNCHANGED <<fnVars, podsVars, workAll, nodeAll, part>>
    \/ part = "upload"   /\ UpNext /\ UNCHANGED <<fnAll, rpVars, nodeAll, part>>
    \/ part = "repos"    /\ RpNext /\ UNCHANGED <<fnAll, upVars, nodeAll, part>>
    \/ part = "wdog"     /\ WdNext /\ UNCHANGED <<fnAll, workAll, xwVars, dqVars, part>>
    \/ part = "wait"     /\ XwNext /\ UNCHANGED <<fnAll, workAll, wdVars, dqVars, part>>
    \/ part = "quota"    /\ DqNext /\ UNCHANGED <<fnAll, workAll, wdVars, xwVars, part>>

\* The fairness of each module, for the part that moves
FnFair ==
    /\ \A w \in FnWorkers : WF_fnVars(part = "function" /\ FnStep(w))
    /\ \A p \in DepPods :
          /\ WF_fnVars(part = "function" /\ PodStart(p)) /\ WF_fnVars(part = "function" /\ PortOpen(p))
          /\ WF_fnVars(part = "function" /\ PodAdd(p))
          /\ WF_fnVars(part = "function" /\ NotifyFind(p)) /\ WF_fnVars(part = "function" /\ NotifySet(p))
PodsFair ==
    /\ WF_podsVars(part = "pods" /\ LoopStep)
    /\ \A p \in Pods : WF_podsVars(part = "pods" /\ (PodPort(p) \/ AddLoad(p) \/ AddStore(p)
                                                     \/ AddLock(p) \/ AddFlush(p)))
ScalerFair ==
    /\ WF_scalerVars(part = "scaler" /\ ScalerMove) /\ WF_scalerVars(part = "scaler" /\ RemoveStep)
    /\ \A c \in ScCalls : WF_scalerVars(part = "scaler" /\ CallStep(c))
WorkFair ==
    /\ \A w \in Workers : WF_upVars(part = "upload" /\ Step(w))
    /\ WF_rpVars(part = "repos" /\ RpPullStep)
    /\ WF_rpVars(part = "repos" /\ \E s \in {"clone", "pull"} : Scrape(s))
NodeFair ==
    /\ \A c \in WdCalls : WF_wdVars(part = "wdog" /\ WdServe(c))
    /\ WF_wdVars(part = "wdog" /\ WdRespond)
    /\ WF_wdVars(part = "wdog" /\ \E k \in WdConns : ProxyWatch(k))
    /\ \A w \in XwWaiters : WF_xwVars(part = "wait" /\ XwStep(w))
    /\ WF_dqVars(part = "quota" /\ (DqScan \/ DqScanAsk))
    /\ WF_dqVars(part = "quota" /\ (DqStat \/ DqGone \/ DqSet))

LiveSpec ==
    /\ LiveInit /\ [][LiveNext]_liveVars
    /\ FnFair /\ PodsFair /\ ScalerFair /\ WorkFair /\ NodeFair

\* Calls get the replicas they ask for, and after them the deployment shrinks again:
\* balancerFnScaler loses no goal raised while it scales, and ends.
LoadSettles == GoalReached /\ (part = "scaler" => ScalesDown)

\* Nobody waits for ever beside the functions: a call at the watchdog is answered
\* (handleRun), a Wait returns (xwait.go), whoever asked for a pull is told (repo.go
\* pullSync), a database that came under its quota is unlocked (mgo/quota.go).
WaitsEnd == CallAnswered /\ XwReturns /\ PullAnswered /\ QuotaUnlocks
=============================================================================
