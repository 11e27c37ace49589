------------------------------- MODULE Scaler -------------------------------
(***************************************************************************)
(* The scaling of one function's deployment to the calls in flight: the    *)
(* two counters of calls, the goal that calls raise, and the goroutine     *)
(* that brings the deployment to the goal and takes it back step by step   *)
(* (gate/balancer.go, scaler.go, k8sDepScale of k8s.go).                   *)
(*                                                                         *)
(* A step is one operation on shared memory, one stretch under fdm.lock,   *)
(* or one call of Kubernetes.  A goroutine in condWaitTmo may go on at any *)
(* time: a Signal, the timer and the late Signal of an earlier timer all   *)
(* do the same.                                                            *)
(***************************************************************************)
EXTENDS Integers, FiniteSets

CONSTANTS
    ScCalls,        \* goroutines that call the function
    MaxReplicas,  \* conf.Runtime.MaxReplicas
    Boot,         \* replicas of the deployment when the gate starts
    Wrap,         \* 2^32: the calls are counted in uint32
    MaxCalls,     \* bound on calls
    ScMaxFaults,    \* bound on failed calls of Kubernetes
    MaxStops      \* bound on removals of the deployment

ASSUME ScalerAssumption ==
    /\ IsFiniteSet(ScCalls)
    /\ MaxReplicas \in Nat /\ Boot \in 1..MaxReplicas
    /\ MaxCalls \in Nat /\ ScMaxFaults \in Nat /\ MaxStops \in Nat
    /\ Wrap \in Nat /\ MaxCalls + MaxReplicas < Wrap

VARIABLES
    rover,     \* BalancerDat.rover: calls begun, calls ended
    goal,      \* BalancerDat.goal
    wakeup,    \* BalancerDat.wakeup is not nil
    scpc, sc,    \* each call: where, its number or the goal it wants
    scaler,    \* where balancerFnScaler is; "none" when it does not run
    sgoal,     \* its goal: the replicas it takes the deployment to have
    sarg,      \* the replicas it asks for
    replicas,  \* the deployment's
    scdep,       \* the deployment exists
    removal,   \* where k8sRemove is
    peak,      \* history: the most calls ever counted in flight
    lost,      \* history: calls that panicked (see FnPods) and are never counted out
    scfaults, stops

callVars  == <<scpc, sc>>
scaleVars == <<scaler, sgoal, sarg>>
depVars   == <<replicas, scdep, removal>>
schistVars  == <<peak, lost, scfaults, stops>>
scalerVars == <<rover, goal, wakeup, callVars, scaleVars, depVars, schistVars>>

CallAt   == {"idle", "goal", "set", "pick", "run"}
ScalerAt == {"none", "up", "scale_up", "check", "relax", "step", "shrink", "scale_down", "down"}

ScalerTypeOK ==
    /\ rover \in [{0, 1} -> Nat] /\ goal \in Nat /\ wakeup \in BOOLEAN
    /\ scpc \in [ScCalls -> CallAt] /\ sc \in [ScCalls -> Nat]
    /\ scaler \in ScalerAt /\ sgoal \in Nat /\ sarg \in Nat
    /\ replicas \in Nat /\ scdep \in BOOLEAN /\ removal \in {"no", "shrink", "delete"}
    /\ peak \in Nat /\ lost \in Nat
    /\ scfaults \in 0..ScMaxFaults /\ stops \in 0..MaxStops

\* a gate that has just started: scalerInit when it finds more than one replica
ScalerInit ==
    /\ rover = [i \in {0, 1} |-> 0]
    /\ scpc = [c \in ScCalls |-> "idle"] /\ sc = [c \in ScCalls |-> 0]
    /\ IF Boot > 1 THEN goal = Boot /\ wakeup = TRUE /\ scaler = "up"
                   ELSE goal = 0 /\ wakeup = FALSE /\ scaler = "none"
    /\ sgoal = 0 /\ sarg = 0
    /\ replicas = Boot /\ scdep = TRUE /\ removal = "no"
    /\ peak = 0 /\ lost = 0 /\ scfaults = 0 /\ stops = 0

-----------------------------------------------------------------------------
(* Calls: the end of balancerGetConnAny, and balancerPutConn.              *)

InFlight == {c \in ScCalls : scpc[c] # "idle"}

ScGoto(c, l) == scpc' = [scpc EXCEPT ![c] = l]

\* the atomic increment of rover[0]
CallRover(c) ==
    /\ scpc[c] = "idle" /\ rover[0] < MaxCalls
    /\ rover' = [rover EXCEPT ![0] = @ + 1]
    /\ sc' = [sc EXCEPT ![c] = rover[0] + 1]
    /\ peak' = IF rover[0] + 1 - rover[1] > peak THEN rover[0] + 1 - rover[1] ELSE peak
    /\ ScGoto(c, "goal")
    /\ UNCHANGED <<goal, wakeup, scaleVars, depVars, lost, scfaults, stops>>

\* the calls in flight as seen by this one, in uint32, and scalerSetGoal's look at
\* the goal without the lock
CallGoal(c) ==
    LET want == (sc[c] - rover[1]) % Wrap
    IN  /\ scpc[c] = "goal"
        /\ sc' = [sc EXCEPT ![c] = want]
        /\ ScGoto(c, IF want <= goal THEN "pick" ELSE "set")
        /\ UNCHANGED <<rover, goal, wakeup, scaleVars, depVars, schistVars>>

\* mutant: no upper limit, so that a wrapped count goes through
CallSet_Unlimited(c) ==
    /\ scpc[c] = "set"
    /\ goal' = IF sc[c] > goal THEN sc[c] ELSE goal
    /\ wakeup' = TRUE
    /\ scaler' = IF wakeup THEN scaler ELSE "up"
    /\ ScGoto(c, "pick")
    /\ UNCHANGED <<rover, sc, sgoal, sarg, depVars, schistVars>>

\* scalerSetGoal under the lock: too much is refused, more starts or wakes the scaler
CallSet(c) ==
    /\ scpc[c] = "set"
    /\ \/ (sc[c] <= goal \/ sc[c] > MaxReplicas) /\ UNCHANGED <<goal, wakeup, scaler>>
       \/ /\ sc[c] > goal /\ sc[c] <= MaxReplicas
          /\ goal' = sc[c]
          /\ wakeup' = TRUE
          /\ scaler' = IF wakeup THEN scaler ELSE "up"
    /\ ScGoto(c, "pick")
    /\ UNCHANGED <<rover, sc, sgoal, sarg, depVars, schistVars>>

\* a pod of the list is called, unless the list is empty, which panics before
\* balancerPutConn is deferred
CallPick(c) ==
    /\ scpc[c] = "pick"
    /\ sc' = [sc EXCEPT ![c] = 0]
    /\ \/ ScGoto(c, "run") /\ UNCHANGED lost
       \/ ScGoto(c, "idle") /\ lost' = lost + 1
    /\ UNCHANGED <<rover, goal, wakeup, scaleVars, depVars, peak, scfaults, stops>>

\* the answer, or an error, and balancerPutConn
CallEnd(c) ==
    /\ scpc[c] = "run"
    /\ rover' = [rover EXCEPT ![1] = @ + 1]
    /\ ScGoto(c, "idle")
    /\ UNCHANGED <<goal, wakeup, sc, scaleVars, depVars, schistVars>>

-----------------------------------------------------------------------------
(* balancerFnScaler.                                                       *)

\* where it goes on; its variables go with it
ScalerTo(l) == scaler' = l /\ sgoal' = IF l = "none" THEN 0 ELSE sgoal

Ok    == UNCHANGED scfaults
ScFault == scfaults < ScMaxFaults /\ scfaults' = scfaults + 1

\* k8sDepScale's argument is the goal of the moment, read without the lock
ScalerAsk(from, to) ==
    /\ scaler = from
    /\ sarg' = goal
    /\ scaler' = to
    /\ UNCHANGED <<rover, goal, wakeup, callVars, sgoal, depVars, schistVars>>

ScalerUp   == ScalerAsk("up", "scale_up")
ScalerDown == ScalerAsk("shrink", "scale_down")

\* k8sDepScale: the deployment gets the replicas, or has enough; an error, or no
\* deployment, is taken for success
K8sDepScale(from, to, enough) ==
    /\ scaler = from
    /\ \/ scdep /\ enough /\ sgoal' = replicas /\ UNCHANGED replicas /\ Ok
       \/ scdep /\ ~enough /\ sgoal' = sarg /\ replicas' = sarg /\ Ok
       \/ ~scdep /\ sgoal' = sarg /\ UNCHANGED replicas /\ Ok
       \/ scdep /\ sgoal' = sarg /\ UNCHANGED replicas /\ ScFault
    /\ scaler' = to /\ sarg' = 0
    /\ UNCHANGED <<rover, goal, wakeup, callVars, scdep, removal, peak, lost, stops>>

ScaleUp   == K8sDepScale("scale_up", "check", replicas >= sarg)
ScaleDown == K8sDepScale("scale_down", "down", replicas <= sarg)

\* after scaling up, under the lock
ScalerCheck ==
    /\ scaler = "check"
    /\ ScalerTo(IF goal = 0 THEN "none" ELSE IF goal > sgoal THEN "up" ELSE "relax")
    /\ UNCHANGED <<rover, goal, wakeup, callVars, sarg, depVars, schistVars>>

\* the label down: woken after the relax time, or back from scaling down
ScalerLower ==
    /\ scaler \in {"relax", "down"}
    /\ \/ goal <= 1 /\ wakeup' = FALSE /\ ScalerTo("none") /\ UNCHANGED goal
       \/ goal > sgoal /\ goal > 1 /\ ScalerTo("up") /\ UNCHANGED <<goal, wakeup>>
       \/ goal <= sgoal /\ goal > 1 /\ goal' = goal - 1 /\ ScalerTo("step") /\ UNCHANGED wakeup
    /\ UNCHANGED <<rover, callVars, sarg, depVars, schistVars>>

\* mutant: the goal compared the wrong way round
ScalerStep_Relaxes ==
    /\ scaler = "step"
    /\ ScalerTo(CASE goal = 0 -> "none" [] goal <= sgoal /\ goal # 0 -> "relax" [] OTHER -> "up")
    /\ UNCHANGED <<rover, goal, wakeup, callVars, sarg, depVars, schistVars>>

\* woken after the scale-down step
ScalerStep ==
    /\ scaler = "step"
    /\ ScalerTo(CASE goal = 0 -> "none" [] goal = sgoal /\ goal # 0 -> "relax"
                  [] goal > sgoal -> "up" [] OTHER -> "shrink")
    /\ UNCHANGED <<rover, goal, wakeup, callVars, sarg, depVars, schistVars>>

-----------------------------------------------------------------------------
(* The function is deactivated (k8sRemove) and activated again (k8sRun);   *)
(* its memory data stay.                                                   *)

\* BalancerDelete: scalerStop
RemoveBegin ==
    /\ removal = "no" /\ scdep /\ stops < MaxStops
    /\ stops' = stops + 1
    /\ goal' = IF wakeup THEN 0 ELSE goal
    /\ removal' = "shrink"
    /\ UNCHANGED <<rover, wakeup, callVars, scaleVars, replicas, scdep, peak, lost, scfaults>>

\* the deployment is got, and updated to no replicas; an error ends the removal
RemoveShrink ==
    /\ removal = "shrink"
    /\ \/ Ok /\ replicas' = 0 /\ removal' = "delete"
       \/ ScFault /\ UNCHANGED replicas /\ removal' = "no"
    /\ UNCHANGED <<rover, goal, wakeup, callVars, scaleVars, scdep, peak, lost, stops>>

RemoveDelete ==
    /\ removal = "delete"
    /\ removal' = "no"
    /\ \/ Ok /\ replicas' = 0 /\ scdep' = FALSE
       \/ ScFault /\ UNCHANGED <<replicas, scdep>>
    /\ UNCHANGED <<rover, goal, wakeup, callVars, scaleVars, peak, lost, stops>>

\* k8sRun makes the deployment anew with fn.Size.Replicas, which is 1
Redeploy ==
    /\ ~scdep
    /\ replicas' = 1 /\ scdep' = TRUE
    /\ UNCHANGED <<rover, goal, wakeup, callVars, scaleVars, removal, schistVars>>

-----------------------------------------------------------------------------
CallStep(c) == CallGoal(c) \/ CallSet(c) \/ CallPick(c)
ScalerMove ==
    ScalerUp \/ ScaleUp \/ ScalerCheck \/ ScalerLower \/ ScalerStep \/ ScalerDown \/ ScaleDown
RemoveStep == RemoveShrink \/ RemoveDelete

ScalerNext ==
    \/ \E c \in ScCalls : CallRover(c) \/ CallStep(c) \/ CallEnd(c)
    \/ ScalerMove
    \/ RemoveBegin \/ RemoveStep \/ Redeploy

ScalerSpec == ScalerInit /\ [][ScalerNext]_scalerVars

\* goroutines go on: the scaler's waits end, the longest with its timer; a function
\* may run as long as it likes
ScalerFairSpec ==
    /\ ScalerSpec
    /\ WF_scalerVars(ScalerMove) /\ WF_scalerVars(RemoveStep)
    /\ \A c \in ScCalls : WF_scalerVars(CallStep(c))

-----------------------------------------------------------------------------
(* balancerGetConnAny and balancerPutConn: what the counters differ by is  *)
(* the calls that run, and those that panicked.                            *)
CountsMatch == rover[0] = rover[1] + Cardinality(InFlight) + lost

(* scalerSetGoal: the goal never exceeds what the gate found deployed or   *)
(* the most calls that were ever in flight together, although a call reads *)
(* the two counters one after the other and their difference may wrap, and *)
(* it never exceeds conf.Runtime.MaxReplicas.                              *)
GoalFollowsLoad == goal <= MaxReplicas /\ (goal <= peak \/ goal <= Boot)

(* scalerSetGoal starts a scaler when wakeup is nil: then none runs.       *)
OneScaler == ~wakeup => scaler = "none"

(* scaler.go and balancer.go together: the counters tell the calls in      *)
(* flight, the goal is the load they tell, and one scaler serves it.       *)
ScalerSound == CountsMatch /\ GoalFollowsLoad /\ OneScaler

(* balancerFnScaler: a goal that was set is reached, while no call of      *)
(* Kubernetes fails and the deployment is not removed.                     *)
GoalReached ==
    \A g \in 1..MaxReplicas :
        goal >= g ~> (replicas >= g \/ scfaults > 0 \/ stops > 0)

(* balancerFnScaler: after the load the scaler ends, also when the         *)
(* deployment is removed meanwhile; without that and without failures the  *)
(* deployment has shrunk to one replica by then.                           *)
ScalesDown == <>[](scaler = "none" /\ (replicas <= 1 \/ scfaults > 0 \/ stops > 0))

(* docs/sysctls.txt: "if the load still requires big nr of replicas, no    *)
(* actual scale-down happens".                                             *)
NoShrinkUnderLoad ==
    [][scaler = "scale_down" => replicas' = replicas \/ replicas' >= Cardinality(InFlight)]_scalerVars
=============================================================================
