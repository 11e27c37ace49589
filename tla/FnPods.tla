------------------------------- MODULE FnPods -------------------------------
(***************************************************************************)
(* The pods of one function in the gate: the store that pod events fill    *)
(* and empty, and the list of pods the function's memory data caches for   *)
(* its calls (gate/pods.go, balancer.go, the pod events of k8s.go).        *)
(*                                                                         *)
(* A step is one operation on shared memory.  Slices are read and written  *)
(* whole, and a call may be given any pod of its list.                     *)
(***************************************************************************)
EXTENDS Integers, FiniteSets

CONSTANTS
    Pods,      \* pods Kubernetes ever starts for the function
    Stores,    \* fnPods structures ever made, numbered
    PodCallers,     \* goroutines that call the function
    NoStore        \* no structure, no pod

ASSUME PodsAssumption ==
    /\ NoStore \notin Pods /\ NoStore \notin Stores
    /\ IsFiniteSet(Pods) /\ IsFiniteSet(Stores) /\ Stores \subseteq Nat
    /\ Cardinality(Stores) > Cardinality(Pods)   \* each pod goes down once

VARIABLES
    store,     \* fnPodsStore's entry of the function
    pods,      \* fnPods.pods of each structure
    dead,      \* the structures marked dead
    cache,     \* BalancerDat.pods
    kpod,      \* what Kubernetes last told of each pod
    waiter,    \* the goroutine k8sPodUp starts for each pod
    wfnp,      \* the structure it has loaded
    loop,      \* podEventLoop: the pod it takes down, where, its structure
    ppc, fnp, list,   \* each call: where, its structure, its list
    late       \* history: the cached list was not the store's any more when cached

podVars   == <<store, pods, dead>>
eventVars == <<kpod, waiter, wfnp, loop>>
cacheVars == <<cache, late>>
pcallVars  == <<ppc, fnp, list>>
podsVars == <<podVars, cacheVars, eventVars, pcallVars>>

PodAt  == {"no", "port", "load", "store", "lock", "flush", "added"}
LoopAt == {"idle", "load", "lock", "flush"}
PodCallAt == {"idle", "find", "list", "fill", "reread", "pick"}

PodsTypeOK ==
    /\ store \in Stores \cup {NoStore} /\ pods \in [Stores -> SUBSET Pods] /\ dead \subseteq Stores
    /\ cache \subseteq Pods
    /\ kpod \in [Pods -> {"new", "up", "down"}]
    /\ waiter \in [Pods -> PodAt] /\ wfnp \in [Pods -> Stores \cup {NoStore}]
    /\ loop \in [at : LoopAt, pod : Pods \cup {NoStore}, fnp : Stores \cup {NoStore}]
    /\ ppc \in [PodCallers -> PodCallAt] /\ fnp \in [PodCallers -> Stores \cup {NoStore}]
    /\ list \in [PodCallers -> SUBSET Pods]
    /\ late \in BOOLEAN
    \* no lock of a structure is taken through a nil pointer
    /\ \A p \in Pods : waiter[p] = "lock" => wfnp[p] # NoStore
    /\ loop.at # "idle" => loop.pod # NoStore
    /\ loop.at = "lock" => loop.fnp # NoStore
    /\ \A c \in PodCallers : ppc[c] = "list" => fnp[c] # NoStore

\* a gate that has just started
PodsInit ==
    /\ store = NoStore /\ pods = [x \in Stores |-> {}] /\ dead = {}
    /\ cache = {}
    /\ kpod = [p \in Pods |-> "new"]
    /\ waiter = [p \in Pods |-> "no"] /\ wfnp = [p \in Pods |-> NoStore]
    /\ loop = [at |-> "idle", pod |-> NoStore, fnp |-> NoStore]
    /\ ppc = [c \in PodCallers |-> "idle"] /\ fnp = [c \in PodCallers |-> NoStore]
    /\ list = [c \in PodCallers |-> {}]
    /\ late = FALSE

-----------------------------------------------------------------------------
(* Pod events.  podEventLoop is one goroutine; k8sPodUp starts another one *)
(* that waits for the pod's port and adds it.                              *)

\* the pods the store has of the function
Known == IF store = NoStore THEN {} ELSE pods[store]

\* BalancerDat.Flush
FlushCache == cache' = {} /\ late' = FALSE

PodUp(p) ==
    /\ loop.at = "idle" /\ kpod[p] = "new"
    /\ kpod' = [kpod EXCEPT ![p] = "up"]
    /\ waiter' = [waiter EXCEPT ![p] = "port"]
    /\ UNCHANGED <<podVars, cacheVars, wfnp, loop, pcallVars>>

\* waitPodPort: the port answers while the pod is there, or not for too long
PodPort(p) ==
    /\ waiter[p] = "port"
    /\ \/ kpod[p] = "up" /\ waiter' = [waiter EXCEPT ![p] = "load"]
       \/ waiter' = [waiter EXCEPT ![p] = "no"]
    /\ UNCHANGED <<podVars, cacheVars, kpod, wfnp, loop, pcallVars>>

\* podsAdd: Load
AddLoad(p) ==
    /\ waiter[p] = "load"
    /\ waiter' = [waiter EXCEPT ![p] = IF store = NoStore THEN "store" ELSE "lock"]
    /\ wfnp' = [wfnp EXCEPT ![p] = store]
    /\ UNCHANGED <<podVars, cacheVars, kpod, loop, pcallVars>>

\* podsAdd: LoadOrStore of a structure that nobody has seen
AddStore(p) ==
    /\ waiter[p] = "store"
    /\ \E x \in Stores :
          /\ IF store = NoStore THEN x \notin dead /\ \A y \in Stores \ dead : x <= y
                                ELSE x = store
          /\ store' = x
          /\ wfnp' = [wfnp EXCEPT ![p] = x]
    /\ waiter' = [waiter EXCEPT ![p] = "lock"]
    /\ UNCHANGED <<pods, dead, cacheVars, kpod, loop, pcallVars>>

\* mutant: the structure may be one that podsDel has taken out of the store
AddLock_IgnoresDead(p) ==
    /\ waiter[p] = "lock"
    /\ pods' = [pods EXCEPT ![wfnp[p]] = @ \cup {p}]
    /\ waiter' = [waiter EXCEPT ![p] = "flush"]
    /\ UNCHANGED <<store, dead, cacheVars, kpod, wfnp, loop, pcallVars>>

\* podsAdd under the structure's lock: once more if it has died
AddLock(p) ==
    /\ waiter[p] = "lock"
    /\ \/ /\ wfnp[p] \in dead
          /\ waiter' = [waiter EXCEPT ![p] = "load"] /\ UNCHANGED pods
       \/ /\ wfnp[p] \notin dead
          /\ waiter' = [waiter EXCEPT ![p] = "flush"]
          /\ pods' = [pods EXCEPT ![wfnp[p]] = @ \cup {p}]
    /\ UNCHANGED <<store, dead, cacheVars, kpod, wfnp, loop, pcallVars>>

\* mutant: calls go on with the list they have
AddFlush_Forgets(p) ==
    /\ waiter[p] = "flush"
    /\ waiter' = [waiter EXCEPT ![p] = "added"] /\ wfnp' = [wfnp EXCEPT ![p] = NoStore]
    /\ UNCHANGED <<podVars, cacheVars, kpod, loop, pcallVars>>

\* balancerPodsFlush
AddFlush(p) ==
    /\ waiter[p] = "flush"
    /\ FlushCache
    /\ waiter' = [waiter EXCEPT ![p] = "added"] /\ wfnp' = [wfnp EXCEPT ![p] = NoStore]
    /\ UNCHANGED <<podVars, kpod, loop, pcallVars>>

\* k8sPodDown begins
PodDown(p) ==
    /\ loop.at = "idle" /\ kpod[p] = "up"
    /\ kpod' = [kpod EXCEPT ![p] = "down"]
    /\ loop' = [at |-> "load", pod |-> p, fnp |-> NoStore]
    /\ UNCHANGED <<podVars, cacheVars, waiter, wfnp, pcallVars>>

\* podsDel: findFnPods
DelLoad ==
    /\ loop.at = "load"
    /\ loop' = [loop EXCEPT !.at = IF store = NoStore THEN "flush" ELSE "lock", !.fnp = store]
    /\ UNCHANGED <<podVars, cacheVars, kpod, waiter, wfnp, pcallVars>>

\* mutant: the empty structure stays in the store
DelLock_KeepsStore ==
    LET x    == loop.fnp
        rest == pods[x] \ {loop.pod}
    IN  /\ loop.at = "lock"
        /\ pods' = [pods EXCEPT ![x] = rest]
        /\ IF rest = {} THEN dead' = dead \cup {x} ELSE UNCHANGED dead
        /\ loop' = [loop EXCEPT !.at = "flush"]
        /\ UNCHANGED <<store, cacheVars, kpod, waiter, wfnp, pcallVars>>

\* podsDel under the structure's lock; an empty structure leaves the store
DelLock ==
    LET x    == loop.fnp
        rest == pods[x] \ {loop.pod}
    IN  /\ loop.at = "lock"
        /\ pods' = [pods EXCEPT ![x] = rest]
        /\ IF rest = {} THEN dead' = dead \cup {x} /\ store' = NoStore ELSE UNCHANGED <<dead, store>>
        /\ loop' = [loop EXCEPT !.at = "flush"]
        /\ UNCHANGED <<cacheVars, kpod, waiter, wfnp, pcallVars>>

DelFlush ==
    /\ loop.at = "flush"
    /\ FlushCache
    /\ loop' = [at |-> "idle", pod |-> NoStore, fnp |-> NoStore]
    /\ UNCHANGED <<podVars, kpod, waiter, wfnp, pcallVars>>

-----------------------------------------------------------------------------
(* Calls: balancerGetConnAny.                                              *)

Locked == \E c \in PodCallers : ppc[c] = "reread"    \* a call inside its use of fdm.lock

PodsGoto(c, l) == ppc' = [ppc EXCEPT ![c] = l]

\* the cached list, if there is one
CallBegin(c) ==
    /\ ppc[c] = "idle"
    /\ list' = [list EXCEPT ![c] = cache]
    /\ PodsGoto(c, IF cache = {} THEN "find" ELSE "pick")
    /\ UNCHANGED <<podVars, cacheVars, eventVars, fnp>>

\* podsFindAll: findFnPods, and "No available PODs" without a structure
CallFind(c) ==
    /\ ppc[c] = "find"
    /\ fnp' = [fnp EXCEPT ![c] = store]
    /\ PodsGoto(c, IF store = NoStore THEN "idle" ELSE "list")
    /\ UNCHANGED <<podVars, cacheVars, eventVars, list>>

\* podsFindAll under the structure's lock; the list may be empty
CallList(c) ==
    /\ ppc[c] = "list"
    /\ list' = [list EXCEPT ![c] = pods[fnp[c]]]
    /\ PodsGoto(c, "fill")
    /\ UNCHANGED <<podVars, cacheVars, eventVars, fnp>>

\* under fdm.lock, which no flush takes: the list is cached unless another one was
CallFill(c) ==
    /\ ppc[c] = "fill" /\ ~Locked
    /\ \/ cache = {} /\ cache' = list[c] /\ late' = (list[c] # Known) /\ PodsGoto(c, "pick")
       \/ cache # {} /\ UNCHANGED cacheVars /\ PodsGoto(c, "reread")
    /\ UNCHANGED <<podVars, eventVars, fnp, list>>

CallReread(c) ==
    /\ ppc[c] = "reread"
    /\ list' = [list EXCEPT ![c] = cache]
    /\ PodsGoto(c, "pick")
    /\ UNCHANGED <<podVars, cacheVars, eventVars, fnp>>

\* aps[sc % len(aps)]: an empty list panics
CallChoose(c) ==
    /\ ppc[c] = "pick"
    /\ PodsGoto(c, "idle")
    /\ fnp' = [fnp EXCEPT ![c] = NoStore] /\ list' = [list EXCEPT ![c] = {}]
    /\ UNCHANGED <<podVars, cacheVars, eventVars>>

\* BalancerDelete's flush, when the deployment is removed
Flush ==
    /\ cache # {}
    /\ FlushCache
    /\ UNCHANGED <<podVars, eventVars, pcallVars>>

-----------------------------------------------------------------------------
PodStep(p) ==
    PodUp(p) \/ PodPort(p) \/ AddLoad(p) \/ AddStore(p) \/ AddLock(p) \/ AddFlush(p) \/ PodDown(p)
LoopStep == DelLoad \/ DelLock \/ DelFlush
PodsCallStep(c) ==
    CallBegin(c) \/ CallFind(c) \/ CallList(c) \/ CallFill(c) \/ CallReread(c) \/ CallChoose(c)

PodsNext ==
    \/ \E p \in Pods : PodStep(p)
    \/ LoopStep
    \/ \E c \in PodCallers : PodsCallStep(c)
    \/ Flush

PodsSpec == PodsInit /\ [][PodsNext]_podsVars

\* goroutines go on, and so does the event loop; pods need not come or go
PodsFairSpec ==
    /\ PodsSpec
    /\ WF_podsVars(LoopStep)
    /\ \A p \in Pods : WF_podsVars(PodPort(p) \/ AddLoad(p) \/ AddStore(p) \/ AddLock(p) \/ AddFlush(p))

-----------------------------------------------------------------------------
(* podsAdd and podsDel: a pod that was added and is up is in the structure *)
(* calls find, although podsDel may drop that structure between the time   *)
(* podsAdd loads it and locks it.                                          *)
PodsFound ==
    \A p \in Pods : waiter[p] \in {"flush", "added"} /\ kpod[p] = "up"
                       => store # NoStore /\ p \in pods[store]

(* podsAdd: a pod whose port answered is added to a structure that is not  *)
(* dead: the retries end.                                                  *)
AddEnds == \A p \in Pods : waiter[p] = "load" ~> waiter[p] = "added"

(* podsDel's comment, "All PODs are gone, we may kill the whole thing": a  *)
(* structure that left the store is empty and stays so.                    *)
DeadIsEmpty == \A x \in dead : pods[x] = {} /\ x # store

(* BalancerPodAdd and BalancerPodDel change the store first and flush the *)
(* list after: the list calls go on with is the store's, but for the pods  *)
(* whose flush is still to come, and unless a call read the store before a *)
(* change and cached what it had read after the flush.                     *)
CacheFollowsStore ==
    cache # {} /\ ~late =>
        /\ \A p \in cache \ Known : loop.at = "flush" /\ loop.pod = p
        /\ \A p \in Known \ cache : waiter[p] = "flush"

(* balancerGetConnAny, "No available PODs": a call that finds no pod is    *)
(* told so, and does not take one of an empty list.                        *)
NoPanic == \A c \in PodCallers : ppc[c] = "pick" => list[c] # {}
=============================================================================
