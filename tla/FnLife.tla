------------------------------- MODULE FnLife -------------------------------
(***************************************************************************)
(* The life of one function of the gate: its database record, its sources  *)
(* on disk, its Kubernetes deployment, the pods that come up for it and    *)
(* the goroutines that notice them (gate/function.go, src.go, k8s.go).     *)
(*                                                                         *)
(* A request reads the record into a copy of its own (loc) and works from  *)
(* that copy: a step is one operation on the database, on the disk or on   *)
(* Kubernetes, and other requests, pod events, errors and restarts of the  *)
(* gate come in between.  Database, disk, build and Kubernetes errors are  *)
(* faults.  The function may be removed and added again under its name.    *)
(***************************************************************************)
EXTENDS Integers, FiniteSets

CONSTANTS
    FnWorkers,      \* goroutines that serve requests
    Pushers,      \* the ones that may push new sources
    Togglers,     \* the ones that may activate and deactivate
    Attachers,    \* the ones that may attach or detach middleware and accounts
    Deleters,     \* the ones that may remove the function
    Refreshers,   \* the ones the administrator's k8s_refresh may run on
    DepPods,         \* pods: the bound on pods ever started
    Atts,         \* middleware, accounts and buckets to attach
    MaxAdds,      \* bound on times the function is added
    MaxReqs,      \* bound on the other requests
    FnMaxFaults,    \* bound on failing operations
    MaxKills,     \* bound on pods Kubernetes kills for reasons of its own
    FnMaxRestarts   \* bound on restarts of the gate

ASSUME FnAssumption ==
    /\ Pushers \cup Togglers \cup Attachers \cup Deleters \cup Refreshers \subseteq FnWorkers
    /\ {MaxAdds, MaxReqs, FnMaxFaults, MaxKills, FnMaxRestarts} \subseteq Nat

VARIABLES
    fstate,    \* FunctionDesc.State; "none" when there is no record
    fid,       \* FunctionDesc.ObjID: the number of the record
    fver,      \* FunctionDesc.Src.Version
    fatts,     \* FunctionDesc.Mware, Accounts and S3Buckets
    srcs,      \* versions whose source directory is in place
    fdep,       \* the deployment: resourceVersion (0 when absent), version, attachments, replicas
    fngen,       \* the last resourceVersion used
    pod,       \* each pod: whether it runs and what it was started from
    reg,       \* fnPods.pods: the pods the balancer knows
    fwaiter,    \* k8sPodUp's goroutine for each pod: where it is and the record it found
    fpc, loc,   \* each request: where it is and its copy of the record
    gate,      \* "up", "boot" while k8sInit runs, "down" after it failed, "dead" after Fatalf
    saved,     \* Add or a push has saved the present record's sources
    terminated,\* a removal was accepted for the present record
    raced,     \* two requests that start or stop the deployment ever overlapped, a
               \* deactivation failed and its state could not be taken back, or the
               \* gate died in one
    reqs, fnfaults, kills, fnrestarts

recVars  == <<fstate, fid, fver, fatts, saved, terminated, raced>>
fdepVars  == <<fdep, fngen>>
fpodVars  == <<pod, reg, fwaiter>>
fnVars == <<recVars, srcs, fdepVars, fpodVars, fpc, loc, gate, reqs, fnfaults, kills, fnrestarts>>

States   == {"none", "Ini", "Str", "Rdy", "Trm", "Stl", "Dea"}
Versions == 0..MaxReqs
Ops      == {"none", "add", "push", "attach", "del", "deact", "act", "soft", "hard"}
FnLabels   == {"idle", "add_put", "add_save", "add_unput", "add_remove", "build", "create",
             "to_stalled", "to_dea", "to_rdy", "push_put", "push_save", "push_gc",
             "attach_save", "upd_get", "upd_put", "del_state", "rm_get", "rm_shrink",
             "rm_delete", "del_clean", "del_srcs", "del_remove", "deact_state", "act_state",
             "ref_get"}
Deps     == [gen : Nat, ver : Versions, atts : SUBSET Atts, up : BOOLEAN]
Copies   == [op : Ops, id : 0..MaxAdds, st : States, ver : Versions, old : Versions,
             atts : SUBSET Atts, gen : Nat]

NoDep    == [gen |-> 0, ver |-> 0, atts |-> {}, up |-> FALSE]
NoCopy   == [op |-> "none", id |-> 0, st |-> "none", ver |-> 0, old |-> 0,
             atts |-> {}, gen |-> 0]
NoWaiter == [at |-> "no", id |-> 0]

FnTypeOK ==
    /\ fstate \in States /\ fid \in 0..MaxAdds /\ fver \in Versions /\ fatts \subseteq Atts
    /\ {saved, terminated} \subseteq BOOLEAN /\ raced \in BOOLEAN
    /\ srcs \subseteq Versions
    /\ fdep \in Deps /\ fngen \in Nat
    /\ pod \in [DepPods -> [st : {"fresh", "up", "dead"}, ver : Versions, gen : Nat]]
    /\ reg \subseteq DepPods
    /\ fwaiter \in [DepPods -> [at : {"no", "port", "add", "find", "set"}, id : 0..MaxAdds]]
    /\ fpc \in [FnWorkers -> FnLabels] /\ loc \in [FnWorkers -> Copies]
    /\ gate \in {"up", "boot", "down", "dead"}
    /\ reqs \in 0..MaxReqs /\ fnfaults \in 0..FnMaxFaults
    /\ kills \in 0..MaxKills /\ fnrestarts \in 0..FnMaxRestarts
    /\ fdep.gen <= fngen

FnInit ==
    /\ fstate = "none" /\ fid = 0 /\ fver = 0 /\ fatts = {}
    /\ saved = FALSE /\ terminated = FALSE /\ raced = FALSE
    /\ srcs = {}
    /\ fdep = NoDep /\ fngen = 0
    /\ pod = [p \in DepPods |-> [st |-> "fresh", ver |-> 0, gen |-> 0]]
    /\ reg = {} /\ fwaiter = [p \in DepPods |-> NoWaiter]
    /\ fpc = [w \in FnWorkers |-> "idle"] /\ loc = [w \in FnWorkers |-> NoCopy]
    /\ gate = "up"
    /\ reqs = 0 /\ fnfaults = 0 /\ kills = 0 /\ fnrestarts = 0

-----------------------------------------------------------------------------
bounds == <<reqs, kills, fnrestarts>>

FnFault == fnfaults < FnMaxFaults /\ fnfaults' = fnfaults + 1
FnOk    == UNCHANGED fnfaults

\* an operation fails on an error, and without one when c holds
FailsIf(c) == FnFault \/ (c /\ FnOk)

FnGoto(w, l) == fpc' = [fpc EXCEPT ![w] = l] /\ UNCHANGED <<loc, gate>>

\* the request ends; the refresh k8sInit runs at start lets the gate serve when
\* it succeeds and ends the gate when it fails
EndAs(w, g) ==
    /\ fpc' = [fpc EXCEPT ![w] = "idle"]
    /\ loc' = [loc EXCEPT ![w] = NoCopy]
    /\ gate' = IF gate = "boot" THEN g ELSE gate
FnFinish(w) == EndAs(w, "up")
FnFail(w)   == EndAs(w, "down")

\* objq: the update of a record goes by the id in the request's copy
Mine(w) == fstate # "none" /\ fid = loc[w].id

\* ToState, from = -1: it fails on an error and when the record is gone
ToState(w, st) ==
    \/ Mine(w) /\ FnOk /\ fstate' = st
    \/ ~Mine(w) /\ FnOk /\ UNCHANGED fstate
    \/ FnFault /\ UNCHANGED fstate

\* requests that start or stop the deployment
Deploying == {v \in FnWorkers : fpc[v] # "idle" /\ loc[v].op # "attach"}

\* a request that finds the record and copies it
FnBegin(w, op, l, sts) ==
    /\ gate = "up" /\ fpc[w] = "idle" /\ reqs < MaxReqs
    /\ fstate \in sts
    /\ fpc' = [fpc EXCEPT ![w] = l]
    /\ loc' = [loc EXCEPT ![w] = [NoCopy EXCEPT !.op = op, !.id = fid, !.st = fstate,
                                                !.ver = fver, !.atts = fatts]]
    /\ reqs' = reqs + 1
    /\ raced' = (raced \/ (op # "attach" /\ Deploying # {}))
    /\ UNCHANGED <<fstate, fid, fver, fatts, saved, terminated, srcs, fdepVars, fpodVars,
                   gate, fnfaults, kills, fnrestarts>>

-----------------------------------------------------------------------------
(* Add                                                                     *)

\* dbInsert
Add(w) ==
    /\ gate = "up" /\ fpc[w] = "idle" /\ fstate = "none" /\ fid < MaxAdds
    /\ fstate' = "Ini" /\ fid' = fid + 1 /\ fver' = 0 /\ fatts' = {}
    /\ saved' = FALSE /\ terminated' = FALSE /\ raced' = (raced \/ Deploying # {})
    /\ fpc' = [fpc EXCEPT ![w] = "add_put"]
    /\ loc' = [loc EXCEPT ![w] = [NoCopy EXCEPT !.op = "add", !.id = fid + 1, !.st = "Ini"]]
    /\ UNCHANGED <<srcs, fdepVars, fpodVars, gate, bounds, fnfaults>>

\* checkFnCount: the tenant's other functions are beyond this module
AddLimited(w) ==
    /\ fpc[w] = "add_put"
    /\ FnGoto(w, "add_remove")
    /\ UNCHANGED <<recVars, srcs, fdepVars, fpodVars, bounds, fnfaults>>

\* putSources: a failure may leave the directory behind
AddPut(w) ==
    /\ fpc[w] = "add_put"
    /\ \/ FnOk /\ srcs' = srcs \cup {0} /\ FnGoto(w, "add_save")
       \/ FnFault /\ srcs' \in {srcs, srcs \cup {0}} /\ FnGoto(w, "add_remove")
    /\ UNCHANGED <<recVars, fdepVars, fpodVars, bounds>>

AddSave(w) ==
    /\ fpc[w] = "add_save"
    /\ \/ Mine(w) /\ FnOk /\ fstate' = "Str" /\ saved' = TRUE /\ FnGoto(w, "build")
       \/ FailsIf(~Mine(w)) /\ UNCHANGED <<fstate, saved>> /\ FnGoto(w, "add_unput")
    /\ UNCHANGED <<fid, fver, fatts, terminated, raced, srcs, fdepVars, fpodVars, bounds>>

\* out_clean_repo
AddUnput(w) ==
    /\ fpc[w] = "add_unput"
    /\ \/ FnOk /\ srcs' = {} /\ FnGoto(w, "add_remove")
       \/ FnFault /\ UNCHANGED srcs /\ FnGoto(w, "to_stalled")
    /\ UNCHANGED <<recVars, fdepVars, fpodVars, bounds>>

\* out_clean_func
AddRemove(w) ==
    /\ fpc[w] = "add_remove"
    /\ \/ Mine(w) /\ FnOk /\ fstate' = "none" /\ FnFinish(w)
       \/ FailsIf(~Mine(w)) /\ UNCHANGED fstate /\ FnGoto(w, "to_stalled")
    /\ UNCHANGED <<fid, fver, fatts, saved, terminated, raced, srcs, fdepVars, fpodVars, bounds>>

\* mutant: the state is set to a constant that is no state of a record
ToStalled_No(w) ==
    /\ fpc[w] = "to_stalled"
    /\ ToState(w, "No")
    /\ FnFinish(w)
    /\ UNCHANGED <<fid, fver, fatts, saved, terminated, raced, srcs, fdepVars, fpodVars, bounds>>

ToStalled(w) ==
    /\ fpc[w] = "to_stalled"
    /\ ToState(w, "Stl")
    /\ FnFinish(w)
    /\ UNCHANGED <<fid, fver, fatts, saved, terminated, raced, srcs, fdepVars, fpodVars, bounds>>

-----------------------------------------------------------------------------
(* Start, k8sRun and k8sUpdate                                             *)

\* what an error of Start or k8sRun leads to: Add and updateSources mark the
\* function stalled, activateFunction takes its state back, a refresh gives up
StartFailed(w) ==
    CASE loc[w].op \in {"add", "push"}  -> FnGoto(w, "to_stalled")
      [] loc[w].op = "act"              -> FnGoto(w, "to_dea")
      [] OTHER                          -> FnFail(w)

\* Start: buildFunction
Build(w) ==
    /\ fpc[w] = "build"
    /\ \/ FnOk /\ FnGoto(w, "create")
       \/ FnFault /\ StartFailed(w)
    /\ UNCHANGED <<recVars, srcs, fdepVars, fpodVars, bounds>>

Started(w) == IF loc[w].op = "push" THEN FnGoto(w, "push_gc") ELSE FnFinish(w)

\* k8sRun: the deployment must not exist
Create(w) ==
    /\ fpc[w] = "create"
    /\ \/ /\ FnOk /\ fdep.gen = 0
          /\ fngen' = fngen + 1
          /\ fdep' = [gen |-> fngen + 1, ver |-> loc[w].ver, atts |-> loc[w].atts, up |-> TRUE]
          /\ Started(w)
       \/ /\ FailsIf(fdep.gen # 0)
          /\ StartFailed(w)
          /\ UNCHANGED fdepVars
    /\ UNCHANGED <<recVars, srcs, fpodVars, bounds>>

\* k8sUpdate: an error is ignored by every caller
UpdGet(w) ==
    /\ fpc[w] = "upd_get"
    /\ \/ /\ FnOk /\ fdep.gen # 0
          /\ fpc' = [fpc EXCEPT ![w] = "upd_put"]
          /\ loc' = [loc EXCEPT ![w].gen = fdep.gen]
          /\ UNCHANGED gate
       \/ FailsIf(fdep.gen = 0) /\ Started(w)
    /\ UNCHANGED <<recVars, srcs, fdepVars, fpodVars, bounds>>

\* Kubernetes refuses the update of a deployment that changed since the Get
UpdPut(w) ==
    /\ fpc[w] = "upd_put"
    /\ \/ /\ FnOk /\ fdep.gen = loc[w].gen
          /\ fngen' = fngen + 1
          /\ fdep' = [fdep EXCEPT !.gen = fngen + 1, !.ver = loc[w].ver, !.atts = loc[w].atts]
       \/ FailsIf(fdep.gen # loc[w].gen) /\ UNCHANGED fdepVars
    /\ Started(w)
    /\ UNCHANGED <<recVars, srcs, fpodVars, bounds>>

-----------------------------------------------------------------------------
(* updateSources                                                           *)

Push(w) == w \in Pushers /\ FnBegin(w, "push", "push_put", {"Rdy", "Stl"})

\* mutant: the new sources take the place of the old ones
PushPut_Moves(w) ==
    /\ fpc[w] = "push_put"
    /\ loc[w].ver < MaxReqs
    /\ FnOk
    /\ srcs' = (srcs \ {loc[w].ver}) \cup {loc[w].ver + 1}
    /\ fpc' = [fpc EXCEPT ![w] = "push_save"]
    /\ loc' = [loc EXCEPT ![w].ver = @ + 1, ![w].old = loc[w].ver]
    /\ UNCHANGED <<recVars, gate, fdepVars, fpodVars, bounds>>

\* updateSources of src.go and tryBuildFunction: the next version, from the copy
PushPut(w) ==
    /\ fpc[w] = "push_put"
    /\ loc[w].ver < MaxReqs
    /\ LET v == loc[w].ver + 1
       IN  \/ /\ FnOk
              /\ srcs' = srcs \cup {v}
              /\ fpc' = [fpc EXCEPT ![w] = "push_save"]
              /\ loc' = [loc EXCEPT ![w].ver = v, ![w].old = loc[w].ver]
              /\ UNCHANGED gate
           \/ FnFault /\ srcs' \in {srcs, srcs \cup {v}} /\ FnFinish(w)
    /\ UNCHANGED <<recVars, fdepVars, fpodVars, bounds>>

\* dbUpdatePart, of the state too when the function was stalled
PushSave(w) ==
    /\ fpc[w] = "push_save"
    /\ \/ /\ Mine(w) /\ FnOk
          /\ fver' = loc[w].ver /\ saved' = TRUE
          /\ \/ loc[w].st = "Rdy" /\ UNCHANGED fstate /\ FnGoto(w, "upd_get")
             \/ loc[w].st = "Stl" /\ fstate' = "Str" /\ FnGoto(w, "create")
       \/ FailsIf(~Mine(w)) /\ UNCHANGED <<fver, fstate, saved>> /\ FnFinish(w)
    /\ UNCHANGED <<fid, fatts, terminated, raced, srcs, fdepVars, fpodVars, bounds>>

\* GCOldSources: DropDirPrep moves the old directory away at once
PushGC(w) ==
    /\ fpc[w] = "push_gc"
    /\ \/ FnOk /\ srcs' = srcs \ {loc[w].old}
       \/ FnFault /\ UNCHANGED srcs
    /\ FnFinish(w)
    /\ UNCHANGED <<recVars, fdepVars, fpodVars, bounds>>

-----------------------------------------------------------------------------
(* addMware, delMware, addAccount, delAccount, addS3Bucket, delS3Bucket    *)

Attach(w) == w \in Attachers /\ FnBegin(w, "attach", "attach_save", States \ {"none"})

\* the record gains or loses the attachment, and so does the copy
AttachSave(w) ==
    /\ fpc[w] = "attach_save"
    /\ \/ /\ Mine(w) /\ FnOk
          /\ \E a \in Atts :
                \/ /\ a \notin fatts
                   /\ fatts' = fatts \cup {a}
                   /\ loc' = [loc EXCEPT ![w].atts = @ \cup {a}]
                \/ /\ a \in loc[w].atts
                   /\ fatts' = fatts \ {a}
                   /\ loc' = [loc EXCEPT ![w].atts = @ \ {a}]
          /\ fpc' = [fpc EXCEPT ![w] = IF loc[w].st = "Rdy" THEN "upd_get" ELSE "idle"]
          /\ UNCHANGED gate
       \/ FailsIf(~Mine(w)) /\ UNCHANGED fatts /\ FnFinish(w)
    /\ UNCHANGED <<fstate, fid, fver, saved, terminated, raced, srcs, fdepVars, fpodVars, bounds>>

-----------------------------------------------------------------------------
(* Del and k8sRemove                                                       *)

Del(w) == w \in Deleters /\ FnBegin(w, "del", "del_state", {"Dea", "Str", "Rdy", "Stl", "Trm"})

\* ToState(Trm) from the state the copy has
DelState(w) ==
    /\ fpc[w] = "del_state"
    /\ \/ /\ Mine(w) /\ fstate = loc[w].st /\ FnOk
          /\ fstate' = "Trm"
          /\ terminated' = TRUE
          /\ FnGoto(w, IF loc[w].st = "Dea" THEN "del_clean" ELSE "rm_get")
       \/ /\ FailsIf(~(Mine(w) /\ fstate = loc[w].st))
          /\ UNCHANGED <<fstate, terminated>>
          /\ FnFinish(w)
    /\ UNCHANGED <<fid, fver, fatts, saved, raced, srcs, fdepVars, fpodVars, bounds>>

Removed(w)   == IF loc[w].op = "del" THEN FnGoto(w, "del_clean") ELSE FnFinish(w)
RmFailed(w)  == IF loc[w].op = "del" THEN FnFinish(w) ELSE FnGoto(w, "to_rdy")

\* k8sRemove: no deployment is fine
RmGet(w) ==
    /\ fpc[w] = "rm_get"
    /\ \/ /\ FnOk /\ fdep.gen # 0
          /\ fpc' = [fpc EXCEPT ![w] = "rm_shrink"]
          /\ loc' = [loc EXCEPT ![w].gen = fdep.gen]
          /\ UNCHANGED gate
       \/ FnOk /\ fdep.gen = 0 /\ Removed(w)
       \/ FnFault /\ RmFailed(w)
    /\ UNCHANGED <<recVars, srcs, fdepVars, fpodVars, bounds>>

\* mutant: an error of the update ends k8sRemove as if it had succeeded
RmShrink_Ignored(w) ==
    /\ fpc[w] = "rm_shrink"
    /\ \/ /\ FnOk /\ fdep.gen = loc[w].gen
          /\ fngen' = fngen + 1
          /\ fdep' = [fdep EXCEPT !.gen = fngen + 1, !.up = FALSE]
          /\ FnGoto(w, "rm_delete")
       \/ FailsIf(fdep.gen # loc[w].gen) /\ UNCHANGED fdepVars /\ Removed(w)
    /\ UNCHANGED <<recVars, srcs, fpodVars, bounds>>

\* k8sRemove: no replicas
RmShrink(w) ==
    /\ fpc[w] = "rm_shrink"
    /\ \/ /\ FnOk /\ fdep.gen = loc[w].gen
          /\ fngen' = fngen + 1
          /\ fdep' = [fdep EXCEPT !.gen = fngen + 1, !.up = FALSE]
          /\ FnGoto(w, "rm_delete")
       \/ FailsIf(fdep.gen # loc[w].gen) /\ UNCHANGED fdepVars /\ RmFailed(w)
    /\ UNCHANGED <<recVars, srcs, fpodVars, bounds>>

\* k8sRemove: the deletion, by name; of a deployment already gone it is an error
RmDelete(w) ==
    /\ fpc[w] = "rm_delete"
    /\ \/ FnOk /\ fdep.gen # 0 /\ fdep' = NoDep /\ Removed(w)
       \/ FailsIf(fdep.gen = 0) /\ UNCHANGED fdep /\ RmFailed(w)
    /\ UNCHANGED <<recVars, srcs, fngen, fpodVars, bounds>>

\* clearAllEvents, statsDrop, logRemove
DelClean(w) ==
    /\ fpc[w] = "del_clean"
    /\ \/ FnOk /\ FnGoto(w, "del_srcs")
       \/ FnFault /\ FnFinish(w)
    /\ UNCHANGED <<recVars, srcs, fdepVars, fpodVars, bounds>>

\* removeSources: all versions
DelSrcs(w) ==
    /\ fpc[w] = "del_srcs"
    /\ \/ FnOk /\ srcs' = {} /\ FnGoto(w, "del_remove")
       \/ FnFault /\ UNCHANGED srcs /\ FnFinish(w)
    /\ UNCHANGED <<recVars, fdepVars, fpodVars, bounds>>

\* dbRemove
FnDelRemove(w) ==
    /\ fpc[w] = "del_remove"
    /\ \/ Mine(w) /\ FnOk /\ fstate' = "none"
       \/ FailsIf(~Mine(w)) /\ UNCHANGED fstate
    /\ FnFinish(w)
    /\ UNCHANGED <<fid, fver, fatts, saved, terminated, raced, srcs, fdepVars, fpodVars, bounds>>

-----------------------------------------------------------------------------
(* deactivateFunction and activateFunction                                 *)

Deactivate(w) == w \in Togglers /\ FnBegin(w, "deact", "deact_state", {"Rdy"})
Activate(w)   == w \in Togglers /\ FnBegin(w, "act", "act_state", {"Dea"})

\* ToState from the state the copy has
Toggle(w, l, from, to, next) ==
    /\ fpc[w] = l
    /\ \/ Mine(w) /\ fstate = from /\ FnOk /\ fstate' = to /\ FnGoto(w, next)
       \/ /\ FailsIf(~(Mine(w) /\ fstate = from))
          /\ UNCHANGED fstate
          /\ FnFinish(w)
    /\ UNCHANGED <<fid, fver, fatts, saved, terminated, raced, srcs, fdepVars, fpodVars, bounds>>

DeactState(w) == Toggle(w, "deact_state", "Rdy", "Dea", "rm_get")
ActState(w)   == Toggle(w, "act_state", "Dea", "Str", "create")

\* the state is taken back after an error
Untoggle(w) ==
    /\ \/ fpc[w] = "to_rdy" /\ ToState(w, "Rdy") /\ raced' = (raced \/ fstate' # "Rdy")
       \/ fpc[w] = "to_dea" /\ ToState(w, "Dea") /\ UNCHANGED raced
    /\ FnFinish(w)
    /\ UNCHANGED <<fid, fver, fatts, saved, terminated, srcs, fdepVars, fpodVars, bounds>>

-----------------------------------------------------------------------------
(* refreshDepsAndPods, run by k8sInit and by the k8s_refresh sysctl        *)

Refresh(w, op) == w \in Refreshers /\ FnBegin(w, op, "ref_get", States \ {"none"})

\* a record left from an early Add: its sources are removed, and dbRemove, which
\* is given the record and not a pointer to it, ends in objcni's Fatalf
RefreshIni(w) ==
    /\ fpc[w] = "ref_get" /\ loc[w].st = "Ini"
    /\ srcs' = {}
    /\ gate' = "dead"
    /\ fpc' = [v \in FnWorkers |-> "idle"] /\ loc' = [v \in FnWorkers |-> NoCopy]
    /\ reg' = {} /\ fwaiter' = [p \in DepPods |-> NoWaiter]
    /\ UNCHANGED <<recVars, fdepVars, pod, bounds, fnfaults>>

Revive(st, op) == st \in {"Rdy", "Str"} \/ (st = "Stl" /\ op = "hard")

RefreshSkip(w) ==
    /\ fpc[w] = "ref_get" /\ loc[w].st # "Ini"
    /\ ~Revive(loc[w].st, loc[w].op)
    /\ FnFinish(w)
    /\ UNCHANGED <<recVars, srcs, fdepVars, fpodVars, bounds, fnfaults>>

\* mutant: a function that was starting is left alone
RefreshLost_HardOnly(w) ==
    /\ fpc[w] = "ref_get" /\ Revive(loc[w].st, loc[w].op)
    /\ FnOk /\ fdep.gen = 0
    /\ IF loc[w].op = "hard" THEN FnGoto(w, "build") ELSE FnFinish(w)
    /\ UNCHANGED <<recVars, srcs, fdepVars, fpodVars, bounds>>

\* no deployment: it is started again, or the function is marked stalled
RefreshLost(w) ==
    /\ fpc[w] = "ref_get" /\ Revive(loc[w].st, loc[w].op)
    /\ \/ /\ FnOk /\ fdep.gen = 0
          /\ FnGoto(w, IF loc[w].st = "Str" \/ loc[w].op = "hard" THEN "build" ELSE "to_stalled")
       \/ FnFault /\ FnFail(w)
    /\ UNCHANGED <<recVars, srcs, fdepVars, fpodVars, bounds>>

Up == {p \in DepPods : pod[p].st = "up"}

\* the deployment is there: every pod that is listed is waited for
RefreshPods(w) ==
    /\ fpc[w] = "ref_get" /\ Revive(loc[w].st, loc[w].op)
    /\ fdep.gen # 0
    /\ fwaiter' = [p \in DepPods |-> IF p \in Up /\ fwaiter[p].at = "no"
                                     THEN [at |-> "port", id |-> 0] ELSE fwaiter[p]]
    /\ FnFinish(w)
    /\ UNCHANGED <<recVars, srcs, fdepVars, pod, reg, bounds, fnfaults>>

\* the gate dies and comes back: what goroutines held is lost, k8sInit refreshes
FnRestart(w) ==
    /\ fnrestarts < FnMaxRestarts /\ gate # "dead"
    /\ fnrestarts' = fnrestarts + 1
    /\ reg' = {} /\ fwaiter' = [p \in DepPods |-> NoWaiter]
    /\ LET found == fstate # "none"
       IN  /\ fpc' = [v \in FnWorkers |-> IF v = w /\ found THEN "ref_get" ELSE "idle"]
           /\ loc' = [v \in FnWorkers |->
                        IF v = w /\ found
                        THEN [NoCopy EXCEPT !.op = "soft", !.id = fid, !.st = fstate,
                                            !.ver = fver, !.atts = fatts]
                        ELSE NoCopy]
           /\ gate' = IF found THEN "boot" ELSE "up"
    /\ raced' = (raced \/ \E v \in FnWorkers : fpc[v] # "idle" /\ loc[v].op = "deact")
    /\ UNCHANGED <<fstate, fid, fver, fatts, saved, terminated, srcs, fdepVars, pod, reqs, kills,
                   fnfaults>>

-----------------------------------------------------------------------------
(* Pods: Kubernetes starts and stops them; podEventLoop hands the events   *)
(* to k8sPodUp and k8sPodDown.                                             *)

\* a deployment with replicas gets a pod of its present template
PodStart(p) ==
    /\ fdep.gen # 0 /\ fdep.up
    /\ pod[p].st = "fresh"
    /\ \A q \in Up : pod[q].gen # fdep.gen
    /\ pod' = [pod EXCEPT ![p] = [st |-> "up", ver |-> fdep.ver, gen |-> fdep.gen]]
    /\ fwaiter' = [fwaiter EXCEPT ![p].at = IF gate \in {"up", "boot"} THEN "port" ELSE "no"]
    /\ UNCHANGED <<recVars, srcs, fdepVars, reg, fpc, loc, gate, bounds, fnfaults>>

\* k8sPodDown: BalancerPodDel
PodStop(p) ==
    /\ pod[p].st = "up"
    /\ \/ pod[p].gen # fdep.gen /\ UNCHANGED kills
       \/ kills < MaxKills /\ kills' = kills + 1
    /\ pod' = [pod EXCEPT ![p].st = "dead"]
    /\ reg' = reg \ {p}
    /\ UNCHANGED <<recVars, srcs, fdepVars, fwaiter, fpc, loc, gate, reqs, fnrestarts, fnfaults>>

\* waitPodPort: a dial succeeds while the pod runs
PortOpen(p) ==
    /\ fwaiter[p].at = "port" /\ p \in Up
    /\ fwaiter' = [fwaiter EXCEPT ![p].at = "add"]
    /\ UNCHANGED <<recVars, srcs, fdepVars, pod, reg, fpc, loc, gate, bounds, fnfaults>>

\* waitPodPort gives up
PortTimeout(p) ==
    /\ fwaiter[p].at = "port"
    /\ IF p \in Up THEN FnFault ELSE FnOk
    /\ fwaiter' = [fwaiter EXCEPT ![p].at = "no"]
    /\ UNCHANGED <<recVars, srcs, fdepVars, pod, reg, fpc, loc, gate, bounds>>

\* BalancerPodAdd
PodAdd(p) ==
    /\ fwaiter[p].at = "add"
    /\ reg' = reg \cup {p}
    /\ fwaiter' = [fwaiter EXCEPT ![p].at = "find"]
    /\ UNCHANGED <<recVars, srcs, fdepVars, pod, fpc, loc, gate, bounds, fnfaults>>

\* notifyPodUp, the search of the record, by the function's name
NotifyFind(p) ==
    /\ fwaiter[p].at = "find"
    /\ \/ /\ FnOk /\ fstate \notin {"none", "Rdy"}
          /\ fwaiter' = [fwaiter EXCEPT ![p] = [at |-> "set", id |-> fid]]
       \/ /\ FailsIf(fstate \in {"none", "Rdy"})
          /\ fwaiter' = [fwaiter EXCEPT ![p] = NoWaiter]
    /\ UNCHANGED <<recVars, srcs, fdepVars, pod, reg, fpc, loc, gate, bounds>>

\* notifyPodUp, ToState(Rdy) from any state
NotifySet(p) ==
    /\ fwaiter[p].at = "set"
    /\ \/ FnOk /\ fid = fwaiter[p].id /\ fstate # "none" /\ fstate' = "Rdy"
       \/ FailsIf((fid # fwaiter[p].id \/ fstate = "none")) /\ UNCHANGED fstate
    /\ fwaiter' = [fwaiter EXCEPT ![p] = NoWaiter]
    /\ UNCHANGED <<fid, fver, fatts, saved, terminated, raced, srcs, fdepVars, pod, reg,
                   fpc, loc, gate, bounds>>

-----------------------------------------------------------------------------
FnRequest(w) ==
    Add(w) \/ Push(w) \/ Attach(w) \/ Del(w) \/ Deactivate(w) \/ Activate(w)
           \/ \E op \in {"soft", "hard"} : Refresh(w, op)

FnStep(w) ==
    \/ AddPut(w) \/ AddSave(w) \/ AddUnput(w) \/ AddRemove(w) \/ ToStalled(w)
    \/ Build(w) \/ Create(w) \/ UpdGet(w) \/ UpdPut(w)
    \/ PushPut(w) \/ PushSave(w) \/ PushGC(w) \/ AttachSave(w)
    \/ DelState(w) \/ RmGet(w) \/ RmShrink(w) \/ RmDelete(w)
    \/ DelClean(w) \/ DelSrcs(w) \/ FnDelRemove(w)
    \/ DeactState(w) \/ ActState(w) \/ Untoggle(w)
    \/ RefreshIni(w) \/ RefreshSkip(w) \/ RefreshLost(w) \/ RefreshPods(w)

FnPodStep(p) ==
    PodStart(p) \/ PodStop(p) \/ PortOpen(p) \/ PortTimeout(p) \/ PodAdd(p)
                \/ NotifyFind(p) \/ NotifySet(p)

FnNext ==
    \/ \E w \in FnWorkers : FnRequest(w) \/ AddLimited(w) \/ FnStep(w) \/ FnRestart(w)
    \/ \E p \in DepPods : FnPodStep(p)

FnSpec == FnInit /\ [][FnNext]_fnVars

(* A goroutine that can go on does, and so does Kubernetes with the pods   *)
(* of a deployment; requests, errors, kills and restarts need not happen.  *)
FnFairSpec ==
    /\ FnSpec
    /\ \A w \in FnWorkers : WF_fnVars(FnStep(w))
    /\ \A p \in DepPods : WF_fnVars(PodStart(p)) /\ WF_fnVars(PortOpen(p)) /\ WF_fnVars(PodAdd(p))
                       /\ WF_fnVars(NotifyFind(p)) /\ WF_fnVars(NotifySet(p))

-----------------------------------------------------------------------------
AtRest ==
    /\ gate = "up"
    /\ \A w \in FnWorkers : fpc[w] = "idle"
    /\ \A p \in DepPods : fwaiter[p].at = "no"

(* Del: when the record of a removed function is gone and everything is    *)
(* quiet, its deployment is gone too, through errors and retries of the    *)
(* removal and late pods; only two requests that start or stop the         *)
(* deployment side by side, a failed deactivation whose state could not be *)
(* taken back, or a gate that dies in a deactivation, may leave one.       *)
OrphanOnlyByRace == AtRest /\ fstate = "none" /\ fdep.gen # 0 => raced

(* Del, as its comment has it: a removal waits for the build, so a removed *)
(* function leaves no deployment.                                          *)
NoOrphan == AtRest /\ fstate = "none" => fdep.gen = 0

(* updateSources and GCOldSources: the sources of the version the record   *)
(* names are on disk from the moment Add saved it until a removal is       *)
(* accepted, whatever the push, its errors or a restart leave undone.      *)
SourcesKept ==
    fstate # "none" /\ saved /\ ~terminated /\ gate # "dead" => fver \in srcs

(* FnSrcDesc.Version: a growing number.                                    *)
VersionGrows == [][fid' = fid => fver' >= fver]_fnVars

(* k8sUpdate: the deployment of a ready function runs the sources the      *)
(* record names.                                                           *)
DeployedIsRecorded == AtRest /\ fstate = "Rdy" /\ fdep.gen # 0 => fdep.ver = fver

(* "Rdy: ready to run": at rest a ready function has a deployment.         *)
ReadyIsDeployed == AtRest /\ fstate = "Rdy" => fdep.gen # 0

(* refreshDepsAndPods: a record left by an interrupted Add is cleaned out  *)
(* when the gate comes back.                                               *)
EarlyAddCleanedOut == gate # "dead"

(* A function that is starting becomes ready, stalled, deactivated or      *)
(* goes away, also when the gate is restarted on the way.                  *)
StartEnds == (fstate = "Str") ~> (fstate # "Str")
=============================================================================
