----------------------------- MODULE FnLifeProofs -----------------------------
(***************************************************************************)
(* The life of a function, for any number of goroutines, pods, requests,   *)
(* errors and restarts.  As long as no two requests that start or stop the *)
(* deployment overlapped, the one at work knows where record, deployment   *)
(* and sources are; that is what is true at rest.  For one addition and    *)
(* one pusher the sources are kept whatever else overlaps.                 *)
(***************************************************************************)
EXTENDS FnLife, TLAPS

-----------------------------------------------------------------------------
(* Types.                                                                  *)

RecTypes ==
    /\ fstate \in States /\ fid \in 0 .. MaxAdds /\ fver \in Versions /\ fatts \subseteq Atts
    /\ saved \in BOOLEAN /\ terminated \in BOOLEAN /\ raced \in BOOLEAN
    /\ srcs \subseteq Versions
    /\ fdep \in Deps /\ fngen \in Nat /\ fdep.gen <= fngen
    /\ gate \in {"up", "boot", "down", "dead"}
CountTypes ==
    /\ reqs \in 0 .. MaxReqs /\ fnfaults \in 0 .. FnMaxFaults
    /\ kills \in 0 .. MaxKills /\ fnrestarts \in 0 .. FnMaxRestarts
PodTypes ==
    /\ pod \in [DepPods -> [st : {"fresh", "up", "dead"}, ver : Versions, gen : Nat]]
    /\ reg \subseteq DepPods
    /\ fwaiter \in [DepPods -> [at : {"no", "port", "add", "find", "set"}, id : 0 .. MaxAdds]]
WorkTypes == fpc \in [FnWorkers -> FnLabels] /\ loc \in [FnWorkers -> Copies]

FnTypes == RecTypes /\ CountTypes /\ PodTypes /\ WorkTypes

-----------------------------------------------------------------------------
(* One goroutine: l is where it is, c its copy.                            *)

AddLabels   == {"add_put", "add_save", "add_unput", "add_remove"}
DelLabels   == {"del_clean", "del_srcs", "del_remove"}
RmLabels    == {"rm_get", "rm_shrink", "rm_delete"}
SavedLabels == {"upd_get", "upd_put", "create", "push_gc"}

\* the operation a goroutine is in, by its label
Fits(l, c) ==
    /\ l \in AddLabels => c.op = "add"
    /\ l = "build" => c.op \in {"add", "soft", "hard"}
    /\ l = "create" => c.op \in {"add", "push", "act", "soft", "hard"}
    /\ l = "to_stalled" => c.op \in {"add", "push", "soft", "hard"}
    /\ l \in {"push_put", "push_save", "push_gc"} => c.op = "push"
    /\ l \in {"upd_get", "upd_put"} => c.op \in {"push", "attach"}
    /\ l = "attach_save" => c.op = "attach"
    /\ l \in DelLabels \cup {"del_state"} => c.op = "del"
    /\ l \in RmLabels => c.op \in {"del", "deact"}
    /\ l \in {"deact_state", "to_rdy"} => c.op = "deact"
    /\ l \in {"act_state", "to_dea"} => c.op = "act"
    /\ l = "ref_get" => c.op \in {"soft", "hard"}
    \* an update is of a deployment that was there
    /\ l \in {"upd_put", "rm_shrink"} => c.gen # 0
    \* a push keeps what it replaces apart from what it brings
    /\ c.op = "push" /\ l \in SavedLabels \cup {"push_save"} => c.old # c.ver

LabelsFit == \A w \in FnWorkers : Fits(fpc[w], loc[w])

\* is the goroutine in a request that starts or stops the deployment?
Deploys(w) == fpc[w] # "idle" /\ loc[w].op # "attach"

\* What the only request at work knows: the record is there and its own; nothing is
\* deployed before its start, after its removal, nor while it activates; a
\* record it goes on to start is not deactivated; its sources are there.
Knows(w) ==
    /\ fstate # "none" /\ fid = loc[w].id
    /\ fpc[w] \in AddLabels \cup DelLabels \cup {"to_dea"} => fdep.gen = 0
    /\ fpc[w] = "create" /\ loc[w].op = "act" => fdep.gen = 0
    /\ fpc[w] \in {"build", "create"} \/ (fpc[w] = "ref_get" /\ loc[w].st # "Dea") => fstate # "Dea"
    /\ fpc[w] \in AddLabels => ~saved /\ fver = 0
    /\ fpc[w] = "add_save" => 0 \in srcs
    /\ fpc[w] = "push_save" => loc[w].ver \in srcs \/ terminated
    /\ loc[w].op = "push" /\ fpc[w] \in SavedLabels => fver = loc[w].ver
    /\ loc[w].op = "del" /\ fpc[w] # "del_state" => terminated

Deactivating(w) == loc[w].op = "deact" /\ fpc[w] \in RmLabels \cup {"to_rdy"}

AloneInv ==
    ~raced =>
        /\ \A v, w \in FnWorkers : Deploys(v) /\ Deploys(w) => v = w
        /\ \A w \in FnWorkers : Deploys(w) => Knows(w)
        /\ fstate = "none" => fdep.gen = 0
        /\ fstate = "Dea" => fdep.gen = 0 \/ \E w \in FnWorkers : Deactivating(w)
        /\ SourcesKept

FnInv == FnTypes /\ LabelsFit /\ AloneInv

-----------------------------------------------------------------------------
(* One addition, one pusher.                                               *)

\* nothing was deployed before, so no pod has been seen
Quiet == fngen = 0 => \A p \in DepPods : pod[p].st = "fresh" /\ fwaiter[p].at = "no"

\* where a goroutine may be while the record's Add is not saved yet
YoungAt(l, c) ==
    /\ l \in AddLabels \cup {"idle", "to_stalled", "attach_save", "ref_get"}
    /\ l = "to_stalled" => c.op = "add"
    /\ l \in {"attach_save", "ref_get"} => c.st = "Ini"
Young ==
    /\ fngen = 0 /\ fver = 0 /\ ~saved /\ ~terminated
    /\ \A w \in FnWorkers : YoungAt(fpc[w], loc[w])

\* a goroutine of the only record there is
Mate(w) ==
    /\ loc[w].id = fid
    /\ fpc[w] \in AddLabels => fstate = "Ini"
    /\ fpc[w] = "add_save" => 0 \in srcs
    /\ loc[w].op = "push" => w \in Pushers
    /\ fpc[w] = "push_save" => loc[w].ver \in srcs \/ terminated
    /\ loc[w].op = "push" /\ fpc[w] \in SavedLabels => fver = loc[w].ver
    /\ loc[w].op = "del" /\ fpc[w] # "del_state" => terminated

Adds(w) == fpc[w] # "idle" /\ loc[w].op = "add"

\* nothing is saved that the disk does not have
Kept == saved /\ ~terminated /\ gate # "dead" => fver \in srcs

OneLifeInv ==
    /\ Quiet
    /\ fid = 0 => fstate = "none" /\ fngen = 0 /\ ~saved /\ \A w \in FnWorkers : fpc[w] = "idle"
    /\ fstate = "Ini" => Young
    /\ \A v, w \in FnWorkers : Adds(v) /\ Adds(w) => v = w
    /\ \A w \in FnWorkers : fpc[w] # "idle" => Mate(w)
    /\ Kept

\* one addition, one pusher
OneLife == MaxAdds <= 1 /\ \A v, w \in Pushers : v = w


-----------------------------------------------------------------------------
(* Types hold.                                                             *)

\* Bounds are numbers.
LEMMA Bounds ==
    /\ MaxAdds \in Nat /\ MaxReqs \in Nat /\ FnMaxFaults \in Nat /\ MaxKills \in Nat
    /\ FnMaxRestarts \in Nat
  BY FnAssumption

\* A goroutine goes on.
LEMMA GoTypes ==
    ASSUME WorkTypes, NEW w \in FnWorkers, NEW l \in FnLabels, FnGoto(w, l)
    PROVE  WorkTypes' /\ gate' = gate
  BY DEF WorkTypes, FnGoto

\* A request ends.
LEMMA EndTypes ==
    ASSUME WorkTypes, gate \in {"up", "boot", "down", "dead"}, NEW w \in FnWorkers,
           FnFinish(w) \/ FnFail(w)
    PROVE  WorkTypes' /\ gate' \in {"up", "boot", "down", "dead"}
<1>1. "idle" \in FnLabels /\ NoCopy \in Copies
  <2>1. {} \in SUBSET Atts /\ 0 \in 0 .. MaxAdds /\ 0 \in Versions /\ 0 \in Nat
    BY Bounds DEF Versions
  <2>2. "none" \in Ops /\ "none" \in States
    BY DEF Ops, States
  <2>3. NoCopy \in Copies
    BY <2>1, <2>2 DEF NoCopy, Copies
  <2> QED
    BY <2>3 DEF FnLabels
<1>2. PICK g \in {"up", "down"} : EndAs(w, g)
  BY DEF FnFinish, FnFail
<1>3. WorkTypes'
  BY <1>1, <1>2 DEF EndAs, WorkTypes
<1>4. gate' \in {"up", "boot", "down", "dead"}
  BY <1>2 DEF EndAs
<1> QED
  BY <1>3, <1>4

\* A goroutine goes on with a new copy.
LEMMA CopyTypes ==
    ASSUME WorkTypes, NEW w \in FnWorkers, NEW l \in FnLabels, NEW c \in Copies,
           fpc' = [fpc EXCEPT ![w] = l], loc' = [loc EXCEPT ![w] = c]
    PROVE  WorkTypes'
  BY DEF WorkTypes

\* Records of copies.
LEMMA CopyRec ==
    ASSUME NEW o \in Ops, NEW i \in 0 .. MaxAdds, NEW s \in States, NEW v \in Versions,
           NEW a \in SUBSET Atts
    PROVE  /\ [NoCopy EXCEPT !.op = o, !.id = i, !.st = s, !.ver = v, !.atts = a] \in Copies
           /\ [NoCopy EXCEPT !.op = o, !.id = i, !.st = s] \in Copies
<1>1. 0 \in Versions /\ 0 \in Nat /\ 0 \in 0 .. MaxAdds
  BY Bounds DEF Versions
<1>2. NoCopy \in Copies
  <2>1. "none" \in Ops /\ "none" \in States
    BY DEF Ops, States
  <2> QED
    BY <1>1, <2>1 DEF NoCopy, Copies
<1> QED
  BY <1>2 DEF Copies

\* A request finds the record.
LEMMA BeginTypes ==
    ASSUME FnTypes, NEW w \in FnWorkers, NEW op \in Ops, NEW l \in FnLabels, NEW sts,
           FnBegin(w, op, l, sts)
    PROVE  FnTypes'
<1>1. [NoCopy EXCEPT !.op = op, !.id = fid, !.st = fstate, !.ver = fver, !.atts = fatts] \in Copies
  BY CopyRec DEF FnTypes, RecTypes
<1>2. WorkTypes'
  BY <1>1, CopyTypes DEF FnTypes, FnBegin
<1>3. RecTypes'
  BY DEF FnTypes, RecTypes, FnBegin, fdepVars
<1>4. CountTypes'
  BY Bounds DEF FnTypes, CountTypes, FnBegin
<1>5. PodTypes'
  BY DEF FnTypes, PodTypes, FnBegin, fpodVars
<1> QED
  BY <1>2, <1>3, <1>4, <1>5 DEF FnTypes

\* What an operation may count.
LEMMA FaultTypes ==
    ASSUME CountTypes, FnFault \/ FnOk, UNCHANGED bounds
    PROVE  CountTypes'
  BY Bounds DEF CountTypes, FnFault, FnOk, bounds

\* Pods stand still.
LEMMA PodsStill ==
    ASSUME PodTypes, UNCHANGED fpodVars
    PROVE  PodTypes'
  BY DEF PodTypes, fpodVars

\* A goroutine that goes on or ends.
LEMMA MoveTypes ==
    ASSUME FnTypes, NEW w \in FnWorkers,
           (\E l \in FnLabels : FnGoto(w, l)) \/ FnFinish(w) \/ FnFail(w)
    PROVE  WorkTypes' /\ gate' \in {"up", "boot", "down", "dead"}
<1>1. WorkTypes /\ gate \in {"up", "boot", "down", "dead"}
  BY DEF FnTypes, RecTypes
<1>2. CASE \E l \in FnLabels : FnGoto(w, l)
  BY <1>1, <1>2, GoTypes
<1>3. CASE FnFinish(w) \/ FnFail(w)
  BY <1>1, <1>3, EndTypes
<1> QED
  BY <1>2, <1>3

\* Where the helpers of an operation leave the goroutine.
LEMMA HelperMoves ==
    ASSUME NEW w \in FnWorkers, StartFailed(w) \/ Started(w) \/ Removed(w) \/ RmFailed(w)
    PROVE  (\E l \in FnLabels : FnGoto(w, l)) \/ FnFinish(w) \/ FnFail(w)
<1>1. {"to_stalled", "to_dea", "push_gc", "del_clean", "to_rdy"} \subseteq FnLabels
  BY DEF FnLabels
<1> QED
  BY <1>1 DEF StartFailed, Started, Removed, RmFailed

\* A state set by ToState.
LEMMA ToStateTypes ==
    ASSUME RecTypes, NEW w, NEW st \in States, ToState(w, st)
    PROVE  fstate' \in States /\ (FnFault \/ FnOk)
  BY DEF RecTypes, ToState

\* The steps that leave record, sources, deployment and pods as they are.
LEMMA StillTypes ==
    ASSUME FnTypes, NEW w \in FnWorkers,
           (\E l \in FnLabels : FnGoto(w, l)) \/ FnFinish(w) \/ FnFail(w),
           UNCHANGED <<recVars, srcs, fdepVars, fpodVars, bounds>>, FnFault \/ FnOk
    PROVE  FnTypes'
<1>1. WorkTypes' /\ gate' \in {"up", "boot", "down", "dead"}
  BY MoveTypes
<1>2. CountTypes' /\ PodTypes'
  BY FaultTypes, PodsStill DEF FnTypes
<1>3. RecTypes'
  BY <1>1 DEF FnTypes, RecTypes, recVars, fdepVars
<1> QED
  BY <1>1, <1>2, <1>3 DEF FnTypes

\* Add keeps the types.
LEMMA AddTypes ==
    ASSUME FnTypes, NEW w \in FnWorkers,
           Add(w) \/ AddLimited(w) \/ AddPut(w) \/ AddSave(w) \/ AddUnput(w) \/ AddRemove(w) \/ ToStalled(w)
    PROVE  FnTypes'
<1> USE Bounds
<1>0. RecTypes /\ CountTypes /\ PodTypes /\ WorkTypes
  BY DEF FnTypes
<1>l. {"add_put", "add_save", "add_unput", "add_remove", "to_stalled", "build"} \subseteq FnLabels
  BY DEF FnLabels
<1>s. {"Ini", "Str", "Stl", "none"} \subseteq States /\ "add" \in Ops /\ 0 \in Versions
  BY DEF States, Ops, Versions
<1>1. CASE Add(w)
  <2>1. fid + 1 \in 0 .. MaxAdds
    BY <1>0, <1>1 DEF Add, RecTypes
  <2>3. [NoCopy EXCEPT !.op = "add", !.id = fid + 1, !.st = "Ini"] \in Copies
    <3>1. "Ini" \in States /\ "add" \in Ops /\ {} \in SUBSET Atts
      BY <1>s
    <3> QED
      BY <2>1, <1>s, <3>1, CopyRec
  <2>4. WorkTypes'
    BY <1>0, <1>1, <1>l, <2>3, CopyTypes DEF Add
  <2>5. RecTypes'
    BY <1>0, <1>1, <1>s, <2>1 DEF Add, RecTypes, fdepVars
  <2>6. CountTypes' /\ PodTypes'
    BY <1>0, <1>1, FaultTypes, PodsStill DEF Add, FnOk
  <2> QED
    BY <2>4, <2>5, <2>6 DEF FnTypes
<1>2. CASE AddLimited(w)
  BY <1>2, <1>l, StillTypes DEF AddLimited, FnOk
<1>3. CASE AddPut(w)
  <2>1. WorkTypes' /\ gate' \in {"up", "boot", "down", "dead"}
    BY <1>3, <1>l, MoveTypes DEF AddPut
  <2>2. CountTypes' /\ PodTypes'
    BY <1>0, <1>3, FaultTypes, PodsStill DEF AddPut
  <2>3. srcs' \subseteq Versions
    BY <1>0, <1>3, <1>s DEF AddPut, RecTypes
  <2>4. RecTypes'
    BY <1>0, <1>3, <2>1, <2>3 DEF AddPut, RecTypes, recVars, fdepVars
  <2> QED
    BY <2>1, <2>2, <2>4 DEF FnTypes
<1>4. CASE AddSave(w)
  <2>1. WorkTypes' /\ gate' \in {"up", "boot", "down", "dead"}
    BY <1>4, <1>l, MoveTypes DEF AddSave
  <2>2. CountTypes' /\ PodTypes'
    BY <1>0, <1>4, FaultTypes, PodsStill DEF AddSave, FailsIf
  <2>3. fstate' \in States /\ saved' \in BOOLEAN
    BY <1>0, <1>4, <1>s DEF AddSave, RecTypes
  <2>4. RecTypes'
    BY <1>0, <1>4, <2>1, <2>3 DEF AddSave, RecTypes, fdepVars
  <2> QED
    BY <2>1, <2>2, <2>4 DEF FnTypes
<1>5. CASE AddUnput(w)
  <2>1. WorkTypes' /\ gate' \in {"up", "boot", "down", "dead"}
    BY <1>5, <1>l, MoveTypes DEF AddUnput
  <2>2. CountTypes' /\ PodTypes'
    BY <1>0, <1>5, FaultTypes, PodsStill DEF AddUnput
  <2>3. RecTypes'
    BY <1>0, <1>5, <2>1 DEF AddUnput, RecTypes, recVars, fdepVars
  <2> QED
    BY <2>1, <2>2, <2>3 DEF FnTypes
<1>6. CASE AddRemove(w)
  <2>1. WorkTypes' /\ gate' \in {"up", "boot", "down", "dead"}
    BY <1>6, <1>l, MoveTypes DEF AddRemove
  <2>2. CountTypes' /\ PodTypes'
    BY <1>0, <1>6, FaultTypes, PodsStill DEF AddRemove, FailsIf
  <2>3. fstate' \in States
    BY <1>0, <1>6, <1>s DEF AddRemove, RecTypes
  <2>4. RecTypes'
    BY <1>0, <1>6, <2>1, <2>3 DEF AddRemove, RecTypes, fdepVars
  <2> QED
    BY <2>1, <2>2, <2>4 DEF FnTypes
<1>7. CASE ToStalled(w)
  <2>1. WorkTypes' /\ gate' \in {"up", "boot", "down", "dead"}
    BY <1>7, MoveTypes DEF ToStalled
  <2>2. fstate' \in States /\ (FnFault \/ FnOk)
    BY <1>0, <1>7, <1>s, ToStateTypes DEF ToStalled
  <2>3. CountTypes' /\ PodTypes'
    BY <1>0, <1>7, <2>2, FaultTypes, PodsStill DEF ToStalled
  <2>4. RecTypes'
    BY <1>0, <1>7, <2>1, <2>2 DEF ToStalled, RecTypes, fdepVars
  <2> QED
    BY <2>1, <2>3, <2>4 DEF FnTypes
<1> QED
  BY <1>1, <1>2, <1>3, <1>4, <1>5, <1>6, <1>7

\* The deployment that Create makes and that an update leaves.
LEMMA DepTypes ==
    ASSUME FnTypes, NEW c \in Copies
    PROVE  /\ [gen |-> fngen + 1, ver |-> c.ver, atts |-> c.atts, up |-> TRUE] \in Deps
           /\ [fdep EXCEPT !.gen = fngen + 1, !.ver = c.ver, !.atts = c.atts] \in Deps
           /\ [fdep EXCEPT !.gen = fngen + 1, !.up = FALSE] \in Deps
           /\ NoDep \in Deps
<1>1. fdep \in Deps /\ fngen + 1 \in Nat
  BY DEF FnTypes, RecTypes
<1>2. c.ver \in Versions /\ c.atts \in SUBSET Atts /\ 0 \in Versions /\ {} \in SUBSET Atts
  BY Bounds DEF Copies, Versions
<1>3. [gen |-> fngen + 1, ver |-> c.ver, atts |-> c.atts, up |-> TRUE] \in Deps
  BY <1>1, <1>2 DEF Deps
<1>4. [fdep EXCEPT !.gen = fngen + 1, !.ver = c.ver, !.atts = c.atts] \in Deps
  BY <1>1, <1>2 DEF Deps
<1>5. [fdep EXCEPT !.gen = fngen + 1, !.up = FALSE] \in Deps
  BY <1>1 DEF Deps
<1>6. NoDep \in Deps
  BY <1>2 DEF Deps, NoDep
<1> QED
  BY <1>3, <1>4, <1>5, <1>6

\* What a new resourceVersion leaves.
LEMMA DepGens ==
    ASSUME FnTypes
    PROVE  /\ \A v, a : [fdep EXCEPT !.gen = fngen + 1, !.ver = v, !.atts = a].gen = fngen + 1
           /\ [fdep EXCEPT !.gen = fngen + 1, !.up = FALSE].gen = fngen + 1
           /\ NoDep.gen = 0 /\ fngen + 1 \in Nat /\ fngen + 1 # 0
  BY DEF FnTypes, RecTypes, Deps, NoDep

\* The start and the update of a deployment keep the types.
LEMMA StartTypes ==
    ASSUME FnTypes, NEW w \in FnWorkers, Build(w) \/ Create(w) \/ UpdGet(w) \/ UpdPut(w)
    PROVE  FnTypes'
<1>0. RecTypes /\ CountTypes /\ PodTypes /\ WorkTypes /\ loc[w] \in Copies
  BY DEF FnTypes, WorkTypes
<1>l. {"create", "upd_put"} \subseteq FnLabels
  BY DEF FnLabels
<1>1. CASE Build(w)
  <2>1. (\E l \in FnLabels : FnGoto(w, l)) \/ FnFinish(w) \/ FnFail(w)
    BY <1>1, <1>l, HelperMoves DEF Build
  <2> QED
    BY <1>1, <2>1, StillTypes DEF Build
<1>2. CASE Create(w)
  <2>1. (\E l \in FnLabels : FnGoto(w, l)) \/ FnFinish(w) \/ FnFail(w)
    BY <1>2, HelperMoves DEF Create
  <2>2. WorkTypes' /\ gate' \in {"up", "boot", "down", "dead"}
    BY <2>1, MoveTypes
  <2>3. CountTypes' /\ PodTypes'
    BY <1>0, <1>2, FaultTypes, PodsStill DEF Create, FailsIf
  <2>4. fdep' \in Deps /\ fngen' \in Nat /\ fdep'.gen <= fngen'
    <3>1. CASE UNCHANGED fdepVars
      BY <1>0, <3>1 DEF RecTypes, fdepVars
    <3>2. CASE /\ fngen' = fngen + 1
               /\ fdep' = [gen |-> fngen + 1, ver |-> loc[w].ver, atts |-> loc[w].atts, up |-> TRUE]
      <4>1. fdep' \in Deps
        BY <1>0, <3>2, DepTypes
      <4>2. fdep'.gen = fngen + 1 /\ fngen + 1 \in Nat
        BY <3>2, DepGens
      <4> QED
        BY <3>2, <4>1, <4>2
    <3> QED
      BY <1>2, <3>1, <3>2 DEF Create
  <2>5. RecTypes'
    BY <1>0, <1>2, <2>2, <2>4 DEF Create, RecTypes, recVars
  <2> QED
    BY <2>2, <2>3, <2>5 DEF FnTypes
<1>3. CASE UpdGet(w)
  <2>1. CASE FailsIf(fdep.gen = 0) /\ Started(w)
    <3>1. (\E l \in FnLabels : FnGoto(w, l)) \/ FnFinish(w) \/ FnFail(w)
      BY <2>1, HelperMoves
    <3> QED
      BY <1>3, <2>1, <3>1, StillTypes DEF UpdGet, FailsIf
  <2>2. CASE /\ FnOk /\ fpc' = [fpc EXCEPT ![w] = "upd_put"]
             /\ loc' = [loc EXCEPT ![w].gen = fdep.gen] /\ UNCHANGED gate
    <3>1. [loc[w] EXCEPT !.gen = fdep.gen] \in Copies
      BY <1>0 DEF Copies, RecTypes, Deps
    <3>2. WorkTypes'
      BY <1>0, <1>l, <2>2, <3>1, CopyTypes
    <3>3. CountTypes' /\ PodTypes'
      BY <1>0, <1>3, <2>2, FaultTypes, PodsStill DEF UpdGet
    <3>4. RecTypes'
      BY <1>0, <1>3, <2>2 DEF UpdGet, RecTypes, recVars, fdepVars
    <3> QED
      BY <3>2, <3>3, <3>4 DEF FnTypes
  <2> QED
    BY <1>3, <2>1, <2>2 DEF UpdGet
<1>4. CASE UpdPut(w)
  <2>1. (\E l \in FnLabels : FnGoto(w, l)) \/ FnFinish(w) \/ FnFail(w)
    BY <1>4, HelperMoves DEF UpdPut
  <2>2. WorkTypes' /\ gate' \in {"up", "boot", "down", "dead"}
    BY <2>1, MoveTypes
  <2>3. CountTypes' /\ PodTypes'
    BY <1>0, <1>4, FaultTypes, PodsStill DEF UpdPut, FailsIf
  <2>4. fdep' \in Deps /\ fngen' \in Nat /\ fdep'.gen <= fngen'
    <3>1. CASE UNCHANGED fdepVars
      BY <1>0, <3>1 DEF RecTypes, fdepVars
    <3>2. CASE /\ fngen' = fngen + 1
               /\ fdep' = [fdep EXCEPT !.gen = fngen + 1, !.ver = loc[w].ver, !.atts = loc[w].atts]
      <4>1. fdep' \in Deps
        BY <1>0, <3>2, DepTypes
      <4>2. fdep'.gen = fngen + 1 /\ fngen + 1 \in Nat
        BY <3>2, DepGens
      <4> QED
        BY <3>2, <4>1, <4>2
    <3> QED
      BY <1>4, <3>1, <3>2 DEF UpdPut
  <2>5. RecTypes'
    BY <1>0, <1>4, <2>2, <2>4 DEF UpdPut, RecTypes, recVars
  <2> QED
    BY <2>2, <2>3, <2>5 DEF FnTypes
<1> QED
  BY <1>1, <1>2, <1>3, <1>4

\* A push keeps the types.
LEMMA PushTypes ==
    ASSUME FnTypes, NEW w \in FnWorkers, Push(w) \/ PushPut(w) \/ PushSave(w) \/ PushGC(w)
    PROVE  FnTypes'
<1>0. RecTypes /\ CountTypes /\ PodTypes /\ WorkTypes /\ loc[w] \in Copies
  BY DEF FnTypes, WorkTypes
<1>l. {"push_put", "push_save", "upd_get", "create"} \subseteq FnLabels /\ "push" \in Ops /\ "Str" \in States
  BY DEF FnLabels, Ops, States
<1>1. CASE Push(w)
  BY <1>1, <1>l, BeginTypes DEF Push
<1>2. CASE PushPut(w)
  <2>1. loc[w].ver + 1 \in Versions /\ loc[w].ver \in Versions
    BY <1>0, <1>2, Bounds DEF PushPut, Copies, Versions
  <2>2. WorkTypes' /\ gate' \in {"up", "boot", "down", "dead"}
    <3>1. CASE /\ fpc' = [fpc EXCEPT ![w] = "push_save"]
               /\ loc' = [loc EXCEPT ![w].ver = loc[w].ver + 1, ![w].old = loc[w].ver]
               /\ UNCHANGED gate
      <4>1. [loc[w] EXCEPT !.ver = loc[w].ver + 1, !.old = loc[w].ver] \in Copies
        BY <1>0, <2>1 DEF Copies
      <4>2. loc' = [loc EXCEPT ![w] = [loc[w] EXCEPT !.ver = loc[w].ver + 1, !.old = loc[w].ver]]
        BY <1>0, <3>1 DEF WorkTypes
      <4>3. WorkTypes'
        BY <1>0, <1>l, <3>1, <4>1, <4>2, CopyTypes
      <4> QED
        BY <1>0, <3>1, <4>3 DEF RecTypes
    <3>2. CASE FnFinish(w)
      BY <3>2, MoveTypes
    <3> QED
      BY <1>2, <3>1, <3>2 DEF PushPut
  <2>3. CountTypes' /\ PodTypes'
    BY <1>0, <1>2, FaultTypes, PodsStill DEF PushPut
  <2>4. srcs' \subseteq Versions
    BY <1>0, <1>2, <2>1 DEF PushPut, RecTypes
  <2>5. RecTypes'
    BY <1>0, <1>2, <2>2, <2>4 DEF PushPut, RecTypes, recVars, fdepVars
  <2> QED
    BY <2>2, <2>3, <2>5 DEF FnTypes
<1>3. CASE PushSave(w)
  <2>1. WorkTypes' /\ gate' \in {"up", "boot", "down", "dead"}
    BY <1>3, <1>l, MoveTypes DEF PushSave
  <2>2. CountTypes' /\ PodTypes'
    BY <1>0, <1>3, FaultTypes, PodsStill DEF PushSave, FailsIf
  <2>3. fstate' \in States /\ saved' \in BOOLEAN
    BY <1>0, <1>3, <1>l DEF PushSave, RecTypes
  <2>4. fver' \in Versions
    BY <1>0, <1>3 DEF PushSave, RecTypes, Copies
  <2>5. RecTypes'
    BY <1>0, <1>3, <2>1, <2>3, <2>4 DEF PushSave, RecTypes, fdepVars
  <2> QED
    BY <2>1, <2>2, <2>5 DEF FnTypes
<1>4. CASE PushGC(w)
  <2>1. WorkTypes' /\ gate' \in {"up", "boot", "down", "dead"}
    BY <1>4, MoveTypes DEF PushGC
  <2>2. CountTypes' /\ PodTypes'
    BY <1>0, <1>4, FaultTypes, PodsStill DEF PushGC
  <2>3. RecTypes'
    BY <1>0, <1>4, <2>1 DEF PushGC, RecTypes, recVars, fdepVars
  <2> QED
    BY <2>1, <2>2, <2>3 DEF FnTypes
<1> QED
  BY <1>1, <1>2, <1>3, <1>4

\* What an attachment changes of the record and the goroutine.
LEMMA AttachMoves ==
    ASSUME FnTypes, NEW w \in FnWorkers, AttachSave(w)
    PROVE  /\ \/ FnFinish(w)
              \/ \E a \in SUBSET Atts : \E l \in {"upd_get", "idle"} :
                    /\ fpc' = [fpc EXCEPT ![w] = l]
                    /\ loc' = [loc EXCEPT ![w] = [loc[w] EXCEPT !.atts = a]]
                    /\ l = "upd_get" => loc[w].st = "Rdy"
                    /\ UNCHANGED gate
           /\ fatts' \subseteq Atts
<1>0. loc[w] \in Copies /\ fatts \subseteq Atts /\ loc \in [FnWorkers -> Copies] /\ loc[w].atts \subseteq Atts
  BY DEF FnTypes, RecTypes, WorkTypes, Copies
<1>1. CASE FnFinish(w) /\ UNCHANGED fatts
  BY <1>0, <1>1
<1>2. ASSUME NEW a \in Atts,
             fatts' = fatts \cup {a}, loc' = [loc EXCEPT ![w].atts = @ \cup {a}],
             fpc' = [fpc EXCEPT ![w] = IF loc[w].st = "Rdy" THEN "upd_get" ELSE "idle"], UNCHANGED gate
      PROVE  /\ \E b \in SUBSET Atts : \E l \in {"upd_get", "idle"} :
                    /\ fpc' = [fpc EXCEPT ![w] = l]
                    /\ loc' = [loc EXCEPT ![w] = [loc[w] EXCEPT !.atts = b]]
                    /\ l = "upd_get" => loc[w].st = "Rdy"
                    /\ UNCHANGED gate
             /\ fatts' \subseteq Atts
  <2>1. loc' = [loc EXCEPT ![w] = [loc[w] EXCEPT !.atts = loc[w].atts \cup {a}]]
    BY <1>0, <1>2
  <2>2. loc[w].atts \cup {a} \in SUBSET Atts /\ fatts' \subseteq Atts
    BY <1>0, <1>2
  <2> QED
    BY <1>2, <2>1, <2>2
<1>3. ASSUME NEW a \in Atts,
             fatts' = fatts \ {a}, loc' = [loc EXCEPT ![w].atts = @ \ {a}],
             fpc' = [fpc EXCEPT ![w] = IF loc[w].st = "Rdy" THEN "upd_get" ELSE "idle"], UNCHANGED gate
      PROVE  /\ \E b \in SUBSET Atts : \E l \in {"upd_get", "idle"} :
                    /\ fpc' = [fpc EXCEPT ![w] = l]
                    /\ loc' = [loc EXCEPT ![w] = [loc[w] EXCEPT !.atts = b]]
                    /\ l = "upd_get" => loc[w].st = "Rdy"
                    /\ UNCHANGED gate
             /\ fatts' \subseteq Atts
  <2>1. loc' = [loc EXCEPT ![w] = [loc[w] EXCEPT !.atts = loc[w].atts \ {a}]]
    BY <1>0, <1>3
  <2>2. loc[w].atts \ {a} \in SUBSET Atts /\ fatts' \subseteq Atts
    BY <1>0, <1>3
  <2> QED
    BY <1>3, <2>1, <2>2
<1> QED
  BY <1>1, <1>2, <1>3 DEF AttachSave

\* Attachments keep the types.
LEMMA AttachTypes ==
    ASSUME FnTypes, NEW w \in FnWorkers, Attach(w) \/ AttachSave(w)
    PROVE  FnTypes'
<1>0. RecTypes /\ CountTypes /\ PodTypes /\ WorkTypes /\ loc[w] \in Copies
  BY DEF FnTypes, WorkTypes
<1>l. {"attach_save", "upd_get", "idle"} \subseteq FnLabels /\ "attach" \in Ops
  BY DEF FnLabels, Ops
<1>1. CASE Attach(w)
  BY <1>1, <1>l, BeginTypes DEF Attach
<1>2. CASE AttachSave(w)
  <2>1. WorkTypes' /\ gate' \in {"up", "boot", "down", "dead"}
    <3>1. CASE FnFinish(w)
      BY <3>1, MoveTypes
    <3>2. ASSUME NEW a \in SUBSET Atts, NEW l \in {"upd_get", "idle"}, fpc' = [fpc EXCEPT ![w] = l],
                 loc' = [loc EXCEPT ![w] = [loc[w] EXCEPT !.atts = a]], UNCHANGED gate
          PROVE  WorkTypes' /\ gate' \in {"up", "boot", "down", "dead"}
      <4>1. [loc[w] EXCEPT !.atts = a] \in Copies
        BY <1>0 DEF Copies
      <4>2. WorkTypes'
        BY <1>0, <1>l, <3>2, <4>1, CopyTypes
      <4> QED
        BY <1>0, <3>2, <4>2 DEF RecTypes
    <3> QED
      BY <1>2, <3>1, <3>2, AttachMoves
  <2>2. CountTypes' /\ PodTypes'
    BY <1>0, <1>2, FaultTypes, PodsStill DEF AttachSave, FailsIf
  <2>3. fatts' \subseteq Atts
    BY <1>2, AttachMoves
  <2>4. RecTypes'
    BY <1>0, <1>2, <2>1, <2>3 DEF AttachSave, RecTypes, fdepVars
  <2> QED
    BY <2>1, <2>2, <2>4 DEF FnTypes
<1> QED
  BY <1>1, <1>2

\* A removal keeps the types.
LEMMA DelTypes ==
    ASSUME FnTypes, NEW w \in FnWorkers,
           Del(w) \/ DelState(w) \/ DelClean(w) \/ DelSrcs(w) \/ FnDelRemove(w)
    PROVE  FnTypes'
<1>0. RecTypes /\ CountTypes /\ PodTypes /\ WorkTypes
  BY DEF FnTypes
<1>l. {"del_state", "del_clean", "rm_get", "del_srcs", "del_remove"} \subseteq FnLabels
  BY DEF FnLabels
<1>s. "del" \in Ops /\ "Trm" \in States /\ "none" \in States
  BY DEF Ops, States
<1>1. CASE Del(w)
  BY <1>1, <1>l, <1>s, BeginTypes DEF Del
<1>2. CASE DelState(w)
  <2>1. (\E l \in FnLabels : FnGoto(w, l)) \/ FnFinish(w)
    BY <1>2, <1>l DEF DelState
  <2>2. WorkTypes' /\ gate' \in {"up", "boot", "down", "dead"}
    BY <2>1, MoveTypes
  <2>3. CountTypes' /\ PodTypes'
    BY <1>0, <1>2, FaultTypes, PodsStill DEF DelState, FailsIf
  <2>4. fstate' \in States /\ terminated' \in BOOLEAN
    BY <1>0, <1>2, <1>s DEF DelState, RecTypes
  <2>5. RecTypes'
    BY <1>0, <1>2, <2>2, <2>4 DEF DelState, RecTypes, fdepVars
  <2> QED
    BY <2>2, <2>3, <2>5 DEF FnTypes
<1>3. CASE DelClean(w)
  BY <1>3, <1>l, StillTypes DEF DelClean
<1>4. CASE DelSrcs(w)
  <2>1. WorkTypes' /\ gate' \in {"up", "boot", "down", "dead"}
    BY <1>4, <1>l, MoveTypes DEF DelSrcs
  <2>2. CountTypes' /\ PodTypes'
    BY <1>0, <1>4, FaultTypes, PodsStill DEF DelSrcs
  <2>3. RecTypes'
    BY <1>0, <1>4, <2>1 DEF DelSrcs, RecTypes, recVars, fdepVars
  <2> QED
    BY <2>1, <2>2, <2>3 DEF FnTypes
<1>5. CASE FnDelRemove(w)
  <2>1. WorkTypes' /\ gate' \in {"up", "boot", "down", "dead"}
    BY <1>5, MoveTypes DEF FnDelRemove
  <2>2. CountTypes' /\ PodTypes'
    BY <1>0, <1>5, FaultTypes, PodsStill DEF FnDelRemove, FailsIf
  <2>3. RecTypes'
    BY <1>0, <1>5, <1>s, <2>1 DEF FnDelRemove, RecTypes, fdepVars
  <2> QED
    BY <2>1, <2>2, <2>3 DEF FnTypes
<1> QED
  BY <1>1, <1>2, <1>3, <1>4, <1>5

\* k8sRemove keeps the types.
LEMMA RmTypes ==
    ASSUME FnTypes, NEW w \in FnWorkers, RmGet(w) \/ RmShrink(w) \/ RmDelete(w)
    PROVE  FnTypes'
<1>0. RecTypes /\ CountTypes /\ PodTypes /\ WorkTypes /\ loc[w] \in Copies
  BY DEF FnTypes, WorkTypes
<1>l. {"rm_shrink", "rm_delete"} \subseteq FnLabels
  BY DEF FnLabels
<1>1. CASE RmGet(w)
  <2>1. CASE Removed(w) \/ RmFailed(w)
    <3>1. (\E l \in FnLabels : FnGoto(w, l)) \/ FnFinish(w) \/ FnFail(w)
      BY <2>1, HelperMoves
    <3> QED
      BY <1>1, <3>1, StillTypes DEF RmGet
  <2>2. CASE /\ FnOk /\ fpc' = [fpc EXCEPT ![w] = "rm_shrink"]
             /\ loc' = [loc EXCEPT ![w].gen = fdep.gen] /\ UNCHANGED gate
    <3>1. [loc[w] EXCEPT !.gen = fdep.gen] \in Copies
      BY <1>0 DEF Copies, RecTypes, Deps
    <3>2. WorkTypes'
      BY <1>0, <1>l, <2>2, <3>1, CopyTypes
    <3>3. CountTypes' /\ PodTypes'
      BY <1>0, <1>1, <2>2, FaultTypes, PodsStill DEF RmGet
    <3>4. RecTypes'
      BY <1>0, <1>1, <2>2 DEF RmGet, RecTypes, recVars, fdepVars
    <3> QED
      BY <3>2, <3>3, <3>4 DEF FnTypes
  <2> QED
    BY <1>1, <2>1, <2>2 DEF RmGet
<1>2. CASE RmShrink(w)
  <2>1. (\E l \in FnLabels : FnGoto(w, l)) \/ FnFinish(w) \/ FnFail(w)
    BY <1>2, <1>l, HelperMoves DEF RmShrink
  <2>2. WorkTypes' /\ gate' \in {"up", "boot", "down", "dead"}
    BY <2>1, MoveTypes
  <2>3. CountTypes' /\ PodTypes'
    BY <1>0, <1>2, FaultTypes, PodsStill DEF RmShrink, FailsIf
  <2>4. fdep' \in Deps /\ fngen' \in Nat /\ fdep'.gen <= fngen'
    <3>1. CASE UNCHANGED fdepVars
      BY <1>0, <3>1 DEF RecTypes, fdepVars
    <3>2. CASE fngen' = fngen + 1 /\ fdep' = [fdep EXCEPT !.gen = fngen + 1, !.up = FALSE]
      <4>1. fdep' \in Deps
        BY <1>0, <3>2, DepTypes
      <4>2. fdep'.gen = fngen + 1 /\ fngen + 1 \in Nat
        BY <3>2, DepGens
      <4> QED
        BY <3>2, <4>1, <4>2
    <3> QED
      BY <1>2, <3>1, <3>2 DEF RmShrink
  <2>5. RecTypes'
    BY <1>0, <1>2, <2>2, <2>4 DEF RmShrink, RecTypes, recVars
  <2> QED
    BY <2>2, <2>3, <2>5 DEF FnTypes
<1>3. CASE RmDelete(w)
  <2>1. WorkTypes' /\ gate' \in {"up", "boot", "down", "dead"}
    BY <1>3, HelperMoves, MoveTypes DEF RmDelete
  <2>2. CountTypes' /\ PodTypes'
    BY <1>0, <1>3, FaultTypes, PodsStill DEF RmDelete, FailsIf
  <2>3. fdep' \in Deps /\ fdep'.gen <= fngen
    <3>1. CASE UNCHANGED fdep
      BY <1>0, <3>1 DEF RecTypes
    <3>2. CASE fdep' = NoDep
      <4>1. fdep' \in Deps
        BY <1>0, <3>2, DepTypes
      <4>2. fdep'.gen = 0 /\ fngen \in Nat
        BY <1>0, <3>2 DEF NoDep, RecTypes
      <4> QED
        BY <4>1, <4>2
    <3> QED
      BY <1>3, <3>1, <3>2 DEF RmDelete
  <2>4. RecTypes'
    BY <1>0, <1>3, <2>1, <2>3 DEF RmDelete, RecTypes, recVars
  <2> QED
    BY <2>1, <2>2, <2>4 DEF FnTypes
<1> QED
  BY <1>1, <1>2, <1>3

\* Activation and deactivation keep the types.
LEMMA ToggleTypes ==
    ASSUME FnTypes, NEW w \in FnWorkers,
           Deactivate(w) \/ Activate(w) \/ DeactState(w) \/ ActState(w) \/ Untoggle(w)
    PROVE  FnTypes'
<1>0. RecTypes /\ CountTypes /\ PodTypes /\ WorkTypes
  BY DEF FnTypes
<1>l. {"deact_state", "act_state", "rm_get", "create"} \subseteq FnLabels
  BY DEF FnLabels
<1>s. {"deact", "act"} \subseteq Ops /\ {"Rdy", "Dea", "Str"} \subseteq States
  BY DEF Ops, States
<1>d. CASE Deactivate(w)
  BY <1>d, <1>l, <1>s, BeginTypes DEF Deactivate
<1>a. CASE Activate(w)
  BY <1>a, <1>l, <1>s, BeginTypes DEF Activate
<1>2. ASSUME NEW l0, NEW s0, NEW s \in States, NEW l \in FnLabels, Toggle(w, l0, s0, s, l)
      PROVE  FnTypes'
  <2>1. WorkTypes' /\ gate' \in {"up", "boot", "down", "dead"}
    BY <1>2, MoveTypes DEF Toggle
  <2>2. CountTypes' /\ PodTypes'
    BY <1>0, <1>2, FaultTypes, PodsStill DEF Toggle, FailsIf
  <2>3. RecTypes'
    BY <1>0, <1>2, <2>1 DEF Toggle, RecTypes, fdepVars
  <2> QED
    BY <2>1, <2>2, <2>3 DEF FnTypes
<1>3. CASE Untoggle(w)
  <2>1. WorkTypes' /\ gate' \in {"up", "boot", "down", "dead"}
    BY <1>3, MoveTypes DEF Untoggle
  <2>2. fstate' \in States /\ (FnFault \/ FnOk)
    BY <1>0, <1>3, <1>s, ToStateTypes DEF Untoggle
  <2>3. CountTypes' /\ PodTypes'
    BY <1>0, <1>3, <2>2, FaultTypes, PodsStill DEF Untoggle
  <2>4. raced' \in BOOLEAN
    BY <1>0, <1>3 DEF Untoggle, RecTypes
  <2>5. RecTypes'
    BY <1>0, <1>3, <2>1, <2>2, <2>4 DEF Untoggle, RecTypes, fdepVars
  <2> QED
    BY <2>1, <2>3, <2>5 DEF FnTypes
<1> QED
  BY <1>d, <1>a, <1>2, <1>3, <1>l, <1>s DEF DeactState, ActState

\* A refresh keeps the types.
LEMMA RefreshTypes ==
    ASSUME FnTypes, NEW w \in FnWorkers,
           \/ \E op \in {"soft", "hard"} : Refresh(w, op)
           \/ RefreshIni(w) \/ RefreshSkip(w) \/ RefreshLost(w) \/ RefreshPods(w)
    PROVE  FnTypes'
<1>0. RecTypes /\ CountTypes /\ PodTypes /\ WorkTypes
  BY DEF FnTypes
<1>l. {"ref_get", "build", "to_stalled", "idle"} \subseteq FnLabels
  BY DEF FnLabels
<1>n. NoCopy \in Copies /\ 0 \in 0 .. MaxAdds
  <2>1. {} \in SUBSET Atts /\ 0 \in 0 .. MaxAdds /\ 0 \in Versions /\ 0 \in Nat
    BY Bounds DEF Versions
  <2>2. "none" \in Ops /\ "none" \in States
    BY DEF Ops, States
  <2> QED
    BY <2>1, <2>2 DEF NoCopy, Copies
<1>1. ASSUME NEW op \in {"soft", "hard"}, Refresh(w, op) PROVE FnTypes'
  <2>1. op \in Ops
    BY DEF Ops
  <2> QED
    BY <1>1, <1>l, <2>1, BeginTypes DEF Refresh
<1>2. CASE RefreshIni(w)
  <2>1. WorkTypes'
    BY <1>2, <1>l, <1>n DEF RefreshIni, WorkTypes
  <2>2. RecTypes'
    BY <1>0, <1>2 DEF RefreshIni, RecTypes, recVars, fdepVars
  <2>3. CountTypes'
    BY <1>0, <1>2, FaultTypes DEF RefreshIni, FnOk
  <2>4. PodTypes'
    BY <1>0, <1>2, <1>n DEF RefreshIni, PodTypes, NoWaiter
  <2> QED
    BY <2>1, <2>2, <2>3, <2>4 DEF FnTypes
<1>3. CASE RefreshSkip(w)
  BY <1>3, StillTypes DEF RefreshSkip, FnOk
<1>4. CASE RefreshLost(w)
  BY <1>4, <1>l, StillTypes DEF RefreshLost
<1>5. CASE RefreshPods(w)
  <2>1. WorkTypes' /\ gate' \in {"up", "boot", "down", "dead"}
    BY <1>5, MoveTypes DEF RefreshPods
  <2>2. RecTypes'
    BY <1>0, <1>5, <2>1 DEF RefreshPods, RecTypes, recVars, fdepVars
  <2>3. CountTypes'
    BY <1>0, <1>5, FaultTypes DEF RefreshPods, FnOk
  <2>4. PodTypes'
    BY <1>0, <1>5, <1>n DEF RefreshPods, PodTypes
  <2> QED
    BY <2>1, <2>2, <2>3, <2>4 DEF FnTypes
<1> QED
  BY <1>1, <1>2, <1>3, <1>4, <1>5

\* The copy of the refresh that a restart begins with.
BootCopy == [NoCopy EXCEPT !.op = "soft", !.id = fid, !.st = fstate, !.ver = fver, !.atts = fatts]

\* What a restart leaves of the goroutines.
LEMMA RestartMoves ==
    ASSUME FnTypes, NEW w \in FnWorkers, FnRestart(w)
    PROVE  /\ fstate # "none" =>
                /\ fpc' = [v \in FnWorkers |-> IF v = w THEN "ref_get" ELSE "idle"]
                /\ loc' = [v \in FnWorkers |-> IF v = w THEN BootCopy ELSE NoCopy]
           /\ fstate = "none" =>
                /\ fpc' = [v \in FnWorkers |-> "idle"] /\ loc' = [v \in FnWorkers |-> NoCopy]
           /\ gate' \in {"up", "boot"}
  BY DEF FnRestart, BootCopy

\* A restart keeps the types.
LEMMA RestartTypes ==
    ASSUME FnTypes, NEW w \in FnWorkers, FnRestart(w)
    PROVE  FnTypes'
<1>0. RecTypes /\ CountTypes /\ PodTypes /\ WorkTypes
  BY DEF FnTypes
<1>l. "ref_get" \in FnLabels /\ "idle" \in FnLabels /\ "soft" \in Ops
  BY DEF FnLabels, Ops
<1>n. NoCopy \in Copies /\ BootCopy \in Copies /\ 0 \in 0 .. MaxAdds
  <2>1. {} \in SUBSET Atts /\ 0 \in 0 .. MaxAdds /\ 0 \in Versions /\ 0 \in Nat
    BY Bounds DEF Versions
  <2>2. "none" \in Ops /\ "none" \in States
    BY DEF Ops, States
  <2>3. BootCopy \in Copies
    BY <1>0, <1>l, CopyRec DEF BootCopy, RecTypes
  <2> QED
    BY <2>1, <2>2, <2>3 DEF NoCopy, Copies
<1>1. WorkTypes'
  <2>1. CASE fstate # "none"
    BY <1>l, <1>n, <2>1, RestartMoves DEF WorkTypes
  <2>2. CASE fstate = "none"
    BY <1>l, <1>n, <2>2, RestartMoves DEF WorkTypes
  <2> QED
    BY <2>1, <2>2
<1>2. raced' \in BOOLEAN
  BY <1>0 DEF FnRestart, RecTypes
<1>3. RecTypes'
  BY <1>0, <1>2, RestartMoves DEF FnRestart, RecTypes, fdepVars
<1>4. CountTypes'
  BY <1>0, Bounds DEF FnRestart, CountTypes
<1>5. PodTypes'
  BY <1>0, <1>n DEF FnRestart, PodTypes, NoWaiter
<1> QED
  BY <1>1, <1>3, <1>4, <1>5 DEF FnTypes

\* Pods and their goroutines keep the types.
LEMMA PodStepTypes ==
    ASSUME FnTypes, NEW p \in DepPods, FnPodStep(p)
    PROVE  FnTypes'
<1>0. RecTypes /\ CountTypes /\ PodTypes /\ WorkTypes
  BY DEF FnTypes
<1>n. NoWaiter \in [at : {"no", "port", "add", "find", "set"}, id : 0 .. MaxAdds]
  BY Bounds DEF NoWaiter
<1>1. CASE PodStart(p)
  <2>1. [st |-> "up", ver |-> fdep.ver, gen |-> fdep.gen]
          \in [st : {"fresh", "up", "dead"}, ver : Versions, gen : Nat]
    BY <1>0 DEF RecTypes, Deps
  <2>2. PodTypes'
    BY <1>0, <1>1, <2>1 DEF PodStart, PodTypes
  <2>3. CountTypes'
    BY <1>0, <1>1, FaultTypes DEF PodStart, FnOk
  <2>4. RecTypes' /\ WorkTypes'
    BY <1>0, <1>1 DEF PodStart, RecTypes, WorkTypes, recVars, fdepVars
  <2> QED
    BY <2>2, <2>3, <2>4 DEF FnTypes
<1>2. CASE PodStop(p)
  <2>1. PodTypes'
    BY <1>0, <1>2 DEF PodStop, PodTypes
  <2>2. CountTypes'
    BY <1>0, <1>2, Bounds DEF PodStop, CountTypes
  <2>3. RecTypes' /\ WorkTypes'
    BY <1>0, <1>2 DEF PodStop, RecTypes, WorkTypes, recVars, fdepVars
  <2> QED
    BY <2>1, <2>2, <2>3 DEF FnTypes
<1>3. CASE PortOpen(p) \/ PodAdd(p)
  <2>1. PodTypes'
    BY <1>0, <1>3 DEF PortOpen, PodAdd, PodTypes
  <2>2. CountTypes'
    BY <1>0, <1>3, FaultTypes DEF PortOpen, PodAdd, FnOk
  <2>3. RecTypes' /\ WorkTypes'
    BY <1>0, <1>3 DEF PortOpen, PodAdd, RecTypes, WorkTypes, recVars, fdepVars
  <2> QED
    BY <2>1, <2>2, <2>3 DEF FnTypes
<1>4. CASE PortTimeout(p)
  <2>1. PodTypes'
    BY <1>0, <1>4 DEF PortTimeout, PodTypes
  <2>2. CountTypes'
    BY <1>0, <1>4, FaultTypes DEF PortTimeout
  <2>3. RecTypes' /\ WorkTypes'
    BY <1>0, <1>4 DEF PortTimeout, RecTypes, WorkTypes, recVars, fdepVars
  <2> QED
    BY <2>1, <2>2, <2>3 DEF FnTypes
<1>5. CASE NotifyFind(p)
  <2>1. [at |-> "set", id |-> fid] \in [at : {"no", "port", "add", "find", "set"}, id : 0 .. MaxAdds]
    BY <1>0 DEF RecTypes
  <2>2. PodTypes'
    <3>1. fwaiter' = [fwaiter EXCEPT ![p] = [at |-> "set", id |-> fid]] \/ fwaiter' = [fwaiter EXCEPT ![p] = NoWaiter]
      BY <1>5 DEF NotifyFind
    <3>2. fwaiter' \in [DepPods -> [at : {"no", "port", "add", "find", "set"}, id : 0 .. MaxAdds]]
      BY <1>0, <1>n, <2>1, <3>1 DEF PodTypes
    <3> QED
      BY <1>0, <1>5, <3>2 DEF NotifyFind, PodTypes
  <2>3. CountTypes'
    BY <1>0, <1>5, FaultTypes DEF NotifyFind, FailsIf
  <2>4. RecTypes' /\ WorkTypes'
    BY <1>0, <1>5 DEF NotifyFind, RecTypes, WorkTypes, recVars, fdepVars
  <2> QED
    BY <2>2, <2>3, <2>4 DEF FnTypes
<1>6. CASE NotifySet(p)
  <2>1. PodTypes'
    BY <1>0, <1>6, <1>n DEF NotifySet, PodTypes
  <2>2. CountTypes'
    BY <1>0, <1>6, FaultTypes DEF NotifySet, FailsIf
  <2>3. fstate' \in States
    BY <1>0, <1>6 DEF NotifySet, RecTypes, States
  <2>4. RecTypes' /\ WorkTypes'
    BY <1>0, <1>6, <2>3 DEF NotifySet, RecTypes, WorkTypes, fdepVars
  <2> QED
    BY <2>1, <2>2, <2>4 DEF FnTypes
<1> QED
  BY <1>1, <1>2, <1>3, <1>4, <1>5, <1>6 DEF FnPodStep

\* Every step keeps the types.
LEMMA TypesNext == ASSUME FnTypes, FnNext PROVE FnTypes'
<1>1. ASSUME NEW w \in FnWorkers, FnRequest(w) \/ AddLimited(w) \/ FnStep(w) \/ FnRestart(w) PROVE FnTypes'
  <2>1. CASE FnRequest(w)
    BY <2>1, AddTypes, PushTypes, AttachTypes, DelTypes, ToggleTypes, RefreshTypes DEF FnRequest
  <2>2. CASE FnStep(w)
    BY <2>2, AddTypes, StartTypes, PushTypes, AttachTypes, DelTypes, RmTypes, ToggleTypes, RefreshTypes
       DEF FnStep
  <2> QED
    BY <1>1, <2>1, <2>2, AddTypes, RestartTypes
<1>2. ASSUME NEW p \in DepPods, FnPodStep(p) PROVE FnTypes'
  BY <1>2, PodStepTypes
<1> QED
  BY <1>1, <1>2 DEF FnNext

\* Nothing changes in a stuttering step.
LEMMA TypesStutter == ASSUME FnTypes, UNCHANGED fnVars PROVE FnTypes'
  BY DEF FnTypes, RecTypes, CountTypes, PodTypes, WorkTypes, fnVars, recVars, fdepVars, fpodVars

\* The types at the start.
LEMMA TypesInit == ASSUME FnInit PROVE FnTypes
<1>1. {} \in SUBSET Atts /\ 0 \in 0 .. MaxAdds /\ 0 \in Versions /\ 0 \in Nat
  BY Bounds DEF Versions
<1>2. "none" \in Ops /\ "none" \in States /\ "idle" \in FnLabels
  BY DEF Ops, States, FnLabels
<1>3. NoCopy \in Copies /\ NoDep \in Deps /\ NoDep.gen = 0
  BY <1>1, <1>2 DEF NoCopy, Copies, NoDep, Deps
<1>4. RecTypes
  <2>1. fdep \in Deps /\ fngen = 0 /\ fdep.gen = 0
    BY <1>3 DEF FnInit
  <2>2. /\ fstate \in States /\ fid \in 0 .. MaxAdds /\ fver \in Versions /\ fatts \subseteq Atts
        /\ saved = FALSE /\ terminated = FALSE /\ raced = FALSE
        /\ srcs \subseteq Versions /\ gate = "up"
    BY <1>1, <1>2 DEF FnInit
  <2>3. fdep.gen <= fngen /\ fngen \in Nat
    BY <2>1
  <2>4. saved \in BOOLEAN /\ terminated \in BOOLEAN /\ raced \in BOOLEAN
    BY <2>2
  <2> QED
    BY <2>1, <2>2, <2>3, <2>4 DEF RecTypes
<1>5. CountTypes /\ WorkTypes
  BY <1>2, <1>3, Bounds DEF FnInit, CountTypes, WorkTypes
<1>6. PodTypes
  BY <1>1 DEF FnInit, PodTypes, NoWaiter
<1> QED
  BY <1>4, <1>5, <1>6 DEF FnTypes

\* The record of a function, the copies requests work from, its deployment and its pods
\* keep their types, whatever requests, errors and restarts interleave (function.go, k8s.go).
THEOREM FnTypesHold == FnSpec => []FnTypeOK
<1>1. FnInit => FnTypes
  BY TypesInit
<1>2. FnTypes /\ [FnNext]_fnVars => FnTypes'
  BY TypesNext, TypesStutter
<1>3. FnTypes => FnTypeOK
  BY DEF FnTypes, FnTypeOK, RecTypes, CountTypes, PodTypes, WorkTypes
<1> QED
  BY <1>1, <1>2, <1>3, PTL DEF FnSpec

-----------------------------------------------------------------------------
(* Labels and operations.                                                  *)

\* the other goroutines stand still
Others(w) == \A v \in FnWorkers : v # w => fpc'[v] = fpc[v] /\ loc'[v] = loc[v]

\* A goroutine goes on: the others do not.
LEMMA GoMoves ==
    ASSUME FnTypes, NEW w \in FnWorkers, NEW l, FnGoto(w, l)
    PROVE  Others(w) /\ fpc'[w] = l /\ loc'[w] = loc[w] /\ gate' = gate
  BY DEF FnTypes, WorkTypes, FnGoto, Others

\* A request ends: the others go on.
LEMMA EndMoves ==
    ASSUME FnTypes, NEW w \in FnWorkers, FnFinish(w) \/ FnFail(w)
    PROVE  Others(w) /\ fpc'[w] = "idle" /\ loc'[w] = NoCopy /\ (gate' = "dead" <=> gate = "dead")
  BY DEF FnTypes, WorkTypes, FnFinish, FnFail, EndAs, Others

\* A goroutine goes on with a new copy.
LEMMA CopyMoves ==
    ASSUME FnTypes, NEW w \in FnWorkers, NEW l, NEW c,
           fpc' = [fpc EXCEPT ![w] = l], loc' = [loc EXCEPT ![w] = c]
    PROVE  Others(w) /\ fpc'[w] = l /\ loc'[w] = c
  BY DEF FnTypes, WorkTypes, Others

\* Goroutines fit when the one that moved does.
LEMMA FitsAgain ==
    ASSUME LabelsFit, NEW w \in FnWorkers, Others(w), Fits(fpc'[w], loc'[w])
    PROVE  LabelsFit'
<1> SUFFICES ASSUME NEW v \in FnWorkers PROVE Fits(fpc'[v], loc'[v])
  BY DEF LabelsFit
<1>1. CASE v = w
  BY <1>1
<1>2. CASE v # w
  BY <1>2 DEF LabelsFit, Others
<1> QED
  BY <1>1, <1>2

\* Nobody is out of place when idle.
LEMMA IdleFits == ASSUME NEW c PROVE Fits("idle", c)
  BY DEF Fits, AddLabels, DelLabels, RmLabels, SavedLabels

\* A goroutine that ends, or goes where its operation goes.
LEMMA GoFits ==
    ASSUME FnTypes, NEW w \in FnWorkers,
           FnFinish(w) \/ FnFail(w) \/ \E l \in FnLabels : FnGoto(w, l) /\ Fits(l, loc[w])
    PROVE  Others(w) /\ Fits(fpc'[w], loc'[w])
<1>1. CASE FnFinish(w) \/ FnFail(w)
  BY <1>1, EndMoves, IdleFits
<1>2. CASE \E l \in FnLabels : FnGoto(w, l) /\ Fits(l, loc[w])
  BY <1>2, GoMoves
<1> QED
  BY <1>1, <1>2

\* Where the helpers lead fits the operation.
LEMMA HelperFits ==
    ASSUME NEW w \in FnWorkers, Fits(fpc[w], loc[w]),
           \/ fpc[w] \in {"build", "create"} /\ StartFailed(w)
           \/ fpc[w] \in {"create", "upd_get", "upd_put"} /\ Started(w)
           \/ fpc[w] \in RmLabels /\ (Removed(w) \/ RmFailed(w))
    PROVE  FnFinish(w) \/ FnFail(w) \/ \E l \in FnLabels : FnGoto(w, l) /\ Fits(l, loc[w])
<1>1. CASE fpc[w] \in {"build", "create"} /\ StartFailed(w)
  BY <1>1 DEF StartFailed, Fits, FnLabels, AddLabels, DelLabels, RmLabels, SavedLabels
<1>2. CASE fpc[w] \in {"create", "upd_get", "upd_put"} /\ Started(w)
  BY <1>2 DEF Started, Fits, FnLabels, AddLabels, DelLabels, RmLabels, SavedLabels
<1>3. CASE fpc[w] \in RmLabels /\ (Removed(w) \/ RmFailed(w))
  BY <1>3 DEF Removed, RmFailed, Fits, FnLabels, AddLabels, DelLabels, RmLabels, SavedLabels
<1> QED
  BY <1>1, <1>2, <1>3

\* A request begins with a label of its operation.
LEMMA BeginFits ==
    ASSUME FnTypes, NEW w \in FnWorkers, NEW op, NEW l, NEW sts, FnBegin(w, op, l, sts),
           \/ l = "push_put" /\ op = "push"
           \/ l = "attach_save" /\ op = "attach"
           \/ l = "del_state" /\ op = "del"
           \/ l = "deact_state" /\ op = "deact"
           \/ l = "act_state" /\ op = "act"
           \/ l = "ref_get" /\ op \in {"soft", "hard"}
    PROVE  Others(w) /\ Fits(fpc'[w], loc'[w])
<1>1. PICK c : c = [NoCopy EXCEPT !.op = op, !.id = fid, !.st = fstate, !.ver = fver, !.atts = fatts]
  OBVIOUS
<1>2. c.op = op
  BY <1>1 DEF NoCopy
<1>3. Others(w) /\ fpc'[w] = l /\ loc'[w] = c
  BY <1>1, CopyMoves DEF FnBegin
<1>4. Fits(l, c)
  BY <1>2 DEF Fits, AddLabels, DelLabels, RmLabels, SavedLabels
<1> QED
  BY <1>3, <1>4

\* Requests begin in place.
LEMMA RequestFits ==
    ASSUME FnTypes, NEW w \in FnWorkers, FnRequest(w)
    PROVE  Others(w) /\ Fits(fpc'[w], loc'[w])
<1>1. CASE Add(w)
  <2>1. PICK c : c = [NoCopy EXCEPT !.op = "add", !.id = fid + 1, !.st = "Ini"]
    OBVIOUS
  <2>2. c.op = "add"
    BY <2>1 DEF NoCopy
  <2>3. Others(w) /\ fpc'[w] = "add_put" /\ loc'[w] = c
    BY <1>1, <2>1, CopyMoves DEF Add
  <2>4. Fits("add_put", c)
    BY <2>2 DEF Fits, AddLabels, DelLabels, RmLabels, SavedLabels
  <2> QED
    BY <2>3, <2>4
<1>2. CASE Push(w) \/ Attach(w) \/ Del(w)
  BY <1>2, BeginFits DEF Push, Attach, Del
<1>3. CASE Deactivate(w) \/ Activate(w)
  BY <1>3, BeginFits DEF Deactivate, Activate
<1>4. ASSUME NEW op \in {"soft", "hard"}, Refresh(w, op)
      PROVE  Others(w) /\ Fits(fpc'[w], loc'[w])
  BY <1>4, BeginFits DEF Refresh
<1> QED
  BY <1>1, <1>2, <1>3, <1>4 DEF FnRequest

\* Steps lead in place.
LEMMA StepFits ==
    ASSUME FnTypes, NEW w \in FnWorkers, Fits(fpc[w], loc[w]), AddLimited(w) \/ FnStep(w), ~RefreshIni(w)
    PROVE  Others(w) /\ Fits(fpc'[w], loc'[w])
<1> DEFINE Leads == FnFinish(w) \/ FnFail(w) \/ \E l \in FnLabels : FnGoto(w, l) /\ Fits(l, loc[w])
<1>0. loc[w] \in Copies
  BY DEF FnTypes, WorkTypes
<1>1. CASE AddLimited(w) \/ AddPut(w) \/ AddSave(w) \/ AddUnput(w) \/ AddRemove(w) \/ ToStalled(w)
  <2>1. Leads
    BY <1>1 DEF AddLimited, AddPut, AddSave, AddUnput, AddRemove, ToStalled,
                Fits, FnLabels, AddLabels, DelLabels, RmLabels, SavedLabels
  <2> QED
    BY <2>1, GoFits
<1>2. CASE Build(w) \/ Create(w)
  <2>1. CASE StartFailed(w) \/ (fpc[w] = "create" /\ Started(w))
    <3>1. fpc[w] \in {"build", "create"}
      BY <1>2 DEF Build, Create
    <3>2. Leads
      BY <2>1, <3>1, HelperFits
    <3> QED
      BY <3>2, GoFits
  <2>2. CASE fpc[w] = "build" /\ FnGoto(w, "create")
    <3>1. Leads
      BY <2>2 DEF Fits, FnLabels, AddLabels, DelLabels, RmLabels, SavedLabels
    <3> QED
      BY <3>1, GoFits
  <2> QED
    BY <1>2, <2>1, <2>2 DEF Build, Create
<1>3. CASE UpdGet(w) \/ UpdPut(w)
  <2>1. fpc[w] \in {"upd_get", "upd_put"}
    BY <1>3 DEF UpdGet, UpdPut
  <2>2. CASE Started(w)
    <3>1. Leads
      BY <2>1, <2>2, HelperFits
    <3> QED
      BY <3>1, GoFits
  <2>3. CASE fpc[w] = "upd_get" /\ fdep.gen # 0 /\ fpc' = [fpc EXCEPT ![w] = "upd_put"] /\ loc' = [loc EXCEPT ![w].gen = fdep.gen]
    <3>1. PICK c : c = [loc[w] EXCEPT !.gen = fdep.gen]
      OBVIOUS
    <3>2. c.op = loc[w].op /\ c.gen # 0 /\ c.old = loc[w].old /\ c.ver = loc[w].ver
      BY <1>0, <2>3, <3>1 DEF Copies
    <3>3. Others(w) /\ fpc'[w] = "upd_put" /\ loc'[w] = c
      BY <2>3, <3>1, CopyMoves
    <3>4. Fits("upd_put", c)
      BY <2>3, <3>2 DEF Fits, AddLabels, DelLabels, RmLabels, SavedLabels
    <3> QED
      BY <3>3, <3>4
  <2> QED
    BY <1>3, <2>2, <2>3 DEF UpdGet, UpdPut
<1>4. CASE PushPut(w)
  <2>1. CASE FnFinish(w)
    BY <2>1, GoFits
  <2>2. CASE /\ fpc' = [fpc EXCEPT ![w] = "push_save"]
             /\ loc' = [loc EXCEPT ![w].ver = loc[w].ver + 1, ![w].old = loc[w].ver]
    <3>1. PICK c : c = [loc[w] EXCEPT !.ver = loc[w].ver + 1, !.old = loc[w].ver]
      OBVIOUS
    <3>2. loc' = [loc EXCEPT ![w] = c]
      BY <2>2, <3>1 DEF FnTypes, WorkTypes
    <3>3. c.op = "push" /\ c.old # c.ver
      BY <1>0, <1>4, <3>1, Bounds DEF Copies, Versions, PushPut, Fits
    <3>4. Others(w) /\ fpc'[w] = "push_save" /\ loc'[w] = c
      BY <2>2, <3>2, CopyMoves
    <3>5. Fits("push_save", c)
      BY <3>3 DEF Fits, AddLabels, DelLabels, RmLabels, SavedLabels
    <3> QED
      BY <3>4, <3>5
  <2> QED
    BY <1>4, <2>1, <2>2 DEF PushPut
<1>5. CASE PushSave(w) \/ PushGC(w)
  <2>1. Leads
    BY <1>5 DEF PushSave, PushGC, Fits, FnLabels, AddLabels, DelLabels, RmLabels, SavedLabels
  <2> QED
    BY <2>1, GoFits
<1>6. CASE AttachSave(w)
  <2>1. CASE FnFinish(w)
    BY <2>1, GoFits
  <2>2. ASSUME NEW a \in SUBSET Atts, NEW l \in {"upd_get", "idle"}, fpc' = [fpc EXCEPT ![w] = l],
               loc' = [loc EXCEPT ![w] = [loc[w] EXCEPT !.atts = a]]
        PROVE  Others(w) /\ Fits(fpc'[w], loc'[w])
    <3>1. PICK c : c = [loc[w] EXCEPT !.atts = a]
      OBVIOUS
    <3>2. c.op = "attach"
      BY <1>0, <1>6, <3>1 DEF Copies, AttachSave, Fits
    <3>3. Others(w) /\ fpc'[w] = l /\ loc'[w] = c
      BY <2>2, <3>1, CopyMoves
    <3>4. Fits(l, c)
      BY <2>2, <3>2 DEF Fits, AddLabels, DelLabels, RmLabels, SavedLabels
    <3> QED
      BY <3>3, <3>4
  <2> QED
    BY <1>6, <2>1, <2>2, AttachMoves
<1>7. CASE DelState(w) \/ DelClean(w) \/ DelSrcs(w) \/ FnDelRemove(w)
  <2>1. Leads
    BY <1>7 DEF DelState, DelClean, DelSrcs, FnDelRemove, Fits, FnLabels, AddLabels, DelLabels, RmLabels, SavedLabels
  <2> QED
    BY <2>1, GoFits
<1>8. CASE RmGet(w) \/ RmShrink(w) \/ RmDelete(w)
  <2>1. fpc[w] \in RmLabels
    BY <1>8 DEF RmGet, RmShrink, RmDelete, RmLabels
  <2>2. CASE Removed(w) \/ RmFailed(w)
    <3>1. Leads
      BY <2>1, <2>2, HelperFits
    <3> QED
      BY <3>1, GoFits
  <2>3. CASE FnGoto(w, "rm_delete")
    <3>1. Leads
      BY <2>1, <2>3 DEF Fits, FnLabels, AddLabels, DelLabels, RmLabels, SavedLabels
    <3> QED
      BY <3>1, GoFits
  <2>4. CASE fdep.gen # 0 /\ fpc' = [fpc EXCEPT ![w] = "rm_shrink"] /\ loc' = [loc EXCEPT ![w].gen = fdep.gen]
    <3>1. PICK c : c = [loc[w] EXCEPT !.gen = fdep.gen]
      OBVIOUS
    <3>2. c.op = loc[w].op /\ c.gen # 0
      BY <1>0, <2>4, <3>1 DEF Copies
    <3>3. Others(w) /\ fpc'[w] = "rm_shrink" /\ loc'[w] = c
      BY <2>4, <3>1, CopyMoves
    <3>4. Fits("rm_shrink", c)
      BY <2>1, <3>2 DEF Fits, AddLabels, DelLabels, RmLabels, SavedLabels
    <3> QED
      BY <3>3, <3>4
  <2> QED
    BY <1>8, <2>2, <2>3, <2>4 DEF RmGet, RmShrink, RmDelete
<1>9. CASE DeactState(w) \/ ActState(w) \/ Untoggle(w)
  <2>1. Leads
    BY <1>9 DEF DeactState, ActState, Toggle, Untoggle, Fits, FnLabels, AddLabels, DelLabels, RmLabels, SavedLabels
  <2> QED
    BY <2>1, GoFits
<1>10. CASE RefreshSkip(w) \/ RefreshLost(w) \/ RefreshPods(w)
  <2>1. Leads
    BY <1>10 DEF RefreshSkip, RefreshLost, RefreshPods, Fits, FnLabels, AddLabels, DelLabels, RmLabels, SavedLabels
  <2> QED
    BY <2>1, GoFits
<1> QED
  BY <1>1, <1>2, <1>3, <1>4, <1>5, <1>6, <1>7, <1>8, <1>9, <1>10 DEF FnStep

-----------------------------------------------------------------------------
(* The only request at work.                                               *)

\* nobody but w starts or stops the deployment
Lonely(w) == \A v \in FnWorkers : Deploys(v) => v = w

\* what is known when w is the only one
Sole(w) ==
    /\ fpc[w] # "idle" => Knows(w)
    /\ fstate = "none" => fdep.gen = 0
    /\ fstate = "Dea" => fdep.gen = 0 \/ Deactivating(w)
    /\ SourcesKept

\* Who deactivates is at work.
LEMMA DeactivatingDeploys == ASSUME NEW w \in FnWorkers, Deactivating(w) PROVE Deploys(w)
  BY DEF Deactivating, Deploys, RmLabels

\* The only one knows.
LEMMA SoleBefore ==
    ASSUME AloneInv, ~raced, NEW w \in FnWorkers, Deploys(w)
    PROVE  Lonely(w) /\ Sole(w)
<1>1. Lonely(w) /\ Knows(w)
  BY DEF AloneInv, Lonely
<1>2. fstate = "Dea" => fdep.gen = 0 \/ Deactivating(w)
  BY <1>1, DeactivatingDeploys DEF AloneInv, Lonely
<1> QED
  BY <1>1, <1>2 DEF AloneInv, Sole

\* What the only one knows is all.
LEMMA SoleAfter ==
    ASSUME NEW w \in FnWorkers, Lonely(w), Others(w), Sole(w)'
    PROVE  AloneInv'
<1>1. \A v \in FnWorkers : Deploys(v)' => v = w
  BY DEF Lonely, Others, Deploys
<1>2. \A v \in FnWorkers : Deploys(v)' => Knows(v)'
  BY <1>1 DEF Sole, Deploys
<1>3. fstate' = "Dea" => fdep'.gen = 0 \/ \E v \in FnWorkers : Deactivating(v)'
  BY DEF Sole
<1>4. SourcesKept' /\ (fstate' = "none" => fdep'.gen = 0)
  BY DEF Sole
<1> QED
  BY <1>1, <1>2, <1>3, <1>4 DEF AloneInv

\* What is known of a goroutine depends on the record, the deployment, the sources
\* and the goroutine alone.
LEMMA StillKnows ==
    ASSUME NEW v \in FnWorkers, fpc'[v] = fpc[v], loc'[v] = loc[v],
           UNCHANGED <<fstate, fid, fver, saved, terminated, srcs>>,
           fdep'.gen = 0 <=> fdep.gen = 0, Knows(v)
    PROVE  Knows(v)'
  BY DEF Knows

\* Attachments leave to the others what they know.
LEMMA AttachAlone ==
    ASSUME AloneInv, NEW w \in FnWorkers, ~Deploys(w), ~Deploys(w)', Others(w), raced' = raced,
           UNCHANGED <<fstate, fid, fver, saved, terminated, srcs>>,
           fdep'.gen = 0 <=> fdep.gen = 0, gate' = "dead" <=> gate = "dead"
    PROVE  AloneInv'
<1> SUFFICES ASSUME ~raced PROVE AloneInv'
  BY DEF AloneInv
<1>1. \A v \in FnWorkers : Deploys(v)' => Deploys(v) /\ v # w
  BY DEF Others, Deploys
<1>2. \A v \in FnWorkers : Deploys(v)' => Knows(v)'
  <2> SUFFICES ASSUME NEW v \in FnWorkers, Deploys(v)' PROVE Knows(v)'
    OBVIOUS
  <2>1. fpc'[v] = fpc[v] /\ loc'[v] = loc[v] /\ Knows(v)
    BY <1>1 DEF Others, AloneInv
  <2> QED
    BY <2>1, StillKnows
<1>3. \A v \in FnWorkers : Deactivating(v) => Deactivating(v)'
  <2>1. ~Deactivating(w)
    BY DeactivatingDeploys
  <2> QED
    BY <2>1 DEF Deactivating, Others
<1>4. fstate' = "Dea" => fdep'.gen = 0 \/ \E v \in FnWorkers : Deactivating(v)'
  BY <1>3 DEF AloneInv
<1>5. SourcesKept' /\ (fstate' = "none" => fdep'.gen = 0)
  BY DEF AloneInv, SourcesKept
<1>6. \A u, v \in FnWorkers : Deploys(u)' /\ Deploys(v)' => u = v
  BY <1>1 DEF AloneInv
<1> QED
  BY <1>2, <1>4, <1>5, <1>6 DEF AloneInv

\* A request that begins.
LEMMA BeginAlone ==
    ASSUME FnInv, NEW w \in FnWorkers, NEW op \in Ops \ {"none"}, NEW l, NEW sts, FnBegin(w, op, l, sts), "none" \notin sts,
           \/ l = "push_put" /\ op = "push"
           \/ l = "attach_save" /\ op = "attach"
           \/ l = "del_state" /\ op = "del"
           \/ l = "deact_state" /\ op = "deact"
           \/ l = "act_state" /\ op = "act"
           \/ l = "ref_get" /\ op \in {"soft", "hard"}
    PROVE  AloneInv'
<1>1. PICK c : c = [NoCopy EXCEPT !.op = op, !.id = fid, !.st = fstate, !.ver = fver, !.atts = fatts]
  OBVIOUS
<1>2. c.op = op /\ c.id = fid /\ c.st = fstate
  BY <1>1 DEF NoCopy
<1>3. Others(w) /\ fpc'[w] = l /\ loc'[w] = c /\ fpc[w] = "idle"
  BY <1>1, CopyMoves DEF FnBegin, FnInv
<1>4. /\ UNCHANGED <<fstate, fid, fver, saved, terminated, srcs, gate>> /\ fdep' = fdep
      /\ raced' = (raced \/ (op # "attach" /\ Deploying # {})) /\ fstate # "none"
  BY DEF FnBegin, fdepVars
<1>5. CASE op = "attach"
  <2>1. ~Deploys(w) /\ ~Deploys(w)' /\ raced' = raced
    <3>1. raced \in BOOLEAN
      BY DEF FnInv, FnTypes, RecTypes
    <3> QED
      BY <1>2, <1>3, <1>4, <1>5, <3>1 DEF Deploys
  <2> QED
    BY <1>3, <1>4, <2>1, AttachAlone DEF FnInv
<1>6. CASE op # "attach"
  <2> SUFFICES ASSUME ~raced' PROVE AloneInv'
    BY DEF AloneInv
  <2>1. ~raced /\ \A v \in FnWorkers : ~Deploys(v)
    BY <1>4, <1>6 DEF Deploying, Deploys
  <2>2. Lonely(w)
    BY <2>1 DEF Lonely
  <2>3. (fstate = "none" => fdep.gen = 0) /\ (fstate = "Dea" => fdep.gen = 0) /\ SourcesKept
    BY <2>1, DeactivatingDeploys DEF FnInv, AloneInv
  <2>4. Knows(w)'
    BY <1>2, <1>3, <1>4 DEF Knows, AddLabels, DelLabels, SavedLabels
  <2>5. Sole(w)'
    BY <1>4, <2>3, <2>4 DEF Sole, SourcesKept
  <2> QED
    BY <1>3, <2>2, <2>5, SoleAfter
<1> QED
  BY <1>5, <1>6

\* Requests that begin.
LEMMA RequestAlone == ASSUME FnInv, NEW w \in FnWorkers, FnRequest(w) PROVE AloneInv'
<1>o. /\ {"push", "attach", "del", "deact", "act", "soft", "hard"} \subseteq Ops \ {"none"}
      /\ "none" \notin {"Rdy", "Stl"} /\ "none" \notin States \ {"none"} /\ "none" \notin {"Rdy"}
      /\ "none" \notin {"Dea"} /\ "none" \notin {"Dea", "Str", "Rdy", "Stl", "Trm"}
  BY DEF Ops
<1>1. CASE Add(w)
  <2> SUFFICES ASSUME ~raced' PROVE AloneInv'
    BY DEF AloneInv
  <2>1. PICK c : c = [NoCopy EXCEPT !.op = "add", !.id = fid + 1, !.st = "Ini"]
    OBVIOUS
  <2>2. c.op = "add" /\ c.id = fid + 1
    BY <2>1 DEF NoCopy
  <2>3. Others(w) /\ fpc'[w] = "add_put" /\ loc'[w] = c
    BY <1>1, <2>1, CopyMoves DEF Add, FnInv
  <2>4. ~raced /\ \A v \in FnWorkers : ~Deploys(v)
    BY <1>1 DEF Add, Deploying, Deploys
  <2>5. Lonely(w)
    BY <2>4 DEF Lonely
  <2>6. /\ fstate' = "Ini" /\ fid' = fid + 1 /\ fver' = 0 /\ saved' = FALSE /\ fdep' = fdep
        /\ fdep.gen = 0
    BY <1>1, <2>4 DEF Add, fdepVars, FnInv, AloneInv
  <2>7. Knows(w)'
    BY <2>2, <2>3, <2>6 DEF Knows, AddLabels, DelLabels, SavedLabels
  <2>8. Sole(w)'
    BY <2>6, <2>7 DEF Sole, SourcesKept
  <2> QED
    BY <2>3, <2>5, <2>8, SoleAfter
<1>2. CASE Push(w)
  BY <1>2, <1>o, BeginAlone DEF Push
<1>3. CASE Attach(w)
  BY <1>3, <1>o, BeginAlone DEF Attach
<1>4. CASE Del(w)
  BY <1>4, <1>o, BeginAlone DEF Del
<1>5. CASE Deactivate(w)
  BY <1>5, <1>o, BeginAlone DEF Deactivate
<1>6. CASE Activate(w)
  BY <1>6, <1>o, BeginAlone DEF Activate
<1>7. ASSUME NEW op \in {"soft", "hard"}, Refresh(w, op) PROVE AloneInv'
  BY <1>7, <1>o, BeginAlone DEF Refresh
<1> QED
  BY <1>1, <1>2, <1>3, <1>4, <1>5, <1>6, <1>7 DEF FnRequest

\* What is at hand when a goroutine takes a step of a request that deploys.
LEMMA StepHand ==
    ASSUME FnInv, NEW w \in FnWorkers, fpc[w] # "idle", loc[w].op # "attach", ~raced
    PROVE  Lonely(w) /\ Sole(w) /\ Knows(w) /\ Fits(fpc[w], loc[w])
<1>1. Deploys(w)
  BY DEF Deploys
<1>2. Lonely(w) /\ Sole(w)
  BY <1>1, SoleBefore DEF FnInv
<1> QED
  BY <1>2 DEF Sole, FnInv, LabelsFit

\* A step after which the goroutine still knows what there is to know.
LEMMA StepAlone ==
    ASSUME FnInv, NEW w \in FnWorkers, FnStep(w) \/ AddLimited(w), ~RefreshIni(w),
           fpc[w] # "idle", loc[w].op # "attach",
           raced' = FALSE => raced = FALSE, ~raced /\ ~raced' => Sole(w)'
    PROVE  AloneInv'
<1> SUFFICES ASSUME ~raced' PROVE AloneInv'
  BY DEF AloneInv
<1>1. ~raced
  <2>1. raced \in BOOLEAN
    BY DEF FnInv, FnTypes, RecTypes
  <2>2. raced' \in BOOLEAN
    <3>1. FnTypes'
      BY TypesNext DEF FnInv, FnNext
    <3> QED
      BY <3>1 DEF FnTypes, RecTypes
  <2> QED
    BY <2>1, <2>2
<1>2. Lonely(w)
  BY <1>1, StepHand
<1>3. Others(w)
  BY StepFits DEF FnInv, LabelsFit
<1> QED
  BY <1>1, <1>2, <1>3, SoleAfter

\* Add.
LEMMA AddAlone ==
    ASSUME FnInv, NEW w \in FnWorkers,
           AddLimited(w) \/ AddPut(w) \/ AddSave(w) \/ AddUnput(w) \/ AddRemove(w)
    PROVE  AloneInv'
<1>1. fpc[w] \in AddLabels /\ fpc[w] # "idle" /\ Fits(fpc[w], loc[w]) /\ ~RefreshIni(w) /\ FnTypes
  BY DEF AddLimited, AddPut, AddSave, AddUnput, AddRemove, AddLabels, RefreshIni, FnInv, LabelsFit
<1>2. loc[w].op = "add"
  BY <1>1 DEF Fits
<1>3. raced' = raced
  BY DEF AddLimited, AddPut, AddSave, AddUnput, AddRemove, recVars
<1>4. ASSUME ~raced PROVE Sole(w)'
  <2>1. Knows(w) /\ Sole(w)
    BY <1>1, <1>2, <1>4, StepHand
  <2>2. /\ fdep.gen = 0 /\ fdep' = fdep /\ fid' = fid /\ fid = loc[w].id /\ fver' = fver /\ ~saved /\ fver = 0
        /\ terminated' = terminated /\ fstate # "none"
    BY <1>1, <2>1 DEF Knows, AddLimited, AddPut, AddSave, AddUnput, AddRemove, recVars, fdepVars
  <2>3. CASE AddLimited(w)
    <3>1. fpc'[w] = "add_remove" /\ loc'[w] = loc[w] /\ UNCHANGED <<fstate, saved, srcs>>
      BY <1>1, <2>3, GoMoves DEF AddLimited, recVars
    <3> QED
      BY <1>2, <2>2, <3>1 DEF Sole, Knows, SourcesKept, AddLabels, DelLabels, SavedLabels
  <2>4. CASE AddPut(w)
    <3>1. \/ fpc'[w] = "add_save" /\ 0 \in srcs'
          \/ fpc'[w] = "add_remove"
      BY <1>1, <2>4, GoMoves DEF AddPut
    <3>2. loc'[w] = loc[w] /\ UNCHANGED <<fstate, saved>>
      BY <1>1, <2>4, GoMoves DEF AddPut, recVars
    <3> QED
      BY <1>2, <2>2, <3>1, <3>2 DEF Sole, Knows, SourcesKept, AddLabels, DelLabels, SavedLabels
  <2>5. CASE AddSave(w)
    <3>1. \/ fpc'[w] = "build" /\ fstate' = "Str"
          \/ fpc'[w] = "add_unput" /\ UNCHANGED <<fstate, saved>>
      BY <1>1, <2>5, GoMoves DEF AddSave
    <3>2. loc'[w] = loc[w] /\ srcs' = srcs /\ 0 \in srcs
      BY <1>1, <2>1, <2>5, GoMoves DEF AddSave, Knows
    <3> QED
      BY <1>2, <2>2, <3>1, <3>2 DEF Sole, Knows, SourcesKept, AddLabels, DelLabels, SavedLabels
  <2>6. CASE AddUnput(w)
    <3>1. fpc'[w] \in {"add_remove", "to_stalled"} /\ loc'[w] = loc[w] /\ UNCHANGED <<fstate, saved>>
      BY <1>1, <2>6, GoMoves DEF AddUnput, recVars
    <3> QED
      BY <1>2, <2>2, <3>1 DEF Sole, Knows, SourcesKept, AddLabels, DelLabels, SavedLabels
  <2>7. CASE AddRemove(w)
    <3>1. \/ fpc'[w] = "idle" /\ fstate' = "none"
          \/ fpc'[w] = "to_stalled" /\ loc'[w] = loc[w] /\ UNCHANGED fstate
      BY <1>1, <2>7, GoMoves, EndMoves DEF AddRemove
    <3>2. UNCHANGED <<saved, srcs>>
      BY <2>7 DEF AddRemove
    <3> QED
      BY <1>2, <2>2, <3>1, <3>2 DEF Sole, Knows, SourcesKept, AddLabels, DelLabels, SavedLabels
  <2> QED
    BY <2>3, <2>4, <2>5, <2>6, <2>7
<1> QED
  BY <1>1, <1>2, <1>3, <1>4, StepAlone DEF FnStep

\* The end in a state, and the states that are taken back.
LEMMA StateAlone ==
    ASSUME FnInv, NEW w \in FnWorkers, ToStalled(w) \/ Untoggle(w)
    PROVE  AloneInv'
<1>1. /\ fpc[w] \in {"to_stalled", "to_rdy", "to_dea"} /\ fpc[w] # "idle" /\ Fits(fpc[w], loc[w])
      /\ ~RefreshIni(w) /\ FnTypes
  BY DEF ToStalled, Untoggle, RefreshIni, FnInv, LabelsFit
<1>2. loc[w].op # "attach" /\ (fpc[w] = "to_dea" => loc[w].op = "act")
  BY <1>1 DEF Fits
<1>3. raced' = FALSE => raced = FALSE
  <2>1. raced \in BOOLEAN
    BY DEF FnInv, FnTypes, RecTypes
  <2>2. raced' = raced \/ raced' = (raced \/ fstate' # "Rdy")
    BY DEF ToStalled, Untoggle
  <2> QED
    BY <2>1, <2>2
<1>4. ASSUME ~raced, ~raced' PROVE Sole(w)'
  <2>1. Knows(w) /\ Sole(w)
    BY <1>1, <1>2, <1>4, StepHand
  <2>2. /\ fpc'[w] = "idle" /\ (gate' = "dead" <=> gate = "dead")
        /\ UNCHANGED <<fver, saved, terminated, srcs>> /\ fdep' = fdep
    BY <1>1, EndMoves DEF ToStalled, Untoggle, fdepVars
  <2>3. fstate # "none" /\ fstate' # "none"
    BY <2>1 DEF Knows, ToStalled, Untoggle, ToState
  <2>4. fstate' = "Dea" => fdep.gen = 0
    <3>1. CASE fpc[w] = "to_stalled"
      BY <2>1, <3>1 DEF ToStalled, Untoggle, ToState, Sole, Deactivating, RmLabels
    <3>2. CASE fpc[w] = "to_rdy"
      BY <1>4, <3>2 DEF ToStalled, Untoggle
    <3>3. CASE fpc[w] = "to_dea"
      BY <2>1, <3>3 DEF Knows
    <3> QED
      BY <1>1, <3>1, <3>2, <3>3
  <2>5. SourcesKept'
    BY <2>1, <2>2, <2>3 DEF Sole, SourcesKept
  <2> QED
    BY <2>2, <2>3, <2>4, <2>5 DEF Sole
<1> QED
  BY <1>1, <1>2, <1>3, <1>4, StepAlone DEF FnStep

\* A build and a creation.
LEMMA StartAlone ==
    ASSUME FnInv, NEW w \in FnWorkers, Build(w) \/ Create(w)
    PROVE  AloneInv'
<1>1. fpc[w] \in {"build", "create"} /\ fpc[w] # "idle" /\ Fits(fpc[w], loc[w]) /\ ~RefreshIni(w) /\ FnTypes
  BY DEF Build, Create, RefreshIni, FnInv, LabelsFit
<1>2. loc[w].op \in {"add", "push", "act", "soft", "hard"} /\ (fpc[w] = "build" => loc[w].op \in {"add", "soft", "hard"})
  BY <1>1 DEF Fits
<1>3. raced' = raced
  BY DEF Build, Create, recVars
<1>4. ASSUME ~raced PROVE Sole(w)'
  <2>1. Knows(w) /\ Sole(w)
    BY <1>1, <1>2, <1>4, StepHand
  <2>2. UNCHANGED <<fstate, fid, fver, saved, terminated, srcs>> /\ fstate \notin {"none", "Dea"} /\ fid = loc[w].id
    BY <1>1, <2>1 DEF Knows, Build, Create, recVars
  <2>3. /\ fpc'[w] \in {"idle", "to_stalled", "to_dea", "push_gc", "create"}
        /\ fpc'[w] # "idle" => loc'[w] = loc[w]
        /\ gate' = "dead" <=> gate = "dead"
        /\ fpc'[w] = "to_dea" => loc[w].op = "act" /\ fdep' = fdep /\ fpc[w] = "create"
        /\ fpc'[w] = "push_gc" => loc[w].op = "push" /\ fpc[w] = "create"
        /\ fpc'[w] = "create" => fpc[w] = "build"
    <3>1. CASE Build(w) /\ FnGoto(w, "create")
      BY <1>1, <3>1, GoMoves DEF Build
    <3>2. CASE StartFailed(w) /\ fdep' = fdep
      BY <1>1, <1>2, <3>2, GoMoves, EndMoves DEF StartFailed
    <3>3. CASE Create(w) /\ Started(w)
      BY <1>1, <3>3, GoMoves, EndMoves DEF Create, Started
    <3> QED
      BY <3>1, <3>2, <3>3 DEF Build, Create, fdepVars
  <2>4. SourcesKept'
    BY <2>1, <2>2, <2>3 DEF Sole, SourcesKept
  <2>5. fpc'[w] # "idle" => Knows(w)'
    BY <1>1, <1>2, <2>1, <2>2, <2>3 DEF Knows, AddLabels, DelLabels, SavedLabels
  <2> QED
    BY <2>2, <2>4, <2>5 DEF Sole
<1> QED
  BY <1>1, <1>2, <1>3, <1>4, StepAlone DEF FnStep

\* An update of the deployment, by a push or an attachment.
LEMMA UpdAlone ==
    ASSUME FnInv, NEW w \in FnWorkers, UpdGet(w) \/ UpdPut(w)
    PROVE  AloneInv'
<1>1. fpc[w] \in {"upd_get", "upd_put"} /\ fpc[w] # "idle" /\ Fits(fpc[w], loc[w]) /\ ~RefreshIni(w) /\ FnTypes
  BY DEF UpdGet, UpdPut, RefreshIni, FnInv, LabelsFit
<1>2. loc[w].op \in {"push", "attach"} /\ (fpc[w] = "upd_put" => loc[w].gen # 0)
  BY <1>1 DEF Fits
<1>3. raced' = raced /\ UNCHANGED <<fstate, fid, fver, saved, terminated, srcs>>
  BY DEF UpdGet, UpdPut, recVars
<1>4. fdep'.gen = 0 <=> fdep.gen = 0
  <2>1. CASE UpdGet(w)
    BY <2>1 DEF UpdGet, fdepVars
  <2>2. CASE UpdPut(w)
    <3>1. CASE UNCHANGED fdepVars
      BY <3>1 DEF fdepVars
    <3>2. CASE /\ fdep.gen = loc[w].gen
               /\ fdep' = [fdep EXCEPT !.gen = fngen + 1, !.ver = loc[w].ver, !.atts = loc[w].atts]
      <4>1. fdep'.gen = fngen + 1 /\ fngen + 1 # 0
        BY <1>1, <3>2, DepGens
      <4>2. fdep.gen # 0
        BY <1>2, <2>2, <3>2 DEF UpdPut
      <4> QED
        BY <4>1, <4>2
    <3> QED
      BY <2>2, <3>1, <3>2 DEF UpdPut
  <2> QED
    BY <2>1, <2>2
<1>5. /\ Others(w) /\ (gate' = "dead" <=> gate = "dead")
      /\ fpc'[w] \in {"idle", "push_gc", "upd_put"}
      /\ fpc'[w] = "push_gc" => loc[w].op = "push" /\ loc'[w] = loc[w]
      /\ fpc'[w] = "upd_put" => loc'[w].op = loc[w].op /\ loc'[w].id = loc[w].id /\ loc'[w].ver = loc[w].ver
  <2>1. CASE Started(w)
    BY <1>1, <2>1, GoMoves, EndMoves DEF Started
  <2>2. CASE /\ fpc' = [fpc EXCEPT ![w] = "upd_put"] /\ loc' = [loc EXCEPT ![w].gen = fdep.gen]
             /\ UNCHANGED gate
    <3>1. PICK c : c = [loc[w] EXCEPT !.gen = fdep.gen]
      OBVIOUS
    <3>2. loc[w] \in Copies
      BY <1>1 DEF FnTypes, WorkTypes
    <3>3. c.op = loc[w].op /\ c.id = loc[w].id /\ c.ver = loc[w].ver
      BY <3>1, <3>2 DEF Copies
    <3>4. Others(w) /\ fpc'[w] = "upd_put" /\ loc'[w] = c
      BY <1>1, <2>2, <3>1, CopyMoves
    <3> QED
      BY <2>2, <3>3, <3>4
  <2> QED
    BY <2>1, <2>2 DEF UpdGet, UpdPut
<1>6. CASE loc[w].op = "attach"
  <2>1. ~Deploys(w) /\ ~Deploys(w)'
    BY <1>5, <1>6 DEF Deploys
  <2> QED
    BY <1>3, <1>4, <1>5, <2>1, AttachAlone DEF FnInv
<1>7. CASE loc[w].op = "push"
  <2>1. ASSUME ~raced PROVE Sole(w)'
    <3>1. Knows(w) /\ Sole(w)
      BY <1>1, <1>7, <2>1, StepHand
    <3>2. fstate # "none" /\ fid = loc[w].id /\ fver = loc[w].ver
      BY <1>1, <1>7, <3>1 DEF Knows, SavedLabels
    <3>3. fpc'[w] # "idle" => Knows(w)'
      BY <1>3, <1>5, <1>7, <3>2 DEF Knows, AddLabels, DelLabels, SavedLabels
    <3>4. ~Deactivating(w)
      BY <1>7 DEF Deactivating
    <3> QED
      BY <1>3, <1>4, <1>5, <3>1, <3>2, <3>3, <3>4 DEF Sole, SourcesKept
  <2> QED
    BY <1>1, <1>3, <1>7, <2>1, StepAlone DEF FnStep
<1> QED
  BY <1>2, <1>6, <1>7

\* The sources of a push.
LEMMA PushAlone ==
    ASSUME FnInv, NEW w \in FnWorkers, PushPut(w) \/ PushSave(w) \/ PushGC(w)
    PROVE  AloneInv'
<1>1. /\ fpc[w] \in {"push_put", "push_save", "push_gc"} /\ fpc[w] # "idle" /\ Fits(fpc[w], loc[w])
      /\ ~RefreshIni(w) /\ FnTypes /\ loc[w] \in Copies
  BY DEF PushPut, PushSave, PushGC, RefreshIni, FnInv, LabelsFit, FnTypes, WorkTypes
<1>2. loc[w].op = "push" /\ (fpc[w] \in {"push_save", "push_gc"} => loc[w].old # loc[w].ver)
  BY <1>1 DEF Fits, SavedLabels
<1>3. raced' = raced /\ fdep' = fdep /\ UNCHANGED <<fid, terminated>>
  BY DEF PushPut, PushSave, PushGC, recVars, fdepVars
<1>4. ASSUME ~raced PROVE Sole(w)'
  <2>1. Knows(w) /\ Sole(w) /\ ~Deactivating(w)
    BY <1>1, <1>2, <1>4, StepHand DEF Deactivating
  <2>2. fstate # "none" /\ fid = loc[w].id
    BY <2>1 DEF Knows
  <2>3. CASE PushPut(w)
    <3>1. UNCHANGED <<fstate, fver, saved>> /\ srcs \subseteq srcs'
      BY <2>3 DEF PushPut, recVars
    <3>2. \/ fpc'[w] = "idle" /\ (gate' = "dead" <=> gate = "dead")
          \/ /\ fpc'[w] = "push_save" /\ loc'[w].op = "push" /\ loc'[w].id = loc[w].id
             /\ loc'[w].ver \in srcs' /\ gate' = gate
      <4>1. CASE FnFinish(w)
        BY <1>1, <4>1, EndMoves
      <4>2. CASE /\ fpc' = [fpc EXCEPT ![w] = "push_save"] /\ srcs' = srcs \cup {loc[w].ver + 1}
                 /\ loc' = [loc EXCEPT ![w].ver = loc[w].ver + 1, ![w].old = loc[w].ver] /\ UNCHANGED gate
        <5>1. PICK c : c = [loc[w] EXCEPT !.ver = loc[w].ver + 1, !.old = loc[w].ver]
          OBVIOUS
        <5>2. loc' = [loc EXCEPT ![w] = c]
          BY <1>1, <4>2, <5>1 DEF FnTypes, WorkTypes
        <5>3. c.op = "push" /\ c.id = loc[w].id /\ c.ver = loc[w].ver + 1
          BY <1>1, <1>2, <5>1 DEF Copies
        <5>4. fpc'[w] = "push_save" /\ loc'[w] = c
          BY <1>1, <4>2, <5>2, CopyMoves
        <5>5. loc'[w].op = "push" /\ loc'[w].id = loc[w].id /\ loc'[w].ver \in srcs'
          <6>1. loc[w].ver + 1 \in srcs'
            BY <4>2
          <6> QED
            BY <5>3, <5>4, <6>1
        <5>6. gate' = gate
          BY <4>2
        <5> QED
          BY <5>4, <5>5, <5>6
      <4> QED
        BY <2>3, <4>1, <4>2 DEF PushPut
    <3>3. fpc'[w] # "idle" => Knows(w)'
      BY <1>3, <2>2, <3>1, <3>2 DEF Knows, AddLabels, DelLabels, SavedLabels
    <3> QED
      BY <1>3, <2>1, <2>2, <3>1, <3>2, <3>3 DEF Sole, SourcesKept
  <2>4. CASE PushSave(w)
    <3>1. srcs' = srcs /\ (loc[w].ver \in srcs \/ terminated)
      BY <2>1, <2>4 DEF PushSave, Knows
    <3>2. CASE UNCHANGED <<fver, fstate, saved>> /\ FnFinish(w)
      <4>1. fpc'[w] = "idle" /\ (gate' = "dead" <=> gate = "dead")
        BY <1>1, <3>2, EndMoves
      <4> QED
        BY <1>3, <2>1, <2>2, <3>1, <3>2, <4>1 DEF Sole, SourcesKept
    <3>3. CASE /\ fver' = loc[w].ver /\ saved' = TRUE
               /\ \/ loc[w].st = "Rdy" /\ UNCHANGED fstate /\ FnGoto(w, "upd_get")
                  \/ loc[w].st = "Stl" /\ fstate' = "Str" /\ FnGoto(w, "create")
      <4>1. /\ (fpc'[w] = "upd_get" /\ fstate' = fstate) \/ (fpc'[w] = "create" /\ fstate' = "Str")
            /\ loc'[w] = loc[w] /\ gate' = gate
        BY <1>1, <3>3, GoMoves
      <4>2. Knows(w)'
        BY <1>2, <1>3, <2>2, <3>3, <4>1 DEF Knows, AddLabels, DelLabels, SavedLabels
      <4> QED
        BY <1>3, <2>1, <2>2, <3>1, <3>3, <4>1, <4>2 DEF Sole, SourcesKept
    <3> QED
      BY <2>4, <3>2, <3>3 DEF PushSave
  <2>5. CASE PushGC(w)
    <3>1. UNCHANGED <<fstate, fver, saved>> /\ (srcs' = srcs \/ srcs' = srcs \ {loc[w].old}) /\ fver = loc[w].ver
      BY <1>2, <2>1, <2>5 DEF PushGC, recVars, Knows, SavedLabels
    <3>2. fpc'[w] = "idle" /\ (gate' = "dead" <=> gate = "dead")
      BY <1>1, <2>5, EndMoves DEF PushGC
    <3>3. fver \in srcs => fver \in srcs'
      BY <1>2, <2>5, <3>1 DEF PushGC
    <3> QED
      BY <1>3, <2>1, <2>2, <3>1, <3>2, <3>3 DEF Sole, SourcesKept
  <2> QED
    BY <2>3, <2>4, <2>5
<1> QED
  BY <1>1, <1>2, <1>3, <1>4, StepAlone DEF FnStep

\* An attachment that is saved.
LEMMA AttachSaveAlone ==
    ASSUME FnInv, NEW w \in FnWorkers, AttachSave(w)
    PROVE  AloneInv'
<1>1. fpc[w] = "attach_save" /\ Fits(fpc[w], loc[w]) /\ FnTypes /\ loc[w] \in Copies /\ loc[w].op = "attach"
  <2>1. fpc[w] = "attach_save" /\ Fits(fpc[w], loc[w]) /\ FnTypes /\ loc[w] \in Copies
    BY DEF AttachSave, FnInv, LabelsFit, FnTypes, WorkTypes
  <2> QED
    BY <2>1 DEF Fits
<1>2. UNCHANGED <<raced, fdep, fstate, fid, fver, saved, terminated, srcs>>
  BY DEF AttachSave, fdepVars
<1>3. Others(w) /\ (fpc'[w] = "idle" \/ loc'[w].op = "attach") /\ (gate' = "dead" <=> gate = "dead")
  <2>1. CASE FnFinish(w)
    BY <1>1, <2>1, EndMoves
  <2>2. ASSUME NEW a \in SUBSET Atts, NEW l \in {"upd_get", "idle"}, fpc' = [fpc EXCEPT ![w] = l],
               loc' = [loc EXCEPT ![w] = [loc[w] EXCEPT !.atts = a]], UNCHANGED gate
        PROVE  Others(w) /\ (fpc'[w] = "idle" \/ loc'[w].op = "attach") /\ (gate' = "dead" <=> gate = "dead")
    <3>1. PICK c : c = [loc[w] EXCEPT !.atts = a]
      OBVIOUS
    <3>2. c.op = "attach"
      BY <1>1, <3>1 DEF Copies
    <3>3. Others(w) /\ loc'[w] = c
      BY <1>1, <2>2, <3>1, CopyMoves
    <3> QED
      BY <2>2, <3>2, <3>3
  <2> QED
    BY <1>1, <2>1, <2>2, AttachMoves
<1>4. ~Deploys(w) /\ ~Deploys(w)'
  BY <1>1, <1>3 DEF Deploys
<1> QED
  BY <1>2, <1>3, <1>4, AttachAlone DEF FnInv

\* A removal of the record.
LEMMA DelAlone ==
    ASSUME FnInv, NEW w \in FnWorkers, DelState(w) \/ DelClean(w) \/ DelSrcs(w) \/ FnDelRemove(w)
    PROVE  AloneInv'
<1>1. /\ fpc[w] \in DelLabels \cup {"del_state"} /\ fpc[w] # "idle" /\ Fits(fpc[w], loc[w])
      /\ ~RefreshIni(w) /\ FnTypes
  BY DEF DelState, DelClean, DelSrcs, FnDelRemove, RefreshIni, FnInv, LabelsFit, DelLabels
<1>2. loc[w].op = "del"
  BY <1>1 DEF Fits
<1>3. raced' = raced /\ fdep' = fdep /\ UNCHANGED <<fid, fver, saved>>
  BY DEF DelState, DelClean, DelSrcs, FnDelRemove, recVars, fdepVars
<1>4. ASSUME ~raced PROVE Sole(w)'
  <2>1. Knows(w) /\ Sole(w) /\ ~Deactivating(w)
    BY <1>1, <1>2, <1>4, StepHand DEF Deactivating
  <2>2. fstate # "none" /\ fid = loc[w].id
    BY <2>1 DEF Knows
  <2>3. CASE DelState(w)
    <3>1. srcs' = srcs
      BY <2>3 DEF DelState
    <3>2. CASE UNCHANGED <<fstate, terminated>> /\ FnFinish(w)
      <4>1. fpc'[w] = "idle" /\ (gate' = "dead" <=> gate = "dead")
        BY <1>1, <3>2, EndMoves
      <4> QED
        BY <1>3, <2>1, <2>2, <3>1, <3>2, <4>1 DEF Sole, SourcesKept
    <3>3. CASE /\ fstate = loc[w].st /\ fstate' = "Trm" /\ terminated' = TRUE
               /\ FnGoto(w, IF loc[w].st = "Dea" THEN "del_clean" ELSE "rm_get")
      <4>1. /\ fpc'[w] = (IF fstate = "Dea" THEN "del_clean" ELSE "rm_get")
            /\ loc'[w] = loc[w] /\ gate' = gate
        BY <1>1, <3>3, GoMoves
      <4>2. fstate = "Dea" => fdep.gen = 0
        BY <2>1 DEF Sole
      <4>3. Knows(w)'
        BY <1>2, <1>3, <2>2, <3>3, <4>1, <4>2 DEF Knows, AddLabels, DelLabels, SavedLabels
      <4> QED
        BY <3>3, <4>3 DEF Sole, SourcesKept
    <3> QED
      BY <2>3, <3>2, <3>3 DEF DelState
  <2>4. CASE DelClean(w) \/ DelSrcs(w)
    <3>1. fdep.gen = 0 /\ terminated
      BY <1>2, <2>1, <2>4 DEF Knows, DelClean, DelSrcs, DelLabels
    <3>2. UNCHANGED <<fstate, terminated>>
      BY <2>4 DEF DelClean, DelSrcs, recVars
    <3>3. fpc'[w] = "idle" \/ (fpc'[w] \in DelLabels /\ loc'[w] = loc[w])
      BY <1>1, <2>4, GoMoves, EndMoves DEF DelClean, DelSrcs, DelLabels
    <3>4. fpc'[w] # "idle" => Knows(w)'
      BY <1>2, <1>3, <2>2, <3>1, <3>2, <3>3 DEF Knows, AddLabels, DelLabels, SavedLabels
    <3> QED
      BY <1>3, <2>2, <3>1, <3>2, <3>4 DEF Sole, SourcesKept
  <2>5. CASE FnDelRemove(w)
    <3>1. fdep.gen = 0 /\ terminated
      BY <1>2, <2>1, <2>5 DEF Knows, FnDelRemove, DelLabels
    <3>2. fpc'[w] = "idle" /\ terminated' = terminated
      BY <1>1, <2>5, EndMoves DEF FnDelRemove
    <3> QED
      BY <1>3, <3>1, <3>2 DEF Sole, SourcesKept
  <2> QED
    BY <2>3, <2>4, <2>5
<1> QED
  BY <1>1, <1>2, <1>3, <1>4, StepAlone DEF FnStep

\* The deployment of a function that is removed or deactivated.
LEMMA RmAlone ==
    ASSUME FnInv, NEW w \in FnWorkers, RmGet(w) \/ RmShrink(w) \/ RmDelete(w)
    PROVE  AloneInv'
<1>1. /\ fpc[w] \in RmLabels /\ fpc[w] # "idle" /\ fpc[w] # "del_state" /\ Fits(fpc[w], loc[w])
      /\ ~RefreshIni(w) /\ FnTypes /\ loc[w] \in Copies
  BY DEF RmGet, RmShrink, RmDelete, RefreshIni, FnInv, LabelsFit, RmLabels, FnTypes, WorkTypes
<1>2. loc[w].op \in {"del", "deact"} /\ (fpc[w] = "rm_shrink" => loc[w].gen # 0)
  BY <1>1 DEF Fits
<1>3. raced' = raced /\ UNCHANGED <<fstate, fid, fver, saved, terminated, srcs>>
  BY DEF RmGet, RmShrink, RmDelete, recVars
<1>4. ASSUME ~raced PROVE Sole(w)'
  <2>1. Knows(w) /\ Sole(w)
    BY <1>1, <1>2, <1>4, StepHand
  <2>2. fstate # "none" /\ fid = loc[w].id /\ (loc[w].op = "del" => terminated)
    BY <1>1, <2>1 DEF Knows
  \* removed, failed, or on the way
  <2>3. \/ Removed(w) /\ fdep'.gen = 0
        \/ RmFailed(w) /\ fdep' = fdep
        \/ /\ fpc'[w] \in {"rm_shrink", "rm_delete"} /\ loc'[w].op = loc[w].op /\ loc'[w].id = loc[w].id
           /\ gate' = gate /\ fdep.gen # 0
    <3>1. CASE RmGet(w)
      <4>1. CASE fdep.gen # 0 /\ fpc' = [fpc EXCEPT ![w] = "rm_shrink"] /\ loc' = [loc EXCEPT ![w].gen = fdep.gen] /\ UNCHANGED gate
        <5>1. PICK c : c = [loc[w] EXCEPT !.gen = fdep.gen]
          OBVIOUS
        <5>2. c.op = loc[w].op /\ c.id = loc[w].id
          BY <1>1, <5>1 DEF Copies
        <5>3. fpc'[w] = "rm_shrink" /\ loc'[w] = c
          BY <1>1, <4>1, <5>1, CopyMoves
        <5> QED
          BY <4>1, <5>2, <5>3
      <4> QED
        BY <3>1, <4>1 DEF RmGet, fdepVars
    <3>2. CASE RmShrink(w)
      <4>1. CASE fdep.gen = loc[w].gen /\ FnGoto(w, "rm_delete")
        <5>1. fdep.gen # 0
          BY <1>2, <3>2, <4>1 DEF RmShrink
        <5>2. fpc'[w] = "rm_delete" /\ loc'[w] = loc[w] /\ gate' = gate
          BY <1>1, <4>1, GoMoves
        <5> QED
          BY <5>1, <5>2
      <4> QED
        BY <3>2, <4>1 DEF RmShrink, fdepVars
    <3>3. CASE RmDelete(w)
      BY <3>3 DEF RmDelete, NoDep
    <3> QED
      BY <3>1, <3>2, <3>3
  <2>4. CASE Removed(w) /\ fdep'.gen = 0
    <3>1. /\ fpc'[w] = "idle" \/ (fpc'[w] = "del_clean" /\ loc'[w] = loc[w] /\ loc[w].op = "del")
          /\ gate' = "dead" <=> gate = "dead"
      BY <1>1, <2>4, GoMoves, EndMoves DEF Removed
    <3>2. fpc'[w] # "idle" => Knows(w)'
      BY <1>3, <2>2, <2>4, <3>1 DEF Knows, AddLabels, DelLabels, SavedLabels
    <3> QED
      BY <1>3, <2>1, <2>4, <3>1, <3>2 DEF Sole, SourcesKept
  <2>5. CASE RmFailed(w) /\ fdep' = fdep
    <3>1. /\ \/ fpc'[w] = "idle" /\ loc[w].op = "del"
             \/ fpc'[w] = "to_rdy" /\ loc'[w] = loc[w] /\ loc[w].op = "deact"
          /\ gate' = "dead" <=> gate = "dead"
      BY <1>1, <1>2, <2>5, GoMoves, EndMoves DEF RmFailed
    <3>2. fpc'[w] # "idle" => Knows(w)'
      BY <1>3, <2>2, <2>5, <3>1 DEF Knows, AddLabels, DelLabels, SavedLabels
    <3>3. fstate' = "Dea" => fdep'.gen = 0 \/ Deactivating(w)'
      BY <1>3, <2>1, <2>5, <3>1 DEF Sole, Deactivating, RmLabels
    <3> QED
      BY <1>3, <2>1, <2>2, <3>1, <3>2, <3>3 DEF Sole, SourcesKept
  <2>6. CASE /\ fpc'[w] \in {"rm_shrink", "rm_delete"} /\ loc'[w].op = loc[w].op /\ loc'[w].id = loc[w].id
             /\ gate' = gate /\ fdep.gen # 0
    <3>1. Knows(w)'
      BY <1>2, <1>3, <2>2, <2>6 DEF Knows, AddLabels, DelLabels, SavedLabels
    <3>2. fstate' = "Dea" => Deactivating(w)'
      BY <1>3, <2>1, <2>6 DEF Sole, Deactivating, RmLabels
    <3> QED
      BY <1>3, <2>1, <2>2, <2>6, <3>1, <3>2 DEF Sole, SourcesKept
  <2> QED
    BY <2>3, <2>4, <2>5, <2>6
<1> QED
  BY <1>1, <1>2, <1>3, <1>4, StepAlone DEF FnStep

\* A deactivation, an activation.
LEMMA ToggleAlone ==
    ASSUME FnInv, NEW w \in FnWorkers, DeactState(w) \/ ActState(w)
    PROVE  AloneInv'
<1>1. /\ fpc[w] \in {"deact_state", "act_state"} /\ fpc[w] # "idle" /\ Fits(fpc[w], loc[w])
      /\ ~RefreshIni(w) /\ FnTypes
  BY DEF DeactState, ActState, Toggle, RefreshIni, FnInv, LabelsFit
<1>2. loc[w].op = (IF fpc[w] = "act_state" THEN "act" ELSE "deact") /\ loc[w].op # "attach"
  BY <1>1 DEF Fits
<1>3. raced' = raced /\ fdep' = fdep /\ UNCHANGED <<fid, fver, saved, terminated, srcs>>
  BY DEF DeactState, ActState, Toggle, fdepVars
<1>4. ASSUME ~raced PROVE Sole(w)'
  <2>1. Knows(w) /\ Sole(w) /\ ~Deactivating(w)
    BY <1>1, <1>2, <1>4, StepHand DEF Deactivating, RmLabels
  <2>2. fstate # "none" /\ fid = loc[w].id /\ (fstate = "Dea" => fdep.gen = 0)
    BY <2>1 DEF Knows, Sole
  <2>3. CASE UNCHANGED fstate /\ FnFinish(w)
    <3>1. fpc'[w] = "idle" /\ (gate' = "dead" <=> gate = "dead")
      BY <1>1, <2>3, EndMoves
    <3> QED
      BY <1>3, <2>1, <2>2, <2>3, <3>1 DEF Sole, SourcesKept
  <2>4. CASE fpc[w] = "deact_state" /\ fstate' = "Dea" /\ FnGoto(w, "rm_get")
    <3>1. fpc'[w] = "rm_get" /\ loc'[w] = loc[w] /\ gate' = gate
      BY <1>1, <2>4, GoMoves
    <3>2. Knows(w)' /\ Deactivating(w)'
      BY <1>2, <1>3, <2>2, <2>4, <3>1 DEF Knows, Deactivating, AddLabels, DelLabels, RmLabels, SavedLabels
    <3> QED
      BY <1>3, <2>1, <2>2, <2>4, <3>1, <3>2 DEF Sole, SourcesKept
  <2>5. CASE fpc[w] = "act_state" /\ fstate = "Dea" /\ fstate' = "Str" /\ FnGoto(w, "create")
    <3>1. fpc'[w] = "create" /\ loc'[w] = loc[w] /\ gate' = gate
      BY <1>1, <2>5, GoMoves
    <3>2. Knows(w)'
      BY <1>2, <1>3, <2>2, <2>5, <3>1 DEF Knows, AddLabels, DelLabels, SavedLabels
    <3> QED
      BY <1>3, <2>1, <2>2, <2>5, <3>1, <3>2 DEF Sole, SourcesKept
  <2> QED
    BY <2>3, <2>4, <2>5 DEF DeactState, ActState, Toggle
<1> QED
  BY <1>1, <1>2, <1>3, <1>4, StepAlone DEF FnStep

\* A refresh of what the record says.
LEMMA RefreshAlone ==
    ASSUME FnInv, NEW w \in FnWorkers, RefreshSkip(w) \/ RefreshLost(w) \/ RefreshPods(w)
    PROVE  AloneInv'
<1>1. fpc[w] = "ref_get" /\ Fits(fpc[w], loc[w]) /\ ~RefreshIni(w) /\ FnTypes
  BY DEF RefreshSkip, RefreshLost, RefreshPods, Revive, RefreshIni, FnInv, LabelsFit
<1>2. loc[w].op \in {"soft", "hard"} /\ loc[w].op # "attach" /\ fpc[w] # "idle"
  BY <1>1 DEF Fits
<1>3. raced' = raced /\ fdep' = fdep /\ UNCHANGED <<fstate, fid, fver, saved, terminated, srcs>>
  BY DEF RefreshSkip, RefreshLost, RefreshPods, recVars, fdepVars
<1>4. ASSUME ~raced PROVE Sole(w)'
  <2>1. Knows(w) /\ Sole(w) /\ ~Deactivating(w)
    BY <1>1, <1>2, <1>4, StepHand DEF Deactivating
  <2>2. fstate # "none" /\ fid = loc[w].id /\ (fstate = "Dea" => fdep.gen = 0)
    BY <2>1 DEF Knows, Sole
  <2>3. CASE FnFinish(w) \/ FnFail(w)
    <3>1. fpc'[w] = "idle" /\ (gate' = "dead" <=> gate = "dead")
      BY <1>1, <2>3, EndMoves
    <3> QED
      BY <1>3, <2>1, <2>2, <3>1 DEF Sole, SourcesKept
  <2>4. CASE RefreshLost(w) /\ FnGoto(w, IF loc[w].st = "Str" \/ loc[w].op = "hard" THEN "build" ELSE "to_stalled")
    <3>1. fpc'[w] \in {"build", "to_stalled"} /\ loc'[w] = loc[w] /\ gate' = gate
      BY <1>1, <2>4, GoMoves
    <3>2. fstate # "Dea"
      BY <1>1, <2>1, <2>4 DEF Knows, RefreshLost, Revive
    <3>3. Knows(w)'
      BY <1>2, <1>3, <2>2, <3>1, <3>2 DEF Knows, AddLabels, DelLabels, SavedLabels
    <3> QED
      BY <1>3, <2>1, <2>2, <3>1, <3>3 DEF Sole, SourcesKept
  <2> QED
    BY <2>3, <2>4 DEF RefreshSkip, RefreshLost, RefreshPods
<1> QED
  BY <1>1, <1>2, <1>3, <1>4, StepAlone DEF FnStep

\* A gate that dies in a refresh: nobody is at work, and nothing is served.
LEMMA DeathHolds ==
    ASSUME FnInv, NEW w \in FnWorkers, RefreshIni(w)
    PROVE  LabelsFit' /\ AloneInv'
<1>1. /\ fpc' = [v \in FnWorkers |-> "idle"] /\ loc' = [v \in FnWorkers |-> NoCopy] /\ gate' = "dead"
      /\ UNCHANGED <<fstate, fdep, raced>> /\ fpc[w] = "ref_get"
  BY DEF RefreshIni, recVars, fdepVars
<1>2. LabelsFit'
  BY <1>1, IdleFits DEF LabelsFit
<1>3. \A v \in FnWorkers : ~Deploys(v)'
  BY <1>1 DEF Deploys
<1>4. ASSUME ~raced PROVE AloneInv'
  <2>1. loc[w].op \in {"soft", "hard"}
    BY <1>1 DEF FnInv, LabelsFit, Fits
  <2>2. Sole(w) /\ ~Deactivating(w)
    BY <1>1, <1>4, <2>1, StepHand DEF Deactivating
  <2>3. (fstate' = "none" => fdep'.gen = 0) /\ (fstate' = "Dea" => fdep'.gen = 0) /\ SourcesKept'
    BY <1>1, <2>2 DEF Sole, SourcesKept
  <2> QED
    BY <1>3, <2>3 DEF AloneInv
<1>5. AloneInv'
  <2> SUFFICES ASSUME ~raced' PROVE AloneInv'
    BY DEF AloneInv
  <2>1. ~raced
    BY <1>1
  <2> QED
    BY <1>4, <2>1
<1> QED
  BY <1>2, <1>5

\* A restart: k8sInit's refresh is alone, and what it copies is the record.
LEMMA RestartHolds ==
    ASSUME FnInv, NEW w \in FnWorkers, FnRestart(w)
    PROVE  LabelsFit' /\ AloneInv'
<1>1. /\ \A v \in FnWorkers : fpc'[v] = "idle" \/ (v = w /\ fpc'[v] = "ref_get" /\ loc'[v] = BootCopy)
      /\ fpc'[w] = "ref_get" => fstate # "none"
  <2>1. CASE fstate = "none"
    BY <2>1, RestartMoves DEF FnInv
  <2>2. CASE fstate # "none"
    BY <2>2, RestartMoves DEF FnInv
  <2> QED
    BY <2>1, <2>2
<1>2. BootCopy.op = "soft" /\ BootCopy.id = fid /\ BootCopy.st = fstate
  BY DEF BootCopy, NoCopy
<1>3. LabelsFit'
  <2>1. Fits("ref_get", BootCopy)
    BY <1>2 DEF Fits, AddLabels, DelLabels, RmLabels, SavedLabels
  <2> QED
    BY <1>1, <2>1, IdleFits DEF LabelsFit
<1>4. /\ UNCHANGED <<fstate, fid, fver, saved, terminated, srcs>> /\ fdep' = fdep /\ gate # "dead"
      /\ raced' = (raced \/ \E v \in FnWorkers : fpc[v] # "idle" /\ loc[v].op = "deact")
  BY DEF FnRestart, fdepVars
<1>5. ASSUME ~raced' PROVE AloneInv'
  <2>1. ~raced /\ \A v \in FnWorkers : ~Deactivating(v)
    BY <1>4, <1>5 DEF Deactivating, RmLabels
  <2>2. (fstate = "none" => fdep.gen = 0) /\ (fstate = "Dea" => fdep.gen = 0) /\ SourcesKept
    BY <2>1 DEF FnInv, AloneInv
  <2>3. \A v \in FnWorkers : Deploys(v)' => v = w /\ fpc'[v] = "ref_get" /\ loc'[v] = BootCopy
    BY <1>1 DEF Deploys
  <2>4. ASSUME NEW v \in FnWorkers, Deploys(v)' PROVE Knows(v)'
    <3>1. v = w /\ fpc'[v] = "ref_get" /\ loc'[v] = BootCopy /\ fstate # "none"
      BY <1>1, <2>3, <2>4
    <3> QED
      BY <1>2, <1>4, <3>1 DEF Knows, AddLabels, DelLabels, SavedLabels
  <2>5. SourcesKept'
    BY <1>4, <2>2 DEF SourcesKept
  <2>6. \A u, v \in FnWorkers : Deploys(u)' /\ Deploys(v)' => u = v
    BY <2>3
  <2> QED
    BY <1>4, <2>2, <2>4, <2>5, <2>6 DEF AloneInv
<1>6. AloneInv'
  <2> SUFFICES ASSUME ~raced' PROVE AloneInv'
    BY DEF AloneInv
  <2> QED
    BY <1>5
<1> QED
  BY <1>3, <1>6

\* What a pod does to the record: notifyPodUp makes it ready.
LEMMA PodMoves ==
    ASSUME NEW p \in DepPods, FnPodStep(p)
    PROVE  /\ UNCHANGED <<fpc, loc, gate, fid, fver, saved, terminated, raced, srcs>> /\ fdep' = fdep
           /\ fstate' = fstate \/ (fstate # "none" /\ fstate' = "Rdy")
<1>1. CASE PodStart(p) \/ PodStop(p)
  BY <1>1 DEF PodStart, PodStop, recVars, fdepVars
<1>2. CASE PortOpen(p) \/ PortTimeout(p) \/ PodAdd(p) \/ NotifyFind(p)
  BY <1>2 DEF PortOpen, PortTimeout, PodAdd, NotifyFind, recVars, fdepVars
<1>3. CASE NotifySet(p)
  BY <1>3 DEF NotifySet, fdepVars
<1> QED
  BY <1>1, <1>2, <1>3 DEF FnPodStep

\* A pod leaves the goroutines where they are, and what they know.
LEMMA PodHolds ==
    ASSUME FnInv, fpc' = fpc, loc' = loc, gate' = gate, UNCHANGED <<fid, fver, saved, terminated, raced, srcs>>,
           fdep' = fdep, fstate' = fstate \/ (fstate # "none" /\ fstate' = "Rdy")
    PROVE  LabelsFit' /\ AloneInv'
<1>1. LabelsFit'
  BY DEF FnInv, LabelsFit
<1>2. \A v \in FnWorkers : (Deploys(v)' <=> Deploys(v)) /\ (Deactivating(v)' <=> Deactivating(v))
  BY DEF Deploys, Deactivating
<1>3. ASSUME ~raced PROVE AloneInv'
  <2>1. ASSUME NEW v \in FnWorkers, Deploys(v)' PROVE Knows(v)'
    <3>1. Knows(v)
      BY <1>2, <1>3, <2>1 DEF FnInv, AloneInv
    <3> QED
      BY <3>1 DEF Knows
  <2>2. (fstate' = "none" => fdep'.gen = 0) /\ SourcesKept'
    BY <1>3 DEF FnInv, AloneInv, SourcesKept
  <2>3. fstate' = "Dea" => fdep'.gen = 0 \/ \E v \in FnWorkers : Deactivating(v)'
    BY <1>2, <1>3 DEF FnInv, AloneInv
  <2>4. \A u, v \in FnWorkers : Deploys(u)' /\ Deploys(v)' => u = v
    BY <1>2, <1>3 DEF FnInv, AloneInv
  <2> QED
    BY <2>1, <2>2, <2>3, <2>4 DEF AloneInv
<1>4. AloneInv'
  <2> SUFFICES ASSUME ~raced' PROVE AloneInv'
    BY DEF AloneInv
  <2> QED
    BY <1>3
<1> QED
  BY <1>1, <1>4

\* Every step keeps what the only request at work knows.
LEMMA InvNext == ASSUME FnInv, FnNext PROVE FnInv'
<1>1. FnTypes'
  BY TypesNext DEF FnInv
<1>2. ASSUME NEW w \in FnWorkers, FnRequest(w) \/ AddLimited(w) \/ FnStep(w), ~RefreshIni(w)
      PROVE  LabelsFit' /\ AloneInv'
  <2>1. Fits(fpc[w], loc[w])
    BY DEF FnInv, LabelsFit
  <2>2. Others(w) /\ Fits(fpc'[w], loc'[w])
    BY <1>2, <2>1, RequestFits, StepFits DEF FnInv
  <2>3. LabelsFit'
    BY <2>2, FitsAgain DEF FnInv
  <2>4. AloneInv'
    BY <1>2, RequestAlone, AddAlone, StateAlone, StartAlone, UpdAlone, PushAlone, AttachSaveAlone,
       DelAlone, RmAlone, ToggleAlone, RefreshAlone DEF FnStep
  <2> QED
    BY <2>3, <2>4
<1>3. ASSUME NEW w \in FnWorkers, RefreshIni(w) \/ FnRestart(w)
      PROVE  LabelsFit' /\ AloneInv'
  BY <1>3, DeathHolds, RestartHolds
<1>4. ASSUME NEW p \in DepPods, FnPodStep(p)
      PROVE  LabelsFit' /\ AloneInv'
  BY <1>4, PodMoves, PodHolds
<1>5. LabelsFit' /\ AloneInv'
  BY <1>2, <1>3, <1>4 DEF FnNext
<1> QED
  BY <1>1, <1>5 DEF FnInv

\* At first nothing is there.
LEMMA InvInit == ASSUME FnInit PROVE FnInv
<1>1. FnTypes
  BY TypesInit
<1>2. \A v \in FnWorkers : fpc[v] = "idle"
  BY DEF FnInit
<1>3. LabelsFit
  BY <1>2, IdleFits DEF LabelsFit
<1>4. (\A v \in FnWorkers : ~Deploys(v)) /\ fstate = "none" /\ fdep.gen = 0 /\ ~saved
  BY <1>2 DEF Deploys, FnInit, NoDep
<1>5. AloneInv
  BY <1>4 DEF AloneInv, SourcesKept
<1> QED
  BY <1>1, <1>3, <1>5 DEF FnInv

\* A step that changes nothing.
LEMMA InvStutter == ASSUME FnInv, UNCHANGED fnVars PROVE FnInv'
<1>1. FnTypes'
  BY TypesStutter DEF FnInv
<1>2. /\ fpc' = fpc /\ loc' = loc /\ gate' = gate /\ fdep' = fdep /\ fstate' = fstate
      /\ UNCHANGED <<fid, fver, saved, terminated, raced, srcs>>
  BY DEF fnVars, recVars, fdepVars
<1>3. LabelsFit' /\ AloneInv'
  BY <1>2, PodHolds
<1> QED
  BY <1>1, <1>3 DEF FnInv

\* As long as no two requests that start or stop the deployment overlapped, the
\* one at work knows where record, deployment and sources are (function.go's
\* handlers work from the copy of the record they read at first).
THEOREM OneAtWorkKnows == FnSpec => []FnInv
<1>1. FnInv /\ [FnNext]_fnVars => FnInv'
  BY InvNext, InvStutter
<1> QED
  BY InvInit, <1>1, PTL DEF FnSpec

\* Del and k8sRemove: a removed function leaves no deployment at rest, whatever
\* fails and is tried again, unless two requests that start or stop the
\* deployment overlapped, or a deactivation was left half done.
THEOREM OrphansOnlyByRace == FnSpec => []OrphanOnlyByRace
<1>1. FnInv => OrphanOnlyByRace
  BY DEF FnInv, AloneInv, OrphanOnlyByRace
<1> QED
  BY OneAtWorkKnows, <1>1, PTL

\* updateSources and GCOldSources: without such an overlap the sources the record
\* names are on disk until its removal, for any number of additions and of
\* goroutines that push.
THEOREM SourcesAreKeptAlone == FnSpec => [](SourcesKept \/ raced)
<1>1. FnInv => SourcesKept \/ raced
  BY DEF FnInv, AloneInv
<1> QED
  BY OneAtWorkKnows, <1>1, PTL

-----------------------------------------------------------------------------
(* One addition and one pusher, with whatever else overlaps.               *)

\* what a step of w may do to the others
Gentle(w) ==
    /\ fid' = fid /\ fid # 0 /\ (terminated => terminated')
    /\ fstate' = "Ini" => fstate = "Ini"
    /\ fstate = "Ini" /\ fstate' # "Ini" => loc[w].op = "add" /\ fpc[w] # "idle"
    \* sources are taken by the Add, by a removal or by the pusher
    /\ \/ srcs \subseteq srcs'
       \/ loc[w].op = "add" /\ fpc[w] \in AddLabels
       \/ terminated
       \/ loc[w].op = "push" /\ fpc[w] \notin {"idle", "push_save"}
    /\ fver' = fver \/ (loc[w].op = "push" /\ fpc[w] # "idle")

\* what is left of the young record
StaysYoung(w) ==
    fstate' = "Ini" => /\ fngen' = 0 /\ fver' = 0 /\ ~saved' /\ ~terminated'
                       /\ YoungAt(fpc'[w], loc'[w])

\* Who adds is alone in it, and who pushes too.
LEMMA Alone ==
    ASSUME OneLifeInv, OneLife, NEW v \in FnWorkers, NEW w \in FnWorkers, v # w, fpc[v] # "idle", fpc[w] # "idle"
    PROVE  /\ ~(loc[v].op = "add" /\ loc[w].op = "add")
           /\ ~(loc[v].op = "push" /\ loc[w].op = "push")
<1>1. ~(Adds(v) /\ Adds(w)) /\ Mate(v) /\ Mate(w)
  BY DEF OneLifeInv
<1>2. loc[v].op = "push" /\ loc[w].op = "push" => v \in Pushers /\ w \in Pushers
  BY <1>1 DEF Mate
<1> QED
  BY <1>1, <1>2 DEF Adds, OneLife

\* A goroutine of a young record adds, attaches or refreshes.
LEMMA YoungOps ==
    ASSUME LabelsFit, OneLifeInv, fstate = "Ini", NEW w \in FnWorkers, fpc[w] # "idle"
    PROVE  /\ YoungAt(fpc[w], loc[w]) /\ loc[w].op \notin {"push", "del", "deact", "act"}
           /\ ~terminated /\ ~saved /\ fngen = 0 /\ fver = 0
<1>1. YoungAt(fpc[w], loc[w]) /\ Fits(fpc[w], loc[w]) /\ ~terminated /\ ~saved /\ fngen = 0 /\ fver = 0
  BY DEF OneLifeInv, Young, LabelsFit
<1>2. CASE fpc[w] \in AddLabels
  BY <1>1, <1>2 DEF Fits
<1>3. CASE fpc[w] \in {"to_stalled", "attach_save", "ref_get"}
  BY <1>1, <1>3 DEF Fits, YoungAt
<1> QED
  BY <1>1, <1>2, <1>3 DEF YoungAt

\* The others stay at one with the record.
LEMMA OthersMate ==
    ASSUME LabelsFit, OneLifeInv, OneLife, NEW w \in FnWorkers, Others(w), Gentle(w),
           NEW v \in FnWorkers, v # w, fpc[v] # "idle"
    PROVE  Mate(v)'
<1>1. fpc'[v] = fpc[v] /\ loc'[v] = loc[v] /\ Mate(v) /\ Fits(fpc[v], loc[v])
  BY DEF Others, OneLifeInv, LabelsFit
<1>2. loc'[v].id = fid' /\ (loc'[v].op = "push" => v \in Pushers)
  BY <1>1 DEF Mate, Gentle
<1>3. ASSUME fpc[v] \in AddLabels PROVE fstate' = "Ini" /\ (fpc[v] = "add_save" => 0 \in srcs')
  <2>1. fstate = "Ini" /\ loc[v].op = "add" /\ (fpc[v] = "add_save" => 0 \in srcs) /\ ~terminated
    BY <1>1, <1>3, YoungOps DEF Mate, Fits
  <2>2. fpc[w] # "idle" => loc[w].op \notin {"add", "push"}
    BY <2>1, YoungOps, Alone
  <2>3. fstate' = "Ini"
    BY <2>1, <2>2 DEF Gentle
  <2>4. srcs \subseteq srcs'
    BY <2>1, <2>2 DEF Gentle, AddLabels
  <2> QED
    BY <2>1, <2>3, <2>4
<1>4. ASSUME fpc[v] = "push_save" PROVE loc[v].ver \in srcs' \/ terminated'
  <2>1. (loc[v].ver \in srcs \/ terminated) /\ loc[v].op = "push" /\ fstate # "Ini"
    BY <1>1, <1>4, YoungOps DEF Mate, Fits
  <2>2. fpc[w] # "idle" => loc[w].op # "push" /\ fpc[w] \notin AddLabels
    <3>1. fpc[w] # "idle" => Mate(w)
      BY DEF OneLifeInv
    <3> QED
      BY <2>1, <3>1, Alone DEF Mate
  <2>3. srcs \subseteq srcs' \/ terminated
    BY <2>2 DEF Gentle, AddLabels
  <2>4. terminated => terminated'
    BY DEF Gentle
  <2> QED
    BY <2>1, <2>3, <2>4
<1>5. ASSUME loc[v].op = "push", fpc[v] \in SavedLabels PROVE fver' = loc[v].ver
  <2>1. fver = loc[v].ver
    BY <1>1, <1>5 DEF Mate
  <2>2. fpc[w] # "idle" => loc[w].op # "push"
    BY <1>5, Alone
  <2> QED
    BY <2>1, <2>2 DEF Gentle
<1>6. loc[v].op = "del" /\ fpc[v] # "del_state" => terminated'
  BY <1>1 DEF Mate, Gentle
<1>7. "add_save" \in AddLabels
  BY DEF AddLabels
<1> QED
  BY <1>1, <1>2, <1>3, <1>4, <1>5, <1>6, <1>7 DEF Mate

\* A step of one goroutine that minds the others.
LEMMA LifeStep ==
    ASSUME FnTypes, LabelsFit, OneLifeInv, OneLife, NEW w \in FnWorkers, Others(w), Gentle(w), StaysYoung(w),
           Quiet', Kept', fpc'[w] # "idle" => Mate(w)', Adds(w)' => Adds(w)
    PROVE  OneLifeInv'
<1>1. fid' # 0
  BY DEF Gentle
<1>2. ASSUME NEW v \in FnWorkers, fpc'[v] # "idle" PROVE Mate(v)'
  <2>1. CASE v = w
    BY <1>2, <2>1
  <2>2. CASE v # w
    BY <1>2, <2>2, OthersMate DEF Others
  <2> QED
    BY <2>1, <2>2
<1>3. \A v \in FnWorkers : Adds(v)' => Adds(v)
  BY DEF Adds, Others
<1>4. \A u, v \in FnWorkers : Adds(u)' /\ Adds(v)' => u = v
  BY <1>3 DEF OneLifeInv
<1>5. ASSUME fstate' = "Ini" PROVE Young'
  <2>1. fstate = "Ini" /\ Young
    BY <1>5 DEF Gentle, OneLifeInv
  <2>2. \A v \in FnWorkers : YoungAt(fpc'[v], loc'[v])
    <3> SUFFICES ASSUME NEW v \in FnWorkers PROVE YoungAt(fpc'[v], loc'[v])
      OBVIOUS
    <3>1. CASE v = w
      BY <1>5, <3>1 DEF StaysYoung
    <3>2. CASE v # w
      <4>1. fpc'[v] = fpc[v] /\ loc'[v] = loc[v] /\ YoungAt(fpc[v], loc[v])
        BY <2>1, <3>2 DEF Others, Young
      <4> QED
        BY <4>1
    <3> QED
      BY <3>1, <3>2
  <2> QED
    BY <1>5, <2>2 DEF StaysYoung, Young
<1> QED
  BY <1>1, <1>2, <1>4, <1>5 DEF OneLifeInv

\* What is at hand when a goroutine takes a step.
LEMMA LifeHand ==
    ASSUME FnTypes, LabelsFit, OneLifeInv, NEW w \in FnWorkers, fpc[w] # "idle"
    PROVE  fid # 0 /\ Mate(w) /\ Fits(fpc[w], loc[w]) /\ Quiet /\ Kept
  BY DEF OneLifeInv, LabelsFit

\* where a step of w that touches only sources and the deployment may lead
Leads(w) ==
    /\ loc'[w].op = loc[w].op /\ loc'[w].id = loc[w].id
    /\ fpc'[w] \in AddLabels => fpc[w] \in AddLabels
    /\ fpc'[w] = "add_save" => 0 \in srcs'
    /\ fpc'[w] = "push_save" => loc'[w].ver \in srcs'
    /\ loc[w].op = "push" /\ fpc'[w] \in SavedLabels => loc'[w].ver = loc[w].ver /\ fpc[w] \in SavedLabels
    /\ loc[w].op = "del" => fpc[w] # "del_state"

\* A step that leaves the record as it is and takes no sources away.
LEMMA PlainLife ==
    ASSUME FnTypes, LabelsFit, OneLifeInv, OneLife, NEW w \in FnWorkers, fpc[w] # "idle", Others(w),
           UNCHANGED <<fstate, fid, fver, saved, terminated>>, srcs \subseteq srcs',
           gate' = "dead" <=> gate = "dead",
           UNCHANGED <<pod, fwaiter>>, fngen' = fngen \/ (fngen' # 0 /\ fstate # "Ini"),
           fpc'[w] = "idle" \/ Leads(w),
           fstate = "Ini" => YoungAt(fpc'[w], loc'[w])
    PROVE  OneLifeInv'
<1>1. fid # 0 /\ Mate(w) /\ Quiet /\ Kept
  BY LifeHand
<1>2. Gentle(w)
  BY <1>1 DEF Gentle
<1>3. StaysYoung(w)
  BY YoungOps DEF StaysYoung
<1>4. Quiet' /\ Kept'
  BY <1>1 DEF Quiet, Kept
<1>5. fpc'[w] # "idle" => Mate(w)'
  <2> SUFFICES ASSUME fpc'[w] # "idle" PROVE Mate(w)'
    OBVIOUS
  <2> QED
    BY <1>1 DEF Leads, Mate
<1>6. Adds(w)' => Adds(w)
  BY DEF Adds, Leads
<1> QED
  BY <1>2, <1>3, <1>4, <1>5, <1>6, LifeStep

\* A goroutine of a record that is not young.
LEMMA NotYoung ==
    ASSUME LabelsFit, OneLifeInv, NEW w \in FnWorkers,
           fpc[w] \notin AddLabels \cup {"idle", "to_stalled", "attach_save", "ref_get"}
    PROVE  fstate # "Ini"
  BY YoungOps DEF YoungAt

\* Where a goroutine is led that goes on with its copy, or ends.
LEMMA PlainMoves ==
    ASSUME FnTypes, NEW w \in FnWorkers,
           \/ FnFinish(w) \/ FnFail(w)
           \/ \E l \in FnLabels \ (AddLabels \cup {"push_save"}) :
                 FnGoto(w, l) /\ (loc[w].op = "push" /\ l \in SavedLabels => fpc[w] \in SavedLabels),
           loc[w].op = "del" => fpc[w] # "del_state"
    PROVE  Others(w) /\ (fpc'[w] = "idle" \/ Leads(w)) /\ (gate' = "dead" <=> gate = "dead")
<1>1. CASE FnFinish(w) \/ FnFail(w)
  BY <1>1, EndMoves
<1>2. ASSUME NEW l \in FnLabels \ (AddLabels \cup {"push_save"}), FnGoto(w, l),
             loc[w].op = "push" /\ l \in SavedLabels => fpc[w] \in SavedLabels
      PROVE  Others(w) /\ (fpc'[w] = "idle" \/ Leads(w)) /\ (gate' = "dead" <=> gate = "dead")
  <2>1. Others(w) /\ fpc'[w] = l /\ loc'[w] = loc[w] /\ gate' = gate
    BY <1>2, GoMoves
  <2>2. l # "add_save"
    BY DEF AddLabels
  <2> QED
    BY <1>2, <2>1, <2>2 DEF Leads
<1> QED
  BY <1>1, <1>2

\* Start, and the updates of the deployment.
LEMMA StartLife ==
    ASSUME FnTypes, LabelsFit, OneLifeInv, OneLife, NEW w \in FnWorkers,
           Build(w) \/ Create(w) \/ UpdGet(w) \/ UpdPut(w)
    PROVE  OneLifeInv'
<1>1. /\ fpc[w] \in {"build", "create", "upd_get", "upd_put"} /\ fpc[w] # "idle" /\ fpc[w] # "del_state"
      /\ Fits(fpc[w], loc[w])
  BY DEF Build, Create, UpdGet, UpdPut, LabelsFit
<1>2. fstate # "Ini"
  BY <1>1, NotYoung DEF AddLabels
<1>3. /\ UNCHANGED <<fstate, fid, fver, saved, terminated>> /\ srcs' = srcs /\ UNCHANGED <<pod, fwaiter>>
      /\ fngen' = fngen \/ fngen' = fngen + 1
  BY DEF Build, Create, UpdGet, UpdPut, recVars, fdepVars, fpodVars
<1>4. fngen' = fngen \/ fngen' # 0
  BY <1>3 DEF FnTypes, RecTypes
<1>5. Others(w) /\ (fpc'[w] = "idle" \/ Leads(w)) /\ (gate' = "dead" <=> gate = "dead")
  <2>1. CASE FnGoto(w, "create") /\ fpc[w] = "build"
    <3>1. loc[w].op # "push"
      BY <1>1, <2>1 DEF Fits
    <3>2. "create" \in FnLabels \ (AddLabels \cup {"push_save"})
      BY DEF FnLabels, AddLabels
    <3> QED
      BY <1>1, <2>1, <3>1, <3>2, PlainMoves
  <2>2. CASE StartFailed(w)
    <3>1. /\ {"to_stalled", "to_dea"} \subseteq FnLabels \ (AddLabels \cup {"push_save"})
          /\ "to_stalled" \notin SavedLabels /\ "to_dea" \notin SavedLabels
      BY DEF FnLabels, AddLabels, SavedLabels
    <3> QED
      BY <1>1, <2>2, <3>1, PlainMoves DEF StartFailed
  <2>3. CASE Started(w) /\ fpc[w] # "build"
    <3>1. "push_gc" \in FnLabels \ (AddLabels \cup {"push_save"}) /\ fpc[w] \in SavedLabels
      BY <1>1, <2>3 DEF FnLabels, AddLabels, SavedLabels
    <3> QED
      BY <1>1, <2>3, <3>1, PlainMoves DEF Started
  <2>4. CASE /\ fpc[w] = "upd_get" /\ fpc' = [fpc EXCEPT ![w] = "upd_put"] /\ loc' = [loc EXCEPT ![w].gen = fdep.gen]
             /\ UNCHANGED gate
    <3>1. PICK c : c = [loc[w] EXCEPT !.gen = fdep.gen]
      OBVIOUS
    <3>2. loc[w] \in Copies
      BY DEF FnTypes, WorkTypes
    <3>3. c.op = loc[w].op /\ c.id = loc[w].id /\ c.ver = loc[w].ver
      BY <3>1, <3>2 DEF Copies
    <3>4. Others(w) /\ fpc'[w] = "upd_put" /\ loc'[w] = c
      BY <2>4, <3>1, CopyMoves
    <3>5. Leads(w)
      BY <1>1, <2>4, <3>3, <3>4 DEF Leads, AddLabels, SavedLabels
    <3> QED
      BY <2>4, <3>4, <3>5
  <2> QED
    BY <2>1, <2>2, <2>3, <2>4 DEF Build, Create, UpdGet, UpdPut
<1> QED
  BY <1>1, <1>2, <1>3, <1>4, <1>5, PlainLife

\* The removal of the deployment, and of events, statistics and logs.
LEMMA RmLife ==
    ASSUME FnTypes, LabelsFit, OneLifeInv, OneLife, NEW w \in FnWorkers,
           RmGet(w) \/ RmShrink(w) \/ RmDelete(w) \/ DelClean(w)
    PROVE  OneLifeInv'
<1>1. /\ fpc[w] \in RmLabels \cup {"del_clean"} /\ fpc[w] # "idle" /\ fpc[w] # "del_state"
      /\ Fits(fpc[w], loc[w])
  BY DEF RmGet, RmShrink, RmDelete, DelClean, RmLabels, LabelsFit
<1>2. fstate # "Ini"
  BY <1>1, NotYoung DEF AddLabels, RmLabels
<1>3. /\ UNCHANGED <<fstate, fid, fver, saved, terminated>> /\ srcs' = srcs /\ UNCHANGED <<pod, fwaiter>>
      /\ fngen' = fngen \/ fngen' = fngen + 1
  BY DEF RmGet, RmShrink, RmDelete, DelClean, recVars, fdepVars, fpodVars
<1>4. fngen' = fngen \/ fngen' # 0
  BY <1>3 DEF FnTypes, RecTypes
<1>5. Others(w) /\ (fpc'[w] = "idle" \/ Leads(w)) /\ (gate' = "dead" <=> gate = "dead")
  <2>1. /\ {"rm_delete", "del_clean", "to_rdy", "del_srcs"} \subseteq FnLabels \ (AddLabels \cup {"push_save"})
        /\ SavedLabels \cap {"rm_delete", "del_clean", "to_rdy", "del_srcs"} = {}
    BY DEF FnLabels, AddLabels, SavedLabels
  <2>2. CASE FnGoto(w, "rm_delete") \/ FnGoto(w, "del_srcs") \/ FnFinish(w) \/ Removed(w) \/ RmFailed(w)
    BY <1>1, <2>1, <2>2, PlainMoves DEF Removed, RmFailed
  <2>3. CASE /\ fpc' = [fpc EXCEPT ![w] = "rm_shrink"] /\ loc' = [loc EXCEPT ![w].gen = fdep.gen]
             /\ UNCHANGED gate
    <3>1. PICK c : c = [loc[w] EXCEPT !.gen = fdep.gen]
      OBVIOUS
    <3>2. loc[w] \in Copies
      BY DEF FnTypes, WorkTypes
    <3>3. c.op = loc[w].op /\ c.id = loc[w].id /\ c.ver = loc[w].ver
      BY <3>1, <3>2 DEF Copies
    <3>4. Others(w) /\ fpc'[w] = "rm_shrink" /\ loc'[w] = c
      BY <2>3, <3>1, CopyMoves
    <3>5. Leads(w)
      BY <1>1, <3>3, <3>4 DEF Leads, AddLabels, SavedLabels
    <3> QED
      BY <2>3, <3>4, <3>5
  <2> QED
    BY <2>2, <2>3 DEF RmGet, RmShrink, RmDelete, DelClean
<1> QED
  BY <1>1, <1>2, <1>3, <1>4, <1>5, PlainLife

\* An attachment that is saved.
LEMMA AttachLife ==
    ASSUME FnTypes, LabelsFit, OneLifeInv, OneLife, NEW w \in FnWorkers, AttachSave(w)
    PROVE  OneLifeInv'
<1>1. fpc[w] = "attach_save" /\ loc[w] \in Copies /\ Fits(fpc[w], loc[w]) /\ fpc[w] # "idle"
  BY DEF AttachSave, FnTypes, WorkTypes, LabelsFit
<1>2. loc[w].op = "attach"
  BY <1>1 DEF Fits
<1>3. fstate = "Ini" => loc[w].st = "Ini"
  BY <1>1, YoungOps DEF YoungAt
<1>4. /\ UNCHANGED <<fstate, fid, fver, saved, terminated>> /\ srcs' = srcs /\ UNCHANGED <<pod, fwaiter>>
      /\ fngen' = fngen
  BY DEF AttachSave, fdepVars, fpodVars
<1>5. /\ Others(w) /\ (gate' = "dead" <=> gate = "dead")
      /\ fpc'[w] = "idle" \/ (Leads(w) /\ fstate # "Ini")
  <2>1. CASE FnFinish(w)
    BY <1>1, <2>1, EndMoves
  <2>2. ASSUME NEW a \in SUBSET Atts, NEW l \in {"upd_get", "idle"}, fpc' = [fpc EXCEPT ![w] = l],
               loc' = [loc EXCEPT ![w] = [loc[w] EXCEPT !.atts = a]], l = "upd_get" => loc[w].st = "Rdy",
               UNCHANGED gate
        PROVE  /\ Others(w) /\ (gate' = "dead" <=> gate = "dead")
               /\ fpc'[w] = "idle" \/ (Leads(w) /\ fstate # "Ini")
    <3>1. PICK c : c = [loc[w] EXCEPT !.atts = a]
      OBVIOUS
    <3>2. c.op = "attach" /\ c.id = loc[w].id
      BY <1>1, <1>2, <3>1 DEF Copies
    <3>3. Others(w) /\ fpc'[w] = l /\ loc'[w] = c
      BY <2>2, <3>1, CopyMoves
    <3>4. CASE l = "upd_get"
      <4>1. Leads(w) /\ fstate # "Ini"
        BY <1>1, <1>2, <1>3, <2>2, <3>2, <3>3, <3>4 DEF Leads, AddLabels
      <4> QED
        BY <2>2, <3>3, <4>1
    <3> QED
      BY <2>2, <3>3, <3>4
  <2> QED
    BY <2>1, <2>2, AttachMoves
<1>6. fstate = "Ini" => YoungAt(fpc'[w], loc'[w])
  BY <1>5 DEF YoungAt
<1> QED
  BY <1>1, <1>4, <1>5, <1>6, PlainLife

\* A step that ends a request and changes the state at most.
LEMMA EndLife ==
    ASSUME FnTypes, LabelsFit, OneLifeInv, OneLife, NEW w \in FnWorkers, fpc[w] # "idle", FnFinish(w),
           UNCHANGED <<fid, fver, saved, terminated, srcs, pod, fwaiter, fngen>>,
           fstate' = "Ini" => fstate = "Ini",
           fstate = "Ini" /\ fstate' # "Ini" => loc[w].op = "add"
    PROVE  OneLifeInv'
<1>1. fid # 0 /\ Quiet /\ Kept
  BY LifeHand
<1>2. Others(w) /\ fpc'[w] = "idle" /\ (gate' = "dead" <=> gate = "dead")
  BY EndMoves
<1>3. Gentle(w)
  BY <1>1 DEF Gentle
<1>4. StaysYoung(w)
  BY <1>2, YoungOps DEF StaysYoung, YoungAt
<1>5. Quiet' /\ Kept'
  BY <1>1, <1>2 DEF Quiet, Kept
<1>6. ~Adds(w)'
  BY <1>2 DEF Adds
<1> QED
  BY <1>2, <1>3, <1>4, <1>5, <1>6, LifeStep

\* Add.
LEMMA AddLife ==
    ASSUME FnTypes, LabelsFit, OneLifeInv, OneLife, NEW w \in FnWorkers,
           AddLimited(w) \/ AddPut(w) \/ AddSave(w) \/ AddUnput(w) \/ AddRemove(w)
    PROVE  OneLifeInv'
<1>1. fpc[w] \in AddLabels /\ fpc[w] # "idle" /\ fpc[w] \notin SavedLabels
  BY DEF AddLimited, AddPut, AddSave, AddUnput, AddRemove, AddLabels, SavedLabels
<1>2. /\ fid # 0 /\ Mate(w) /\ Quiet /\ Kept /\ loc[w].op = "add" /\ fstate = "Ini"
      /\ ~terminated /\ ~saved /\ fngen = 0 /\ fver = 0
  <2>1. fid # 0 /\ Mate(w) /\ Fits(fpc[w], loc[w]) /\ Quiet /\ Kept
    BY <1>1, LifeHand
  <2>2. loc[w].op = "add" /\ fstate = "Ini"
    BY <1>1, <2>1 DEF Fits, Mate
  <2> QED
    BY <1>1, <2>1, <2>2, YoungOps
<1>3. /\ UNCHANGED <<fid, fver, terminated>> /\ UNCHANGED <<pod, fwaiter>> /\ fngen' = fngen
  BY DEF AddLimited, AddPut, AddSave, AddUnput, AddRemove, recVars, fdepVars, fpodVars
<1>4. Quiet'
  BY <1>2, <1>3 DEF Quiet
<1>5. CASE AddLimited(w) \/ AddPut(w)
  <2>1. /\ Others(w) /\ loc'[w] = loc[w] /\ gate' = gate
        /\ fpc'[w] = "add_remove" \/ (fpc'[w] = "add_save" /\ 0 \in srcs')
    BY <1>5, GoMoves DEF AddLimited, AddPut
  <2>2. srcs \subseteq srcs' /\ UNCHANGED <<fstate, saved>>
    BY <1>5 DEF AddLimited, AddPut, recVars
  <2>3. Leads(w) /\ YoungAt(fpc'[w], loc'[w])
    BY <1>1, <1>2, <2>1 DEF Leads, YoungAt, AddLabels
  <2> QED
    BY <1>1, <1>3, <2>1, <2>2, <2>3, PlainLife
<1>6. CASE AddSave(w)
  <2>1. srcs' = srcs /\ 0 \in srcs
    BY <1>2, <1>6 DEF AddSave, Mate
  <2>2. CASE fstate' = "Str" /\ saved' = TRUE /\ FnGoto(w, "build")
    <3>1. Others(w) /\ fpc'[w] = "build" /\ loc'[w] = loc[w] /\ gate' = gate
      BY <2>2, GoMoves
    <3>2. Gentle(w) /\ StaysYoung(w) /\ Kept'
      BY <1>1, <1>2, <1>3, <2>1, <2>2, <3>1 DEF Gentle, StaysYoung, Kept
    <3>3. Mate(w)' /\ Adds(w)
      BY <1>1, <1>2, <1>3, <3>1 DEF Mate, AddLabels, Adds
    <3> QED
      BY <1>4, <3>1, <3>2, <3>3, LifeStep
  <2>3. CASE UNCHANGED <<fstate, saved>> /\ FnGoto(w, "add_unput")
    <3>1. Others(w) /\ fpc'[w] = "add_unput" /\ loc'[w] = loc[w] /\ gate' = gate
      BY <2>3, GoMoves
    <3>2. Leads(w) /\ YoungAt(fpc'[w], loc'[w])
      BY <1>1, <1>2, <3>1 DEF Leads, YoungAt, AddLabels
    <3> QED
      BY <1>1, <1>3, <2>1, <2>3, <3>1, <3>2, PlainLife
  <2> QED
    BY <1>6, <2>2, <2>3 DEF AddSave
<1>7. CASE AddUnput(w)
  <2>1. /\ Others(w) /\ loc'[w] = loc[w] /\ gate' = gate /\ fpc'[w] \in {"add_remove", "to_stalled"}
    BY <1>7, GoMoves DEF AddUnput
  <2>2. UNCHANGED <<fstate, saved>>
    BY <1>7 DEF AddUnput, recVars
  <2>3. Gentle(w) /\ Kept'
    BY <1>1, <1>2, <1>3, <2>2 DEF Gentle, Kept
  <2>4. StaysYoung(w)
    BY <1>2, <1>3, <2>1, <2>2 DEF StaysYoung, YoungAt, AddLabels
  <2>5. Mate(w)' /\ Adds(w)
    BY <1>1, <1>2, <1>3, <2>1, <2>2 DEF Mate, AddLabels, Adds
  <2> QED
    BY <1>4, <2>1, <2>3, <2>4, <2>5, LifeStep
<1>8. CASE AddRemove(w)
  <2>1. CASE FnFinish(w)
    <3>1. fstate' # "Ini" \/ fstate' = fstate
      BY <1>8 DEF AddRemove
    <3> QED
      BY <1>1, <1>2, <1>3, <1>8, <2>1, <3>1, EndLife DEF AddRemove
  <2>2. CASE FnGoto(w, "to_stalled") /\ UNCHANGED fstate
    <3>1. Others(w) /\ fpc'[w] = "to_stalled" /\ loc'[w] = loc[w] /\ gate' = gate
      BY <2>2, GoMoves
    <3>2. Leads(w) /\ YoungAt(fpc'[w], loc'[w])
      BY <1>1, <1>2, <3>1 DEF Leads, YoungAt, AddLabels
    <3>3. UNCHANGED <<saved, srcs>>
      BY <1>8 DEF AddRemove
    <3> QED
      BY <1>1, <1>3, <2>2, <3>1, <3>2, <3>3, PlainLife
  <2> QED
    BY <1>8, <2>1, <2>2 DEF AddRemove
<1> QED
  BY <1>5, <1>6, <1>7, <1>8

\* The states at the end of a request.
LEMMA StateLife ==
    ASSUME FnTypes, LabelsFit, OneLifeInv, OneLife, NEW w \in FnWorkers,
           ToStalled(w) \/ Untoggle(w) \/ FnDelRemove(w)
    PROVE  OneLifeInv'
<1>1. fpc[w] \in {"to_stalled", "to_rdy", "to_dea", "del_remove"} /\ fpc[w] # "idle" /\ FnFinish(w)
  BY DEF ToStalled, Untoggle, FnDelRemove
<1>2. /\ UNCHANGED <<fid, fver, saved, terminated, srcs, pod, fwaiter, fngen>>
      /\ fstate' = fstate \/ fstate' \in {"Stl", "Rdy", "Dea", "none"}
  BY DEF ToStalled, Untoggle, FnDelRemove, ToState, fdepVars, fpodVars
<1>3. fstate = "Ini" => loc[w].op = "add"
  <2>1. CASE fpc[w] = "to_stalled"
    BY <2>1, YoungOps DEF YoungAt
  <2>2. CASE fpc[w] # "to_stalled"
    BY <1>1, <2>2, NotYoung DEF AddLabels
  <2> QED
    BY <2>1, <2>2
<1> QED
  BY <1>1, <1>2, <1>3, EndLife

\* A step that goes on, may change the state of a record that is not young, and takes no sources.
LEMMA GoLife ==
    ASSUME FnTypes, LabelsFit, OneLifeInv, OneLife, NEW w \in FnWorkers, fpc[w] # "idle",
           NEW l \in FnLabels \ (AddLabels \cup {"idle", "push_save"}), FnGoto(w, l),
           UNCHANGED <<fid, srcs, pod, fwaiter, fngen>>, fstate # "Ini", fstate' # "Ini",
           terminated => terminated', Kept',
           fver' = fver \/ loc[w].op = "push",
           loc[w].op = "push" /\ l \in SavedLabels => fver' = loc[w].ver,
           loc[w].op = "del" => terminated'
    PROVE  OneLifeInv'
<1>1. fid # 0 /\ Mate(w) /\ Quiet
  BY LifeHand
<1>2. Others(w) /\ fpc'[w] = l /\ loc'[w] = loc[w]
  BY GoMoves
<1>3. Gentle(w) /\ StaysYoung(w)
  BY <1>1 DEF Gentle, StaysYoung
<1>4. Quiet'
  BY <1>1 DEF Quiet
<1>5. "add_save" \in AddLabels
  BY DEF AddLabels
<1>6. Mate(w)' /\ (Adds(w)' => Adds(w))
  BY <1>1, <1>2, <1>5 DEF Mate, Adds
<1> QED
  BY <1>2, <1>3, <1>4, <1>6, LifeStep

\* A push.
LEMMA PushLife ==
    ASSUME FnTypes, LabelsFit, OneLifeInv, OneLife, NEW w \in FnWorkers,
           PushPut(w) \/ PushSave(w) \/ PushGC(w)
    PROVE  OneLifeInv'
<1>1. /\ fpc[w] \in {"push_put", "push_save", "push_gc"} /\ fpc[w] # "idle"
      /\ Fits(fpc[w], loc[w]) /\ loc[w] \in Copies
  BY DEF PushPut, PushSave, PushGC, LabelsFit, FnTypes, WorkTypes
<1>2. /\ loc[w].op = "push" /\ fstate # "Ini" /\ fid # 0 /\ Mate(w) /\ Quiet /\ Kept
      /\ fpc[w] = "push_gc" => loc[w].old # loc[w].ver
  <2>1. loc[w].op = "push" /\ (fpc[w] = "push_gc" => loc[w].old # loc[w].ver)
    BY <1>1 DEF Fits, SavedLabels
  <2> QED
    BY <1>1, <2>1, LifeHand, YoungOps
<1>3. UNCHANGED <<fid, terminated>> /\ UNCHANGED <<pod, fwaiter>> /\ fngen' = fngen
  BY DEF PushPut, PushSave, PushGC, recVars, fdepVars, fpodVars
<1>4. Quiet'
  BY <1>2, <1>3 DEF Quiet
<1>5. CASE PushPut(w)
  <2>1. UNCHANGED <<fstate, fver, saved>> /\ srcs \subseteq srcs'
    BY <1>5 DEF PushPut, recVars
  <2>2. Others(w) /\ (fpc'[w] = "idle" \/ Leads(w)) /\ (gate' = "dead" <=> gate = "dead")
    <3>1. CASE FnFinish(w)
      BY <1>1, <3>1, EndMoves
    <3>2. CASE /\ fpc' = [fpc EXCEPT ![w] = "push_save"] /\ srcs' = srcs \cup {loc[w].ver + 1}
               /\ loc' = [loc EXCEPT ![w].ver = loc[w].ver + 1, ![w].old = loc[w].ver] /\ UNCHANGED gate
      <4>1. PICK c : c = [loc[w] EXCEPT !.ver = loc[w].ver + 1, !.old = loc[w].ver]
        OBVIOUS
      <4>2. loc' = [loc EXCEPT ![w] = c]
        BY <1>1, <3>2, <4>1 DEF FnTypes, WorkTypes
      <4>3. c.op = "push" /\ c.id = loc[w].id /\ c.ver = loc[w].ver + 1
        BY <1>1, <1>2, <4>1 DEF Copies
      <4>4. Others(w) /\ fpc'[w] = "push_save" /\ loc'[w] = c
        BY <3>2, <4>2, CopyMoves
      <4>5. loc[w].ver + 1 \in srcs'
        BY <3>2
      <4>6. Leads(w)
        BY <1>2, <4>3, <4>4, <4>5 DEF Leads, AddLabels, SavedLabels
      <4> QED
        BY <3>2, <4>4, <4>6
    <3> QED
      BY <1>5, <3>1, <3>2 DEF PushPut
  <2> QED
    BY <1>1, <1>2, <1>3, <2>1, <2>2, PlainLife
<1>6. CASE PushSave(w)
  <2>1. srcs' = srcs /\ (loc[w].ver \in srcs \/ terminated)
    BY <1>2, <1>6 DEF PushSave, Mate
  <2>2. CASE UNCHANGED <<fver, fstate, saved>> /\ FnFinish(w)
    BY <1>1, <1>2, <1>3, <2>1, <2>2, EndLife
  <2>3. ASSUME NEW l \in {"upd_get", "create"}, FnGoto(w, l), fver' = loc[w].ver, fstate' = fstate \/ fstate' = "Str"
        PROVE  OneLifeInv'
    <3>1. l \in FnLabels \ (AddLabels \cup {"idle", "push_save"})
      BY DEF FnLabels, AddLabels
    <3>2. Kept'
      BY <1>3, <2>1, <2>3 DEF Kept
    <3> QED
      BY <1>1, <1>2, <1>3, <2>1, <2>3, <3>1, <3>2, GoLife
  <2> QED
    BY <1>6, <2>2, <2>3 DEF PushSave
<1>7. CASE PushGC(w)
  <2>1. /\ UNCHANGED <<fstate, fver, saved>> /\ (srcs' = srcs \/ srcs' = srcs \ {loc[w].old})
        /\ fver = loc[w].ver /\ loc[w].old # loc[w].ver
    BY <1>2, <1>7 DEF PushGC, recVars, Mate, SavedLabels
  <2>2. Others(w) /\ fpc'[w] = "idle" /\ (gate' = "dead" <=> gate = "dead")
    BY <1>7, EndMoves DEF PushGC
  <2>3. Kept'
    BY <1>2, <1>3, <2>1, <2>2 DEF Kept
  <2>4. Gentle(w)
    BY <1>2, <1>3, <1>7, <2>1 DEF Gentle, PushGC
  <2>5. StaysYoung(w) /\ ~Adds(w)'
    BY <1>2, <2>1, <2>2 DEF StaysYoung, Adds
  <2> QED
    BY <1>4, <2>2, <2>3, <2>4, <2>5, LifeStep
<1> QED
  BY <1>5, <1>6, <1>7

\* A removal.
LEMMA DelLife ==
    ASSUME FnTypes, LabelsFit, OneLifeInv, OneLife, NEW w \in FnWorkers, DelState(w) \/ DelSrcs(w)
    PROVE  OneLifeInv'
<1>1. /\ fpc[w] \in {"del_state", "del_srcs"} /\ fpc[w] # "idle" /\ Fits(fpc[w], loc[w])
  BY DEF DelState, DelSrcs, LabelsFit
<1>2. loc[w].op = "del" /\ fstate # "Ini" /\ fid # 0 /\ Mate(w) /\ Quiet /\ Kept
  <2>1. loc[w].op = "del"
    BY <1>1 DEF Fits, DelLabels
  <2> QED
    BY <1>1, <2>1, LifeHand, YoungOps
<1>3. UNCHANGED <<fid, fver, saved>> /\ UNCHANGED <<pod, fwaiter>> /\ fngen' = fngen
  BY DEF DelState, DelSrcs, recVars, fdepVars, fpodVars
<1>4. {"del_clean", "rm_get", "del_remove"} \subseteq FnLabels \ (AddLabels \cup {"idle", "push_save"})
  BY DEF FnLabels, AddLabels
<1>5. CASE DelState(w)
  <2>1. srcs' = srcs
    BY <1>5 DEF DelState
  <2>2. CASE UNCHANGED <<fstate, terminated>> /\ FnFinish(w)
    BY <1>1, <1>2, <1>3, <2>1, <2>2, EndLife
  <2>3. ASSUME NEW l \in {"del_clean", "rm_get"}, FnGoto(w, l), fstate' = "Trm", terminated' = TRUE
        PROVE  OneLifeInv'
    <3>1. Kept'
      BY <2>3 DEF Kept
    <3> QED
      BY <1>1, <1>2, <1>3, <1>4, <2>1, <2>3, <3>1, GoLife
  <2> QED
    BY <1>5, <2>2, <2>3 DEF DelState
<1>6. CASE DelSrcs(w)
  <2>1. terminated /\ UNCHANGED <<fstate, terminated>> /\ fpc[w] = "del_srcs"
    BY <1>2, <1>6 DEF DelSrcs, Mate, recVars
  <2>2. /\ Others(w) /\ (gate' = "dead" <=> gate = "dead")
        /\ fpc'[w] = "idle" \/ (fpc'[w] = "del_remove" /\ loc'[w] = loc[w])
    BY <1>1, <1>6, GoMoves, EndMoves DEF DelSrcs
  <2>3. Gentle(w) /\ StaysYoung(w) /\ Kept' /\ Quiet'
    BY <1>2, <1>3, <2>1 DEF Gentle, StaysYoung, Kept, Quiet
  <2>4. fpc'[w] # "idle" => Mate(w)'
    BY <1>2, <1>3, <2>1, <2>2 DEF Mate, AddLabels
  <2>5. Adds(w)' => Adds(w)
    BY <1>1, <2>2 DEF Adds
  <2> QED
    BY <2>2, <2>3, <2>4, <2>5, LifeStep
<1> QED
  BY <1>5, <1>6

\* A deactivation, an activation.
LEMMA ToggleLife ==
    ASSUME FnTypes, LabelsFit, OneLifeInv, OneLife, NEW w \in FnWorkers, DeactState(w) \/ ActState(w)
    PROVE  OneLifeInv'
<1>1. /\ fpc[w] \in {"deact_state", "act_state"} /\ fpc[w] # "idle" /\ Fits(fpc[w], loc[w])
  BY DEF DeactState, ActState, Toggle, LabelsFit
<1>2. loc[w].op \in {"deact", "act"} /\ fstate # "Ini" /\ Kept
  <2>1. loc[w].op \in {"deact", "act"}
    BY <1>1 DEF Fits
  <2> QED
    BY <1>1, <2>1, LifeHand, YoungOps
<1>3. UNCHANGED <<fid, fver, saved, terminated, srcs, pod, fwaiter, fngen>>
  BY DEF DeactState, ActState, Toggle, fdepVars, fpodVars
<1>4. CASE UNCHANGED fstate /\ FnFinish(w)
  BY <1>1, <1>2, <1>3, <1>4, EndLife
<1>5. ASSUME NEW l \in {"rm_get", "create"}, FnGoto(w, l), fstate' \in {"Dea", "Str"}
      PROVE  OneLifeInv'
  <2>1. l \in FnLabels \ (AddLabels \cup {"idle", "push_save"})
    BY DEF FnLabels, AddLabels
  <2>2. gate' = gate
    BY <1>5 DEF FnGoto
  <2>3. Kept'
    BY <1>2, <1>3, <2>2 DEF Kept
  <2> QED
    BY <1>1, <1>2, <1>3, <1>5, <2>1, <2>3, GoLife
<1> QED
  BY <1>4, <1>5 DEF DeactState, ActState, Toggle

\* A refresh.
LEMMA RefreshLife ==
    ASSUME FnTypes, LabelsFit, OneLifeInv, OneLife, NEW w \in FnWorkers,
           RefreshSkip(w) \/ RefreshLost(w) \/ RefreshPods(w)
    PROVE  OneLifeInv'
<1>1. /\ fpc[w] = "ref_get" /\ fpc[w] # "idle" /\ Fits(fpc[w], loc[w])
  BY DEF RefreshSkip, RefreshLost, RefreshPods, LabelsFit
<1>2. loc[w].op \in {"soft", "hard"} /\ fid # 0 /\ Mate(w) /\ Quiet /\ Kept
  BY <1>1, LifeHand DEF Fits
<1>3. fstate # "Ini"
  BY <1>1, YoungOps DEF YoungAt, RefreshSkip, RefreshLost, RefreshPods, Revive
<1>4. UNCHANGED <<fstate, fid, fver, saved, terminated, srcs, pod, fngen>>
  BY DEF RefreshSkip, RefreshLost, RefreshPods, recVars, fdepVars, fpodVars
<1>5. CASE RefreshSkip(w)
  BY <1>1, <1>3, <1>4, <1>5, EndLife DEF RefreshSkip, fpodVars
<1>6. CASE RefreshLost(w)
  <2>1. {"build", "to_stalled"} \subseteq FnLabels \ (AddLabels \cup {"push_save"})
    BY DEF FnLabels, AddLabels
  <2>2. Others(w) /\ (fpc'[w] = "idle" \/ Leads(w)) /\ (gate' = "dead" <=> gate = "dead")
    BY <1>1, <1>2, <1>6, <2>1, PlainMoves DEF RefreshLost
  <2> QED
    BY <1>1, <1>3, <1>4, <1>6, <2>2, PlainLife DEF RefreshLost, fpodVars
<1>7. CASE RefreshPods(w)
  <2>1. Others(w) /\ fpc'[w] = "idle" /\ (gate' = "dead" <=> gate = "dead")
    BY <1>7, EndMoves DEF RefreshPods
  <2>2. fngen' # 0
    BY <1>4, <1>7 DEF RefreshPods, FnTypes, RecTypes, Deps
  <2>3. Gentle(w) /\ StaysYoung(w) /\ Kept' /\ Quiet' /\ ~Adds(w)'
    BY <1>2, <1>3, <1>4, <2>1, <2>2 DEF Gentle, StaysYoung, Kept, Quiet, Adds
  <2> QED
    BY <2>1, <2>3, LifeStep
<1> QED
  BY <1>5, <1>6, <1>7

\* A gate that dies in a refresh, and one that comes back.
LEMMA BootLife ==
    ASSUME FnTypes, LabelsFit, OneLifeInv, OneLife, NEW w \in FnWorkers, RefreshIni(w) \/ FnRestart(w)
    PROVE  OneLifeInv'
<1>1. /\ \A v \in FnWorkers : fpc'[v] = "idle" \/ (v = w /\ fpc'[v] = "ref_get" /\ loc'[v] = BootCopy)
      /\ fpc'[w] = "ref_get" => fstate # "none"
  <2>1. CASE RefreshIni(w)
    BY <2>1 DEF RefreshIni
  <2>2. CASE FnRestart(w) /\ fstate = "none"
    BY <2>2, RestartMoves
  <2>3. CASE FnRestart(w) /\ fstate # "none"
    BY <2>3, RestartMoves
  <2> QED
    BY <2>1, <2>2, <2>3
<1>2. BootCopy.op = "soft" /\ BootCopy.id = fid /\ BootCopy.st = fstate
  BY DEF BootCopy, NoCopy
<1>3. /\ UNCHANGED <<fstate, fid, fver, saved, terminated, fngen, pod>>
      /\ fwaiter' = [p \in DepPods |-> NoWaiter]
      /\ (srcs' = srcs /\ gate # "dead") \/ gate' = "dead"
  BY DEF RefreshIni, FnRestart, recVars, fdepVars
<1>4. Quiet' /\ Kept'
  BY <1>3 DEF OneLifeInv, Quiet, Kept, NoWaiter
<1>5. fid = 0 => \A v \in FnWorkers : fpc'[v] = "idle"
  BY <1>1 DEF OneLifeInv
<1>6. ASSUME fstate' = "Ini" PROVE Young'
  <2>1. YoungAt("idle", loc'[w]) /\ \A v \in FnWorkers : YoungAt("idle", loc'[v])
    BY DEF YoungAt
  <2>2. YoungAt("ref_get", BootCopy)
    BY <1>2, <1>3, <1>6 DEF YoungAt
  <2>3. \A v \in FnWorkers : YoungAt(fpc'[v], loc'[v])
    BY <1>1, <2>1, <2>2
  <2> QED
    BY <1>3, <1>6, <2>3 DEF OneLifeInv, Young
<1>7. \A v \in FnWorkers : fpc'[v] # "idle" => Mate(v)'
  BY <1>1, <1>2, <1>3 DEF Mate, AddLabels, SavedLabels
<1>8. \A v \in FnWorkers : ~Adds(v)'
  BY <1>1, <1>2 DEF Adds
<1> QED
  BY <1>3, <1>4, <1>5, <1>6, <1>7, <1>8 DEF OneLifeInv

\* A request that begins.
LEMMA BeginLife ==
    ASSUME FnTypes, LabelsFit, OneLifeInv, OneLife, NEW w \in FnWorkers,
           NEW op, NEW l, NEW sts, FnBegin(w, op, l, sts), "none" \notin sts,
           \/ l = "push_put" /\ op = "push" /\ w \in Pushers /\ "Ini" \notin sts
           \/ l = "attach_save" /\ op = "attach"
           \/ l = "del_state" /\ op = "del" /\ "Ini" \notin sts
           \/ l = "deact_state" /\ op = "deact" /\ "Ini" \notin sts
           \/ l = "act_state" /\ op = "act" /\ "Ini" \notin sts
           \/ l = "ref_get" /\ op \in {"soft", "hard"}
    PROVE  OneLifeInv'
<1>1. PICK c : c = [NoCopy EXCEPT !.op = op, !.id = fid, !.st = fstate, !.ver = fver, !.atts = fatts]
  OBVIOUS
<1>2. c.op = op /\ c.id = fid /\ c.st = fstate
  BY <1>1 DEF NoCopy
<1>3. Others(w) /\ fpc'[w] = l /\ loc'[w] = c /\ fpc[w] = "idle"
  BY <1>1, CopyMoves DEF FnBegin
<1>4. /\ UNCHANGED <<fstate, fid, fver, saved, terminated, srcs, gate, fngen, pod, fwaiter>>
      /\ fid # 0 /\ (fstate = "Ini" => l \in {"attach_save", "ref_get"})
  BY DEF FnBegin, fdepVars, fpodVars, OneLifeInv
<1>5. Gentle(w) /\ Quiet' /\ Kept'
  BY <1>4 DEF Gentle, OneLifeInv, Quiet, Kept
<1>6. StaysYoung(w)
  BY <1>2, <1>3, <1>4 DEF StaysYoung, OneLifeInv, Young, YoungAt
<1>7. Mate(w)' /\ ~Adds(w)'
  BY <1>2, <1>3, <1>4 DEF Mate, Adds, AddLabels, SavedLabels
<1> QED
  BY <1>3, <1>5, <1>6, <1>7, LifeStep

\* The only addition.
LEMMA FirstLife ==
    ASSUME FnTypes, LabelsFit, OneLifeInv, OneLife, NEW w \in FnWorkers, Add(w)
    PROVE  OneLifeInv'
<1>1. fid \in 0 .. MaxAdds /\ fid < MaxAdds
  BY DEF Add, FnTypes, RecTypes
<1>2. fid = 0 /\ fid' = 1 /\ fid' # 0
  BY <1>1, Bounds DEF Add, OneLife
<1>3. fngen = 0 /\ \A v \in FnWorkers : fpc[v] = "idle"
  BY <1>2 DEF OneLifeInv
<1>4. PICK c : c = [NoCopy EXCEPT !.op = "add", !.id = fid + 1, !.st = "Ini"]
  OBVIOUS
<1>5. c.op = "add" /\ c.id = fid'
  BY <1>4 DEF NoCopy, Add
<1>6. Others(w) /\ fpc'[w] = "add_put" /\ loc'[w] = c
  BY <1>4, CopyMoves DEF Add
<1>7. \A v \in FnWorkers : v # w => fpc'[v] = "idle"
  BY <1>3, <1>6 DEF Others
<1>8. /\ fstate' = "Ini" /\ fver' = 0 /\ ~saved' /\ ~terminated'
      /\ fngen' = fngen /\ UNCHANGED <<pod, fwaiter>>
  BY DEF Add, fdepVars, fpodVars
<1>9. Quiet' /\ Kept'
  BY <1>8 DEF OneLifeInv, Quiet, Kept
<1>10. Young'
  <2>1. \A v \in FnWorkers : YoungAt(fpc'[v], loc'[v])
    BY <1>6, <1>7 DEF YoungAt, AddLabels
  <2> QED
    BY <1>3, <1>8, <2>1 DEF Young
<1>11. \A v \in FnWorkers : fpc'[v] # "idle" => Mate(v)'
  BY <1>5, <1>6, <1>7, <1>8 DEF Mate, SavedLabels
<1>12. \A u, v \in FnWorkers : Adds(u)' /\ Adds(v)' => u = v
  BY <1>7 DEF Adds
<1> QED
  BY <1>2, <1>9, <1>10, <1>11, <1>12 DEF OneLifeInv

\* A pod was started from a deployment, so the record is not young.
LEMMA PodLife ==
    ASSUME FnTypes, LabelsFit, OneLifeInv, NEW p \in DepPods, FnPodStep(p)
    PROVE  OneLifeInv'
<1>1. fngen # 0
  <2>1. CASE PodStart(p)
    BY <2>1 DEF PodStart, FnTypes, RecTypes, Deps
  <2>2. CASE PodStop(p)
    BY <2>2 DEF PodStop, OneLifeInv, Quiet
  <2>3. CASE PortOpen(p) \/ PortTimeout(p) \/ PodAdd(p) \/ NotifyFind(p) \/ NotifySet(p)
    BY <2>3 DEF PortOpen, PortTimeout, PodAdd, NotifyFind, NotifySet, OneLifeInv, Quiet
  <2> QED
    BY <2>1, <2>2, <2>3 DEF FnPodStep
<1>2. /\ UNCHANGED <<fpc, loc, gate, fid, fver, saved, terminated, srcs>>
      /\ fstate' = fstate \/ fstate' = "Rdy"
  BY PodMoves
<1>3. fngen' = fngen
  BY DEF FnPodStep, PodStart, PodStop, PortOpen, PortTimeout, PodAdd, NotifyFind, NotifySet, fdepVars
<1>4. fid # 0 /\ fstate # "Ini" /\ fstate' # "Ini"
  BY <1>1, <1>2 DEF OneLifeInv, Young
<1>5. Quiet' /\ Kept'
  BY <1>1, <1>2, <1>3 DEF OneLifeInv, Quiet, Kept
<1>6. ASSUME NEW v \in FnWorkers, fpc'[v] # "idle" PROVE Mate(v)'
  <2>1. Mate(v) /\ fpc'[v] = fpc[v] /\ loc'[v] = loc[v]
    BY <1>2, <1>6 DEF OneLifeInv
  <2>2. fpc[v] \notin AddLabels
    BY <1>4, <2>1 DEF Mate
  <2> QED
    BY <1>2, <2>1, <2>2 DEF Mate
<1>7. \A u, v \in FnWorkers : Adds(u)' /\ Adds(v)' => u = v
  BY <1>2 DEF OneLifeInv, Adds
<1> QED
  BY <1>2, <1>4, <1>5, <1>6, <1>7 DEF OneLifeInv

\* Every step keeps a single life in order.
LEMMA LifeNext ==
    ASSUME FnTypes, LabelsFit, OneLifeInv, OneLife, FnNext
    PROVE  OneLifeInv'
<1>1. ASSUME NEW w \in FnWorkers, FnRequest(w) PROVE OneLifeInv'
  <2>n. /\ "none" \notin {"Rdy", "Stl"} /\ "Ini" \notin {"Rdy", "Stl"} /\ "none" \notin States \ {"none"}
        /\ "none" \notin {"Rdy"} /\ "Ini" \notin {"Rdy"} /\ "none" \notin {"Dea"} /\ "Ini" \notin {"Dea"}
        /\ "none" \notin {"Dea", "Str", "Rdy", "Stl", "Trm"} /\ "Ini" \notin {"Dea", "Str", "Rdy", "Stl", "Trm"}
    OBVIOUS
  <2>1. CASE Add(w)
    BY <2>1, FirstLife
  <2>2. CASE Push(w)
    BY <2>2, <2>n, BeginLife DEF Push
  <2>3. CASE Attach(w)
    BY <2>3, <2>n, BeginLife DEF Attach
  <2>4. CASE Del(w)
    BY <2>4, <2>n, BeginLife DEF Del
  <2>5. CASE Deactivate(w)
    BY <2>5, <2>n, BeginLife DEF Deactivate
  <2>6. CASE Activate(w)
    BY <2>6, <2>n, BeginLife DEF Activate
  <2>7. ASSUME NEW op \in {"soft", "hard"}, Refresh(w, op) PROVE OneLifeInv'
    BY <2>7, <2>n, BeginLife DEF Refresh
  <2> QED
    BY <1>1, <2>1, <2>2, <2>3, <2>4, <2>5, <2>6, <2>7 DEF FnRequest
<1>2. ASSUME NEW w \in FnWorkers, AddLimited(w) \/ FnStep(w) \/ FnRestart(w) PROVE OneLifeInv'
  BY <1>2, AddLife, StateLife, StartLife, PushLife, AttachLife, DelLife, RmLife, ToggleLife, RefreshLife,
     BootLife DEF FnStep
<1>3. ASSUME NEW p \in DepPods, FnPodStep(p) PROVE OneLifeInv'
  BY <1>3, PodLife
<1> QED
  BY <1>1, <1>2, <1>3 DEF FnNext

\* updateSources and GCOldSources: of a function that is added once and pushed to by
\* one goroutine, the sources the record names are on disk from the save to the
\* removal, however many removals, activations, attachments, refreshes, errors
\* and restarts overlap.
THEOREM SourcesAreKept ==
    ASSUME OneLife
    PROVE  FnSpec => []SourcesKept
<1>1. FnInit => OneLifeInv
  <2> SUFFICES ASSUME FnInit PROVE OneLifeInv
    OBVIOUS
  <2>1. fstate = "none" /\ fngen = 0 /\ ~saved /\ \A v \in FnWorkers : fpc[v] = "idle"
    BY DEF FnInit
  <2>2. Quiet /\ Kept
    BY <2>1 DEF FnInit, Quiet, Kept, NoWaiter
  <2> QED
    BY <2>1, <2>2 DEF OneLifeInv, Adds
<1>2. FnInv /\ OneLifeInv /\ [FnNext]_fnVars => OneLifeInv'
  <2>1. ASSUME FnInv, OneLifeInv, FnNext PROVE OneLifeInv'
    BY <2>1, LifeNext DEF FnInv
  <2>2. ASSUME OneLifeInv, UNCHANGED fnVars PROVE OneLifeInv'
    <3>1. UNCHANGED <<fstate, fid, fver, saved, terminated, srcs, gate, fngen, pod, fwaiter, fpc, loc>>
      BY <2>2 DEF fnVars, recVars, fdepVars, fpodVars
    <3>2. \A v \in FnWorkers : (Mate(v)' <=> Mate(v)) /\ (Adds(v)' <=> Adds(v))
      BY <3>1 DEF Mate, Adds
    <3>3. (Young' <=> Young) /\ (Quiet' <=> Quiet) /\ (Kept' <=> Kept)
      BY <3>1 DEF Young, Quiet, Kept
    <3> QED
      BY <2>2, <3>1, <3>2, <3>3 DEF OneLifeInv
  <2> QED
    BY <2>1, <2>2
<1>3. OneLifeInv => SourcesKept
  BY DEF OneLifeInv, Kept, SourcesKept
<1> QED
  BY OneAtWorkKnows, <1>1, <1>2, <1>3, PTL DEF FnSpec
=============================================================================
