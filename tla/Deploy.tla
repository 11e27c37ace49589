------------------------------- MODULE Deploy -------------------------------
(***************************************************************************)
(* Deployments of several items (gate/deploy.go): middleware, functions    *)
(* and routers that are started in order by a goroutine of their own, and  *)
(* stopped by name when starting fails, when the deployment is deleted and *)
(* when the gate is started over an unfinished one.                        *)
(*                                                                         *)
(* Starting and stopping an item is one step here; FnLife, Mware and       *)
(* Routers model what such a step consists of.                             *)
(***************************************************************************)
EXTENDS Integers, Sequences, SequencesExt

CONSTANTS
    Deps,          \* deployments, by ObjID
    DpItems,       \* Deps -> <<middleware, functions, routers>>, sequences of names
    DpProcs,       \* goroutines: requests and the ones DeployInit starts
    NoDep,
    DpMaxFaults,   \* bound on failing starts and stops and restarts of the gate
    DpMaxUser      \* bound on items users add or delete themselves

MW == 1
FN == 2
RT == 3
Kind == {MW, FN, RT}
OfDep(d, k) == DpItems[d][k]
Names == UNION {UNION {Range(OfDep(d, k)) : k \in Kind} : d \in Deps}
KindOf(d, n) == CHOOSE k \in Kind : n \in Range(OfDep(d, k))

User == "user"
NoItem == "none"

\* A name stands for an item of one kind: each kind has a collection of its own.
ASSUME DpAssumption ==
    /\ \A d \in Deps, k \in Kind : OfDep(d, k) \in Seq(Names)
    /\ \A d \in Deps, k, l \in Kind :
          k # l => Range(OfDep(d, k)) \cap Range(OfDep(d, l)) = {}
    /\ Deps \cap {NoDep, User, NoItem} = {}
    /\ DpMaxFaults \in Nat /\ DpMaxUser \in Nat

\* the order of starting
StartList(d) == OfDep(d, MW) \o OfDep(d, FN) \o OfDep(d, RT)
\* deployStop{Routers,Functions,Mwares} of StopItems
StopList(d) == OfDep(d, RT) \o OfDep(d, FN) \o OfDep(d, MW)

VARIABLES
    dprec,      \* DeployDesc.State, "none" without a record
    dpids,      \* deployments whose record was replaced by ids (ready once)
    item,       \* who made the item of the name: a deployment, a user, nobody
    dproc,      \* the goroutines: what they do, for which deployment, what is left
    dpdown,     \* the gate panicked and is to be restarted
    dpmixed,    \* ghost: deployments that two goroutines worked on at a time
    dptaken,    \* ghost: items that were removed by others than their maker
    dpfaults, dprestarts, dpuser

dpVars == <<dprec, dpids, item, dproc, dpdown, dpmixed, dptaken, dpfaults, dprestarts, dpuser>>
dpBounds == <<dpfaults, dprestarts, dpuser>>

Idle == [op |-> "idle", dep |-> NoDep, todo |-> <<>>, err |-> FALSE, ids |-> FALSE]

DpStates == {"none", "ini", "rdy", "stl", "trm"}
Ops == {"idle", "start", "undo", "del", "restop", "fin"}

DpTypeOK ==
    /\ dprec \in [Deps -> DpStates] /\ dpids \subseteq Deps
    /\ item \in [Names -> {NoItem, User} \cup Deps]
    /\ \A p \in DpProcs :
          /\ dproc[p].op \in Ops /\ dproc[p].dep \in Deps \cup {NoDep}
          /\ dproc[p].op = "idle" <=> dproc[p].dep = NoDep
          /\ Range(dproc[p].todo) \subseteq Names
          /\ dproc[p].err \in BOOLEAN /\ dproc[p].ids \in BOOLEAN
    /\ dpdown \in BOOLEAN
    /\ dpmixed \subseteq Deps /\ dptaken \subseteq Names
    /\ dpfaults \in 0..DpMaxFaults /\ dprestarts \in 0..DpMaxFaults /\ dpuser \in 0..DpMaxUser

DpInit ==
    /\ dprec = [d \in Deps |-> "none"] /\ dpids = {}
    /\ item = [n \in Names |-> NoItem]
    /\ dproc = [p \in DpProcs |-> Idle]
    /\ dpdown = FALSE /\ dpmixed = {} /\ dptaken = {}
    /\ dpfaults = 0 /\ dprestarts = 0 /\ dpuser = 0

-----------------------------------------------------------------------------
DpFault == dpfaults + dprestarts < DpMaxFaults /\ dpfaults' = dpfaults + 1
DpOk == UNCHANGED dpfaults

DpSet(p, r) == dproc' = [dproc EXCEPT ![p] = r]
Working(d) == \E p \in DpProcs : dproc[p].dep = d

\* AllButLast: what "i >= till" leaves of a list that was gone through, with till
\* the index of the last item
AllButLast(s) == IF s = <<>> THEN <<>> ELSE Front(s)

UndoList_OneMore(d, m) ==
    LET mws == Len(OfDep(d, MW))
        fns == Len(OfDep(d, FN))
    IN  CASE m < mws              -> SubSeq(OfDep(d, MW), 1, m + 1)
          [] m \in mws..mws+fns-1 -> SubSeq(OfDep(d, FN), 1, m - mws + 1) \o OfDep(d, MW)
          [] m >= mws + fns       -> SubSeq(OfDep(d, RT), 1, m - mws - fns + 1)
                                        \o OfDep(d, FN) \o OfDep(d, MW)

\* What StartItems undoes when an item fails with m started before it: of its own
\* kind what comes before it; of the kinds started before, the index of range
\* stands at the last item, which is left alone.
UndoList(d, m) ==
    LET mws == Len(OfDep(d, MW))
        fns == Len(OfDep(d, FN))
    IN  CASE m < mws              -> SubSeq(OfDep(d, MW), 1, m)
          [] m \in mws..mws+fns-1 -> SubSeq(OfDep(d, FN), 1, m - mws) \o AllButLast(OfDep(d, MW))
          [] m >= mws + fns       -> SubSeq(OfDep(d, RT), 1, m - mws - fns)
                                        \o AllButLast(OfDep(d, FN)) \o AllButLast(OfDep(d, MW))

\* how many items StartItems has started
Started(r) == Len(StartList(r.dep)) - Len(r.todo)

\* an item is removed by its name, whoever made it
TakeItem(n, d) ==
    /\ item' = [item EXCEPT ![n] = NoItem]
    /\ dptaken' = IF item[n] \in {d, NoItem} THEN dptaken ELSE dptaken \cup {n}

-----------------------------------------------------------------------------
(* StartItems.                                                             *)

\* Start: dbInsert, and the goroutine of deployStartItems
DpStart(p, d) ==
    /\ ~dpdown /\ dproc[p].op = "idle" /\ dprec[d] = "none"
    /\ ~Working(d) /\ d \notin dpmixed /\ \A n \in Names : item[n] # d
    /\ dprec' = [dprec EXCEPT ![d] = "ini"]
    /\ dpids' = dpids \ {d}
    /\ DpSet(p, [Idle EXCEPT !.op = "start", !.dep = d, !.todo = StartList(d)])
    /\ UNCHANGED <<item, dpdown, dpmixed, dptaken, dpBounds>>

\* The item is added, unless its name is taken or something else fails.
StartItem(p) ==
    LET d == dproc[p].dep
        n == Head(dproc[p].todo)
    IN  /\ ~dpdown /\ dproc[p].op = "start" /\ dproc[p].todo # <<>> /\ ~dproc[p].ids
        /\ \/ /\ item[n] = NoItem /\ item' = [item EXCEPT ![n] = d]
              /\ DpSet(p, [dproc[p] EXCEPT !.todo = Tail(@)]) /\ DpOk
           \/ /\ (item[n] # NoItem /\ DpOk) \/ (item[n] = NoItem /\ DpFault)
              /\ DpSet(p, [dproc[p] EXCEPT !.op = "undo", !.todo = UndoList(d, Started(dproc[p]))])
              /\ UNCHANGED item
        /\ UNCHANGED <<dprec, dpids, dpdown, dpmixed, dptaken, dprestarts, dpuser>>

\* The record of a deployment that was ready has the ids only: a function's
\* sources do not parse, a middleware or a router is a nil pointer.
StartIds(p) ==
    LET d == dproc[p].dep
        n == Head(dproc[p].todo)
    IN  /\ ~dpdown /\ dproc[p].op = "start" /\ dproc[p].todo # <<>> /\ dproc[p].ids
        /\ IF KindOf(d, n) = FN
           THEN /\ DpSet(p, [dproc[p] EXCEPT !.op = "undo", !.todo = UndoList(d, Started(dproc[p]))])
                /\ UNCHANGED dpdown
           ELSE dpdown' = TRUE /\ UNCHANGED dproc
        /\ UNCHANGED <<dprec, dpids, item, dpmixed, dptaken, dpBounds>>

\* dbUpdateAll with the ids of the items; without a record it fails, unnoticed
StartDone(p) ==
    LET d == dproc[p].dep
    IN  /\ ~dpdown /\ dproc[p].op = "start" /\ dproc[p].todo = <<>>
        /\ dprec' = [dprec EXCEPT ![d] = IF @ = "none" THEN @ ELSE "rdy"]
        /\ dpids' = dpids \cup {d}
        /\ DpSet(p, Idle)
        /\ UNCHANGED <<item, dpdown, dpmixed, dptaken, dpBounds>>

\* one of the items to be undone; an error is ignored
UndoItem(p) ==
    /\ ~dpdown /\ dproc[p].op = "undo" /\ dproc[p].todo # <<>>
    /\ \/ TakeItem(Head(dproc[p].todo), dproc[p].dep) /\ DpOk
       \/ DpFault /\ UNCHANGED <<item, dptaken>>
    /\ DpSet(p, [dproc[p] EXCEPT !.todo = Tail(@)])
    /\ UNCHANGED <<dprec, dpids, dpdown, dpmixed, dprestarts, dpuser>>

UndoDone(p) ==
    LET d == dproc[p].dep
    IN  /\ ~dpdown /\ dproc[p].op = "undo" /\ dproc[p].todo = <<>>
        /\ dprec' = [dprec EXCEPT ![d] = IF @ = "none" THEN @ ELSE "stl"]
        /\ DpSet(p, Idle)
        /\ UNCHANGED <<dpids, item, dpdown, dpmixed, dptaken, dpBounds>>

-----------------------------------------------------------------------------
(* StopItems, for Del, for a restart and to finish a Del.                  *)

\* Del: the state, then the items
DpDelMark(p, d) ==
    /\ ~dpdown /\ dproc[p].op = "idle" /\ dprec[d] # "none"
    /\ dprec' = [dprec EXCEPT ![d] = "trm"]
    /\ DpSet(p, [Idle EXCEPT !.op = "del", !.dep = d, !.todo = StopList(d)])
    /\ dpmixed' = IF Working(d) THEN dpmixed \cup {d} ELSE dpmixed
    /\ UNCHANGED <<dpids, item, dpdown, dptaken, dpBounds>>

\* An item is stopped.  After an error the rest of its kind is still stopped,
\* and then StopItems gives up.
StopItem(p) ==
    LET r == dproc[p]
        n == Head(r.todo)
        rest == Tail(r.todo)
        Goes(err) == IF err /\ (rest = <<>> \/ KindOf(r.dep, Head(rest)) # KindOf(r.dep, n))
                     THEN Idle ELSE [r EXCEPT !.todo = rest, !.err = err]
    IN  /\ ~dpdown /\ r.op \in {"del", "restop", "fin"} /\ r.todo # <<>>
        /\ \/ TakeItem(n, r.dep) /\ DpSet(p, Goes(r.err)) /\ DpOk
           \/ /\ item[n] # NoItem /\ DpFault
              /\ DpSet(p, Goes(TRUE)) /\ UNCHANGED <<item, dptaken>>
        /\ UNCHANGED <<dprec, dpids, dpdown, dpmixed, dprestarts, dpuser>>

\* All is stopped: Del removes the record, deployRestartItems starts again,
\* deployStopItems is through, with the record still there.
StopDone(p) ==
    LET r == dproc[p]
    IN  /\ ~dpdown /\ r.op \in {"del", "restop", "fin"} /\ r.todo = <<>>
        /\ IF r.op = "restop"
           THEN DpSet(p, [r EXCEPT !.op = "start", !.todo = StartList(r.dep)])
           ELSE DpSet(p, Idle)
        /\ IF r.op = "del" THEN dprec' = [dprec EXCEPT ![r.dep] = "none"] ELSE UNCHANGED dprec
        /\ UNCHANGED <<dpids, item, dpdown, dpmixed, dptaken, dpBounds>>

-----------------------------------------------------------------------------
(* Users have items of their own, under any name, and delete any item.     *)

UserItem(n) ==
    /\ ~dpdown /\ dpuser < DpMaxUser /\ dpuser' = dpuser + 1
    /\ IF item[n] = NoItem
       THEN item' = [item EXCEPT ![n] = User] /\ UNCHANGED dptaken
       ELSE TakeItem(n, User)
    /\ UNCHANGED <<dprec, dpids, dproc, dpdown, dpmixed, dpfaults, dprestarts>>

\* The gate dies and DeployInit goes through the records.  Its goroutines share
\* the one DeployDesc the records are read into: each works on the record it was
\* started for or on one that was read after it.
DpRestart ==
    LET stored == {d \in Deps : dprec[d] # "none"}
        unfinished == {d \in stored : dprec[d] \in {"ini", "trm"}}
        Op(d) == IF dprec[d] = "ini" THEN "restop" ELSE "fin"
    IN  /\ dpfaults + dprestarts < DpMaxFaults /\ dprestarts' = dprestarts + 1
        /\ dpdown' = FALSE
        /\ \E ord \in SetToSeqs(stored), proc \in [unfinished -> DpProcs],
              sees \in [unfinished -> stored] :
              /\ IsInjective(proc)
              /\ \A i, j \in 1..Len(ord) :
                    ord[i] \in unfinished /\ sees[ord[i]] = ord[j] => i <= j
              /\ dproc' = [p \in DpProcs |->
                    IF \E d \in unfinished : proc[d] = p
                    THEN LET d == CHOOSE d \in unfinished : proc[d] = p
                         IN  [op |-> Op(d), dep |-> sees[d], todo |-> StopList(sees[d]),
                              err |-> FALSE, ids |-> sees[d] \in dpids]
                    ELSE Idle]
              /\ dpmixed' = dpmixed \cup
                    UNION {{e, sees[e]} : e \in {e \in unfinished : sees[e] # e}}
        /\ UNCHANGED <<dprec, dpids, item, dptaken, dpfaults, dpuser>>

-----------------------------------------------------------------------------
DpProc(p) ==
    \/ StartItem(p) \/ StartIds(p) \/ StartDone(p) \/ UndoItem(p) \/ UndoDone(p)
    \/ StopItem(p) \/ StopDone(p)

DpNext ==
    \/ \E p \in DpProcs : DpProc(p) \/ \E d \in Deps : DpStart(p, d) \/ DpDelMark(p, d)
    \/ \E n \in Names : UserItem(n)
    \/ DpRestart

DpSpec == DpInit /\ [][DpNext]_dpVars
DpLive == DpSpec /\ \A p \in DpProcs : WF_dpVars(DpProc(p))

-----------------------------------------------------------------------------
(* Properties.                                                             *)

Made(d) == {n \in Names : item[n] = d}
LastOf(s) == IF s = <<>> THEN {} ELSE {Last(s)}

\* Starting undoes only what it started: a failing item that belongs to somebody
\* else, under the same name, stays (deployStop* up to "till"), unless the item was
\* taken from the deployment and made anew by others meanwhile.
UndoTakesOwn ==
    [][\A p \in DpProcs : dproc[p].op = "undo" /\ dproc'[p] # dproc[p] /\ dproc[p].dep \notin dpmixed =>
         \A n \in Names : item'[n] # item[n] => item[n] = dproc[p].dep \/ n \in dptaken]_dpVars

\* A start that failed leaves at most the last middleware and the last function
\* behind (StartItems leaves them out when a later kind fails), as long as its
\* undoing meets no failure and nobody else works on the deployment.
StallLeavesLast ==
    \A d \in Deps : dprec[d] = "stl" /\ dpfaults = 0 /\ d \notin dpmixed =>
        Made(d) \subseteq LastOf(OfDep(d, MW)) \cup LastOf(OfDep(d, FN))

\* A deployment that is gone left nothing behind: what a stalled or half stopped
\* one still has is stopped by Del, unless Del ran while the items were started.
DelLeavesNothing ==
    \A d \in Deps : dprec[d] = "none" /\ d \notin dpmixed => Made(d) = {}

\* A deployment that is ready is complete, but for items others removed by their
\* name, and but for goroutines of a restart that work on a record that is not
\* theirs.
ReadyIsComplete ==
    \A d \in Deps : dprec[d] = "rdy" /\ d \notin dpmixed =>
        \A n \in Range(StartList(d)) : item[n] = d \/ n \in dptaken

\* Starting, undoing and deleting leave of a deployment what its record says, and
\* touch nothing of others (StartItems, StopItems, Del).
DeploySound ==
    /\ [](StallLeavesLast /\ DelLeavesNothing /\ ReadyIsComplete)
    /\ UndoTakesOwn

\* deploy.go:640 "Will finish deploy stop", :636 "Will restart deploy": what a
\* restart of the gate finds unfinished gets finished, when the gate stays up.
RestartFinishes ==
    \A d \in Deps : (dprec[d] \in {"ini", "trm"}) ~> (dprec[d] \notin {"ini", "trm"} \/ dpfaults > 0)
=============================================================================
