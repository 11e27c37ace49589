------------------------------- MODULE Users -------------------------------
(***************************************************************************)
(* The users of the admin daemon (admd): one name, which Keystone knows as *)
(* a project and a user (ks.go), the database as a record of limits and    *)
(* the gate by the tenant's projects.  Handlers (main.go) change the three *)
(* one after another; nothing locks a name.  One plan of limits.  An       *)
(* answer that fails had no effect.                                        *)
(***************************************************************************)
EXTENDS Integers, FiniteSets

CONSTANTS
    UsWorkers,    \* handlers at a time
    UsMaxOps,     \* bound on the requests
    UsMaxFaults,  \* bound on failing calls and deaths of the daemon
    NoLimits      \* no record

ASSUME UsAssumption ==
    /\ UsMaxOps \in Nat /\ UsMaxFaults \in Nat
    /\ NoLimits \notin [rate : 0 .. 1, burst : 0 .. 1]

VARIABLES
    uslim,     \* the record of the name in Limits
    usproj,    \* Keystone: the project of the name, 0 for none
    ususer,    \* Keystone: the user of the name, 0 for none
    usinfo,    \* and what it keeps for it: default project, role, enabled, credentials
    usgate,    \* does the tenant have projects in the gate?
    usplan,    \* the record in Plans
    usw,       \* the handlers
    usops,
    usfaults,
    usghost    \* blame: limits gone by an overlapped request; late: stored when
               \* the user was gone or going; planned: the user was added with a plan

usVars == <<uslim, usproj, ususer, usinfo, usgate, usplan, usw, usops, usfaults, usghost>>

Limits == [rate : 0 .. 1, burst : 0 .. 1]
Params == {[rate |-> 1, burst |-> 0], [rate |-> 0, burst |-> 1]}  \* of requests
NoInfo == [proj |-> 0, role |-> FALSE, on |-> FALSE, creds |-> FALSE]
AtRest == [pc |-> "idle", id |-> 0, proj |-> 0, lim |-> NoLimits]
NoGhost == [blame |-> FALSE, late |-> FALSE, planned |-> FALSE]

UsTypeOK ==
    /\ uslim \in Limits \cup {NoLimits} /\ usplan \in Limits \cup {NoLimits}
    /\ usproj \in 0 .. UsMaxOps /\ ususer \in 0 .. UsMaxOps /\ usgate \in BOOLEAN
    /\ usinfo \in [proj : 0 .. UsMaxOps, role : BOOLEAN, on : BOOLEAN, creds : BOOLEAN]
    /\ usw \in [UsWorkers -> [pc : {"idle", "a_lim", "a_proj", "a_user", "a_role", "a_undo",
                                    "d_proj", "d_lim", "d_user", "d_find", "d_last",
                                    "l_info", "l_set", "p_set"},
                              id : 0 .. UsMaxOps, proj : 0 .. UsMaxOps,
                              lim : Limits \cup {NoLimits}]]
    /\ usops \in 0 .. UsMaxOps /\ usfaults \in 0 .. UsMaxFaults

UsInit ==
    /\ uslim = NoLimits /\ usproj = 0 /\ ususer = 0 /\ usinfo = NoInfo /\ usgate = FALSE
    /\ usplan = NoLimits /\ usw = [w \in UsWorkers |-> AtRest]
    /\ usops = 0 /\ usfaults = 0 /\ usghost = NoGhost

-----------------------------------------------------------------------------
\* patchFnLimits: zero says nothing, and a burst comes with its rate only; into an
\* empty group (nil) all is taken
Patch(into, from) ==
    IF into = NoLimits THEN from
    ELSE IF from.rate # 0 THEN [into EXCEPT !.rate = from.rate, !.burst = from.burst] ELSE into

\* xkst.HasRole for what the caller wants; "self" is the user of the name
MayAdd == {"admin", "ui"}
MayDelete == {"admin", "self"}
MayLimit == {"admin"}

\* A request arrives
Starts(w, pc) == usw[w].pc = "idle" /\ usops < UsMaxOps /\ usops' = usops + 1
                 /\ usw' = [usw EXCEPT ![w] = pc]
Goes(w, pc) == usw' = [usw EXCEPT ![w].pc = pc]
Ends(w) == usw' = [usw EXCEPT ![w] = AtRest]
Fault == usfaults < UsMaxFaults /\ usfaults' = usfaults + 1
Fine == UNCHANGED usfaults

-----------------------------------------------------------------------------
\* handleAddUser and selectPlan: with a plan, or, when none is named and there is
\* no default one, without
AddStart(w) ==
    /\ \E caller \in MayAdd, l \in {usplan, NoLimits} :
         Starts(w, [AtRest EXCEPT !.pc = IF l = NoLimits THEN "a_proj" ELSE "a_lim", !.lim = l])
    /\ UNCHANGED <<uslim, usproj, ususer, usinfo, usgate, usplan, usfaults, usghost>>

\* dbSetUserLimits
AddLimits(w) ==
    /\ usw[w].pc = "a_lim"
    /\ \/ uslim' = usw[w].lim /\ Goes(w, "a_proj") /\ Fine
          /\ usghost' = [usghost EXCEPT !.blame = FALSE]
       \/ Fault /\ Ends(w) /\ UNCHANGED <<uslim, usghost>>
    /\ UNCHANGED <<usproj, ususer, usinfo, usgate, usplan, usops>>

\* ksAddUserAndProject: POST projects, which refuses a name it has ...
AddProject(w) ==
    /\ usw[w].pc = "a_proj"
    /\ \/ usproj = 0 /\ usproj' = usops /\ Fine
          /\ usw' = [usw EXCEPT ![w].pc = "a_user", ![w].proj = usops]
       \/ usproj # 0 /\ UNCHANGED usproj /\ Fine /\ Goes(w, "a_undo")
       \/ Fault /\ UNCHANGED usproj /\ Goes(w, "a_undo")
    /\ UNCHANGED <<uslim, ususer, usinfo, usgate, usplan, usops, usghost>>

\* ... POST users: the user is disabled until somebody enables it ...
AddUser(w) ==
    /\ usw[w].pc = "a_user"
    /\ \/ ususer = 0 /\ ususer' = usw[w].proj /\ Fine /\ Goes(w, "a_role")
          /\ usinfo' = [NoInfo EXCEPT !.proj = usw[w].proj]
          /\ usghost' = [usghost EXCEPT !.planned = usw[w].lim # NoLimits]
       \/ ((ususer # 0 /\ Fine) \/ Fault) /\ Goes(w, "a_undo") /\ UNCHANGED <<ususer, usinfo, usghost>>
    /\ UNCHANGED <<uslim, usproj, usgate, usplan, usops>>

\* ... PUT of the role
AddRole(w) ==
    /\ usw[w].pc = "a_role"
    /\ \/ Fine /\ Ends(w)
          /\ usinfo' = IF ususer = usw[w].proj THEN [usinfo EXCEPT !.role = TRUE] ELSE usinfo
       \/ Fault /\ Goes(w, "a_undo") /\ UNCHANGED usinfo
    /\ UNCHANGED <<uslim, usproj, ususer, usgate, usplan, usops, usghost>>

AddUndo_Not(w) ==
    /\ usw[w].pc = "a_undo" /\ Ends(w)
    /\ UNCHANGED <<uslim, usproj, ususer, usinfo, usgate, usplan, usops, usfaults, usghost>>

\* dbDelUserLimits, whatever the reason was: the limits of a user that has the
\* name already go too
AddUndo(w) ==
    /\ usw[w].pc = "a_undo" /\ Ends(w)
    /\ \/ uslim' = NoLimits /\ Fine /\ usghost' = [usghost EXCEPT !.blame = TRUE]
       \/ Fault /\ UNCHANGED <<uslim, usghost>>
    /\ UNCHANGED <<usproj, ususer, usinfo, usgate, usplan, usops>>

-----------------------------------------------------------------------------
\* handleDelUser: getUserInfo finds the name by the id
DelStart(w) ==
    /\ ususer # 0
    /\ \E caller \in MayDelete : Starts(w, [AtRest EXCEPT !.pc = "d_proj", !.id = ususer])
    /\ UNCHANGED <<uslim, usproj, ususer, usinfo, usgate, usplan, usfaults, usghost>>

\* handleProjectDel at the gate.  delAll stops at the first object it cannot delete
\* and says nothing of it: the project's other objects stay, and the answer is OK.
ProjectDel ==
    \/ usgate' = FALSE /\ Fine
    \/ UNCHANGED usgate /\ Fault

\* tryRemoveAllProjects, by the name
DelProjects(w) ==
    /\ usw[w].pc = "d_proj"
    /\ \/ ProjectDel /\ Goes(w, "d_lim")
       \/ Fault /\ usgate' \in {FALSE, usgate} /\ Ends(w)
    /\ UNCHANGED <<uslim, usproj, ususer, usinfo, usplan, usops, usghost>>

\* dbDelUserLimits, by the name
DelLimits(w) ==
    /\ usw[w].pc = "d_lim"
    /\ \/ uslim' = NoLimits /\ Fine /\ Goes(w, "d_user") /\ usghost' = [usghost EXCEPT !.blame = TRUE]
       \/ Fault /\ Ends(w) /\ UNCHANGED <<uslim, usghost>>
    /\ UNCHANGED <<usproj, ususer, usinfo, usgate, usplan, usops>>

\* ksDelUserAndProject: DELETE of the user, by the id; its credentials go with it
DelUser(w) ==
    /\ usw[w].pc = "d_user"
    /\ \/ ususer = usw[w].id /\ ususer' = 0 /\ usinfo' = NoInfo /\ Fine /\ Goes(w, "d_find")
       \/ ((ususer # usw[w].id /\ Fine) \/ Fault) /\ Ends(w) /\ UNCHANGED <<ususer, usinfo>>
    /\ UNCHANGED <<uslim, usproj, usgate, usplan, usops, usghost>>

\* ksGetProjectInfo: the project, by the name
DelFind(w) ==
    /\ usw[w].pc = "d_find"
    /\ \/ usproj # 0 /\ Fine /\ usw' = [usw EXCEPT ![w].pc = "d_last", ![w].proj = usproj]
       \/ ((usproj = 0 /\ Fine) \/ Fault) /\ Ends(w)
    /\ UNCHANGED <<uslim, usproj, ususer, usinfo, usgate, usplan, usops, usghost>>

\* DELETE of it, by its id
DelProject(w) ==
    /\ usw[w].pc = "d_last" /\ Ends(w)
    /\ \/ usproj' = (IF usproj = usw[w].proj THEN 0 ELSE usproj) /\ Fine
       \/ Fault /\ UNCHANGED usproj
    /\ UNCHANGED <<uslim, ususer, usinfo, usgate, usplan, usops, usghost>>

-----------------------------------------------------------------------------
\* handleSetLimits: the plan, patched, or the limits alone ...
LimStart(w) ==
    /\ \E caller \in MayLimit, from \in Params, into \in {usplan, NoLimits} :
         Starts(w, [AtRest EXCEPT !.pc = "l_info", !.lim = Patch(into, from)])
    /\ UNCHANGED <<uslim, usproj, ususer, usinfo, usgate, usplan, usfaults, usghost>>

\* ... getUserInfo ...
LimInfo(w) ==
    /\ usw[w].pc = "l_info"
    /\ \/ ususer # 0 /\ Fine /\ usw' = [usw EXCEPT ![w].pc = "l_set", ![w].id = ususer]
       \/ ((ususer = 0 /\ Fine) \/ Fault) /\ Ends(w)
    /\ UNCHANGED <<uslim, usproj, ususer, usinfo, usgate, usplan, usops, usghost>>

\* A delete has removed the limits and is about to remove the user
Leaving == \E v \in UsWorkers : usw[v].pc = "d_user"

\* ... and the upsert, by the name
LimSet(w) ==
    /\ usw[w].pc = "l_set" /\ Ends(w)
    /\ \/ uslim' = usw[w].lim /\ Fine
          /\ usghost' = [usghost EXCEPT !.late = @ \/ ususer # usw[w].id \/ Leaving]
       \/ Fault /\ UNCHANGED <<uslim, usghost>>
    /\ UNCHANGED <<usproj, ususer, usinfo, usgate, usplan, usops>>

-----------------------------------------------------------------------------
\* handleAddPlan and handleDelPlan
PlanAdd(w) ==
    /\ usplan = NoLimits /\ Starts(w, AtRest) /\ usplan' \in Params
    /\ UNCHANGED <<uslim, usproj, ususer, usinfo, usgate, usfaults, usghost>>

PlanDel(w) ==
    /\ usplan # NoLimits /\ Starts(w, AtRest) /\ usplan' = NoLimits
    /\ UNCHANGED <<uslim, usproj, ususer, usinfo, usgate, usfaults, usghost>>

\* handlePlanUpdate: the record is read, patched ...
PlanGet(w) ==
    /\ usplan # NoLimits
    /\ \E from \in Params : Starts(w, [AtRest EXCEPT !.pc = "p_set", !.lim = Patch(usplan, from)])
    /\ UNCHANGED <<uslim, usproj, ususer, usinfo, usgate, usplan, usfaults, usghost>>

\* ... and written as a whole, if it is there still
PlanSet(w) ==
    /\ usw[w].pc = "p_set" /\ Ends(w)
    /\ usplan' = IF usplan = NoLimits THEN NoLimits ELSE usw[w].lim
    /\ UNCHANGED <<uslim, usproj, ususer, usinfo, usgate, usops, usfaults, usghost>>

-----------------------------------------------------------------------------
\* handleUserUpdate: PATCH of enabled, by the id
UserEnable(w) ==
    /\ ususer # 0 /\ Starts(w, AtRest) /\ usinfo' = [usinfo EXCEPT !.on = ~@]
    /\ UNCHANGED <<uslim, usproj, ususer, usgate, usplan, usfaults, usghost>>

\* handleUserCreds and handleUserCred, of oneself: a login needs an enabled user
UserCreds(w) ==
    /\ ususer # 0 /\ usinfo.on /\ usinfo.role /\ Starts(w, AtRest)
    /\ UNCHANGED <<uslim, usproj, ususer, usgate, usplan, usfaults, usghost>>

\* ksCreateCreds and ksRemoveCred
CredAdd(w) == ~usinfo.creds /\ usinfo' = [usinfo EXCEPT !.creds = TRUE] /\ UserCreds(w)
CredDel(w) == usinfo.creds /\ usinfo' = [usinfo EXCEPT !.creds = FALSE] /\ UserCreds(w)

\* The user's projects in the gate
UserWorks ==
    /\ ususer # 0 /\ usinfo.on /\ usinfo.role /\ ~usgate /\ usgate' = TRUE
    /\ UNCHANGED <<uslim, usproj, ususer, usinfo, usplan, usw, usops, usfaults, usghost>>

\* The daemon dies and starts again
UsCrash ==
    /\ \E w \in UsWorkers : usw[w].pc # "idle"
    /\ Fault /\ usw' = [w \in UsWorkers |-> AtRest]
    /\ UNCHANGED <<uslim, usproj, ususer, usinfo, usgate, usplan, usops, usghost>>

-----------------------------------------------------------------------------
UsAdd(w) == AddStart(w) \/ AddLimits(w) \/ AddProject(w) \/ AddUser(w) \/ AddRole(w) \/ AddUndo(w)
UsDel(w) == DelStart(w) \/ DelProjects(w) \/ DelLimits(w) \/ DelUser(w) \/ DelFind(w) \/ DelProject(w)
UsNext ==
    \/ \E w \in UsWorkers :
         \/ UsAdd(w) \/ UsDel(w) \/ LimStart(w) \/ LimInfo(w) \/ LimSet(w)
         \/ PlanAdd(w) \/ PlanDel(w) \/ PlanGet(w) \/ PlanSet(w) \/ UserEnable(w) \/ CredAdd(w) \/ CredDel(w)
    \/ UserWorks \/ UsCrash

UsSpec == UsInit /\ [][UsNext]_usVars

UsQuiet == \A w \in UsWorkers : usw[w].pc = "idle"

-----------------------------------------------------------------------------
\* The project of a user stays as long as the user: the project's name keeps two
\* users apart, so a delete that is late never takes the project of a new user.
UserHasProject ==
    ususer # 0 => usproj = usinfo.proj

\* A user that was added with a plan has limits, unless since they were stored a
\* delete has removed them or an add of the same name has failed.
LimitsLostOnlyByRace ==
    ususer # 0 /\ usghost.planned /\ ~usghost.blame => uslim # NoLimits

\* Limits that wait for a user to come are left only by a death of the daemon, a
\* failed call, or limits set while a delete was on its way, or later.
NoStrayLimits ==
    UsQuiet /\ uslim # NoLimits /\ ususer = 0 => usfaults > 0 \/ usghost.late

\* When all calls succeed a name is free again once its user is gone: overlapped
\* adds and deletes leave no project behind.
NameFreeAgain ==
    UsQuiet /\ usfaults = 0 => (usproj # 0 <=> ususer # 0)

\* A plan that was deleted does not come back with a late update.
DeletedPlanStays ==
    [][usplan = NoLimits /\ usplan' # NoLimits => \E w \in UsWorkers : PlanAdd(w)]_usVars

\* Limits, project and user stay together over adds and deletes that overlap or
\* fail half-way (handleAddUser, handleDelUser).
UsersSound == UserHasProject /\ LimitsLostOnlyByRace /\ NoStrayLimits /\ NameFreeAgain
=============================================================================
