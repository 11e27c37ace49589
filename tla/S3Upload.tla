------------------------------ MODULE S3Upload ------------------------------
(***************************************************************************)
(* Multipart uploads of the S3 service (s3/upload.go) for one object name  *)
(* of one bucket, together with what they share with the other requests:   *)
(* the part records (s3/data.go), the object an upload is turned into      *)
(* (UploadToObject, s3/object.go) and its deletion.                        *)
(*                                                                         *)
(* Every request is served by a goroutine of its own and talks to MongoDB  *)
(* one findAndModify / insert / find at a time; a step of the model is one *)
(* such operation.  A record is looked up again, by _id and expected       *)
(* state, by every operation, so a request may find that the record it     *)
(* read a moment ago has moved on.  An operation may also fail with a      *)
(* database error, at most MaxFaults times in a behaviour, and the daemon  *)
(* may die between any two operations and start again, at most MaxRestarts *)
(* times; on a start it runs dbRepair before it serves anything.           *)
(***************************************************************************)
EXTENDS Integers, FiniteSets

CONSTANTS
    Workers,      \* goroutines serving the requests
    Ids,          \* the ObjIDs uploads get: the bound on uploads ever begun
    PIds,         \* the ObjIDs part records get: the bound on parts ever stored
    PartNos,      \* part numbers clients use
    Nil,          \* no id
    MaxFaults,    \* bound on failing database operations
    MaxRestarts   \* bound on restarts of the daemon

ASSUME UploadAssumption ==
    /\ IsFiniteSet(Workers)
    /\ Nil \notin Ids \cup PIds \cup PartNos
    /\ MaxFaults \in Nat
    /\ MaxRestarts \in Nat

VARIABLES
    ustate,    \* S3Upload.State; "fresh" before the insert, "gone" after the removal
    uref,      \* S3Upload.Ref
    ulock,     \* S3Upload.Lock
    pstate,    \* ObjectPart.State
    pup,       \* ObjectPart.RefID
    pno,       \* ObjectPart.Part
    hollow,    \* Active parts whose record names no chunk and holds no data
    ostate,    \* Object.State of the object that inherits an upload's ObjID
    manifest,  \* the parts summed up into that object's size and etag
    pc,        \* where each goroutine is
    wid,       \* its upload (or object) id
    wpart,     \* its part id
    wset,      \* its list of parts
    acked,     \* parts whose upload was answered with an etag
    committed, \* objects whose completion was (or will be) answered with success
    undone,    \* objects taken back after they had become visible: commitObj failed
    faults, restarts

uplVars   == <<ustate, uref, ulock>>
partVars  == <<pstate, pup, pno, hollow>>
objVars   == <<ostate, manifest>>
histVars  == <<acked, committed, undone>>
upVars == <<uplVars, partVars, objVars, pc, wid, wpart, wset, histVars, faults, restarts>>

UStates == {"fresh", "Active", "Inactive", "gone"}
PStates == {"fresh", "None", "Active", "Inactive", "gone"}
OStates == {"absent", "None", "Active", "Inactive"}

\* goroutines that took a reference on their upload and did not drop it yet
RefLabels   == {"part_insert", "part_activate", "part_undo", "refdec_ok", "refdec_err"}
\* goroutines that locked their upload and neither unlocked nor removed it
FiniLabels  == {"fini_resum", "fini_create", "fini_activate", "fini_commit",
                "fini_undo", "fini_inact", "fini_remove"}
AbortLabels == {"abort_inact", "abort_list", "abort_parts", "abort_drop", "abort_remove"}
LockLabels  == FiniLabels \cup AbortLabels \cup {"unlock"}
DelLabels   == {"del_deact", "del_list", "del_parts", "del_drop", "del_remove"}
Labels == {"idle", "part_refinc", "fini_lock", "abort_lock"}
          \cup RefLabels \cup LockLabels \cup DelLabels

UpTypeOK ==
    /\ ustate \in [Ids -> UStates]
    /\ uref \in [Ids -> Nat]
    /\ ulock \in [Ids -> {0, 1}]
    /\ pstate \in [PIds -> PStates]
    /\ pup \in [PIds -> Ids \cup {Nil}]
    /\ pno \in [PIds -> PartNos \cup {Nil}]
    /\ hollow \subseteq PIds
    /\ ostate \in [Ids -> OStates]
    /\ manifest \in [Ids -> SUBSET PIds]
    /\ pc \in [Workers -> Labels]
    /\ wid \in [Workers -> Ids \cup {Nil}]
    /\ wpart \in [Workers -> PIds \cup {Nil}]
    /\ wset \in [Workers -> SUBSET PIds]
    /\ acked \subseteq PIds
    /\ committed \subseteq Ids
    /\ undone \subseteq Ids
    /\ faults \in Nat
    /\ restarts \in Nat
    /\ \A w \in Workers : pc[w] # "idle" => wid[w] \in Ids
    /\ \A w \in Workers :
          pc[w] \in {"part_activate", "part_undo", "refdec_ok", "abort_drop", "del_drop"}
             => wpart[w] \in PIds

UpInit ==
    /\ ustate = [i \in Ids |-> "fresh"]
    /\ uref = [i \in Ids |-> 0]
    /\ ulock = [i \in Ids |-> 0]
    /\ pstate = [p \in PIds |-> "fresh"]
    /\ pup = [p \in PIds |-> Nil]
    /\ pno = [p \in PIds |-> Nil]
    /\ hollow = {}
    /\ ostate = [i \in Ids |-> "absent"]
    /\ manifest = [i \in Ids |-> {}]
    /\ pc = [w \in Workers |-> "idle"]
    /\ wid = [w \in Workers |-> Nil]
    /\ wpart = [w \in Workers |-> Nil]
    /\ wset = [w \in Workers |-> {}]
    /\ acked = {}
    /\ committed = {}
    /\ undone = {}
    /\ faults = 0
    /\ restarts = 0

-----------------------------------------------------------------------------
(* Control of a goroutine.                                                 *)

\* The goroutine goes on to label l, with the locals it has.
Goto(w, l) ==
    /\ pc' = [pc EXCEPT ![w] = l]
    /\ UNCHANGED <<wid, wpart, wset>>

\* A request about upload or object i begins: its first lookup found i.
Begin(w, l, i) ==
    /\ pc[w] = "idle"
    /\ pc' = [pc EXCEPT ![w] = l]
    /\ wid' = [wid EXCEPT ![w] = i]
    /\ UNCHANGED <<wpart, wset>>

\* The request is answered and its goroutine ends.
Finish(w) ==
    /\ pc' = [pc EXCEPT ![w] = "idle"]
    /\ wid' = [wid EXCEPT ![w] = Nil]
    /\ wpart' = [wpart EXCEPT ![w] = Nil]
    /\ wset' = [wset EXCEPT ![w] = {}]

\* The next database operation fails and changes nothing.
DbFault ==
    /\ faults < MaxFaults
    /\ faults' = faults + 1

DbOk == UNCHANGED faults

\* A failed operation sends the goroutine to its error path, or ends it.
Fail(w, l) == IF l = "idle" THEN Finish(w) ELSE Goto(w, l)

PartsOf(i) == {p \in PIds : pup[p] = i}

\* records of the collection, whatever their state
Stored(i) == {p \in PartsOf(i) : pstate[p] \in {"None", "Active", "Inactive"}}

\* what PartsFind, IterParts and ResumParts see
ActiveParts(i) == {p \in PartsOf(i) : pstate[p] = "Active"}

-----------------------------------------------------------------------------
(* s3UploadInit: one insert; the unique index on uid, which is a hash of   *)
(* the bucket and the object name, refuses it while another upload of the  *)
(* name is stored, in whatever state.                                      *)
UploadInit(i) ==
    /\ ustate[i] = "fresh"
    /\ \A j \in Ids : ustate[j] \in {"fresh", "gone"}
    /\ ustate' = [ustate EXCEPT ![i] = "Active"]
    /\ UNCHANGED <<uref, ulock, partVars, objVars, pc, wid, wpart, wset,
                   histVars, faults, restarts>>

-----------------------------------------------------------------------------
(* s3UploadPart.                                                           *)

PartFind(w, i) ==
    /\ ustate[i] = "Active"
    /\ Begin(w, "part_refinc", i)
    /\ UNCHANGED <<uplVars, partVars, objVars, histVars, faults, restarts>>

PartRefInc_IgnoresLock(w) ==
    /\ pc[w] = "part_refinc"
    /\ ustate[wid[w]] = "Active"
    /\ uref' = [uref EXCEPT ![wid[w]] = @ + 1]
    /\ Goto(w, "part_insert") /\ DbOk
    /\ UNCHANGED <<ustate, ulock, partVars, objVars, histVars, restarts>>

\* dbRefInc: only an Active upload that nobody locked takes a reference
PartRefInc(w) ==
    LET i  == wid[w]
        ok == ustate[i] = "Active" /\ ulock[i] = 0
    IN  /\ pc[w] = "part_refinc"
        /\ \/ /\ ok
              /\ uref' = [uref EXCEPT ![i] = @ + 1]
              /\ Goto(w, "part_insert") /\ DbOk
           \/ /\ \/ ~ok /\ DbOk
                 \/ DbFault
              /\ Finish(w) /\ UNCHANGED uref
        /\ UNCHANGED <<ustate, ulock, partVars, objVars, histVars, restarts>>

\* AddPart up to the insert of the record.  It fails on a broken request
\* body, too, which is no database error.
PartInsert(w) ==
    /\ pc[w] = "part_insert"
    /\ \/ \E p \in PIds, n \in PartNos :
            /\ pstate[p] = "fresh"
            /\ pstate' = [pstate EXCEPT ![p] = "None"]
            /\ pup' = [pup EXCEPT ![p] = wid[w]]
            /\ pno' = [pno EXCEPT ![p] = n]
            /\ pc' = [pc EXCEPT ![w] = "part_activate"]
            /\ wpart' = [wpart EXCEPT ![w] = p]
            /\ UNCHANGED <<wid, wset>>
       \/ Goto(w, "refdec_err") /\ UNCHANGED <<pstate, pup, pno>>
    /\ UNCHANGED <<uplVars, hollow, objVars, histVars, faults, restarts>>

\* WriteChunks, then the record is made Active with its etag.  A failed insert
\* of a chunk makes WriteChunks delete what it wrote and return no error (the
\* err it returns is not the one the loop set): the part goes Active all the same.
PartActivate(w) ==
    LET p == wpart[w]
    IN  /\ pc[w] = "part_activate"
        /\ \/ /\ pstate[p] = "None"
              /\ pstate' = [pstate EXCEPT ![p] = "Active"]
              /\ \/ hollow' = hollow /\ DbOk
                 \/ hollow' = hollow \cup {p} /\ DbFault
              /\ Goto(w, "refdec_ok")
           \/ /\ \/ pstate[p] # "None" /\ DbOk
                 \/ DbFault
              /\ Goto(w, "part_undo") /\ UNCHANGED <<pstate, hollow>>
        /\ UNCHANGED <<uplVars, pup, pno, objVars, histVars, restarts>>

PartUndo_DropsRef(w) ==
    /\ pc[w] = "part_undo"
    /\ pstate' = [pstate EXCEPT ![wpart[w]] = "gone"] /\ DbOk
    /\ uref' = [uref EXCEPT ![wid[w]] = @ - 1]
    /\ Goto(w, "refdec_err")
    /\ UNCHANGED <<ustate, ulock, pup, pno, hollow, objVars, histVars, restarts>>

\* AddPart's out: the record is removed, if the database lets it
PartUndo(w) ==
    /\ pc[w] = "part_undo"
    /\ \/ pstate' = [pstate EXCEPT ![wpart[w]] = "gone"] /\ DbOk
       \/ UNCHANGED pstate /\ DbFault
    /\ Goto(w, "refdec_err")
    /\ UNCHANGED <<uplVars, pup, pno, hollow, objVars, histVars, restarts>>

\* dbRefDec, whose result nobody looks at; then the answer
PartRefDec(w) ==
    LET i == wid[w]
    IN  /\ pc[w] \in {"refdec_ok", "refdec_err"}
        /\ \/ /\ ustate[i] = "Active" /\ ulock[i] = 0
              /\ uref' = [uref EXCEPT ![i] = @ - 1]
              /\ DbOk
           \/ /\ ~(ustate[i] = "Active" /\ ulock[i] = 0)
              /\ UNCHANGED uref /\ DbOk
           \/ UNCHANGED uref /\ DbFault
        /\ acked' = IF pc[w] = "refdec_ok" THEN acked \cup {wpart[w]} ELSE acked
        /\ Finish(w)
        /\ UNCHANGED <<ustate, ulock, partVars, objVars, committed, undone, restarts>>

-----------------------------------------------------------------------------
(* dbLock and dbUnlock.                                                    *)

LockUpload_IgnoresRef(w, from, to) ==
    /\ pc[w] = from
    /\ ustate[wid[w]] = "Active" /\ ulock[wid[w]] = 0
    /\ ulock' = [ulock EXCEPT ![wid[w]] = @ + 1]
    /\ Goto(w, to) /\ DbOk
    /\ UNCHANGED <<ustate, uref, partVars, objVars, histVars, restarts>>

LockUpload(w, from, to) ==
    LET i  == wid[w]
        ok == ustate[i] = "Active" /\ ulock[i] = 0 /\ uref[i] = 0
    IN  /\ pc[w] = from
        /\ \/ /\ ok
              /\ ulock' = [ulock EXCEPT ![i] = @ + 1]
              /\ Goto(w, to) /\ DbOk
           \/ /\ \/ ~ok /\ DbOk
                 \/ DbFault
              /\ Finish(w) /\ UNCHANGED ulock
        /\ UNCHANGED <<ustate, uref, partVars, objVars, histVars, restarts>>

\* the last thing a failed completion or abort does; its result is ignored
UnlockUpload(w) ==
    LET i  == wid[w]
        ok == ustate[i] = "Active" /\ ulock[i] = 1 /\ uref[i] = 0
    IN  /\ pc[w] = "unlock"
        /\ \/ ok /\ ulock' = [ulock EXCEPT ![i] = @ - 1] /\ DbOk
           \/ ~ok /\ UNCHANGED ulock /\ DbOk
           \/ UNCHANGED ulock /\ DbFault
        /\ Finish(w)
        /\ UNCHANGED <<ustate, uref, partVars, objVars, histVars, restarts>>
(* s3UploadFini.                                                           *)

FiniFind(w, i) ==
    /\ ustate[i] = "Active"
    /\ Begin(w, "fini_lock", i)
    /\ UNCHANGED <<uplVars, partVars, objVars, histVars, faults, restarts>>

FiniLock(w) == LockUpload(w, "fini_lock", "fini_resum")

\* ResumParts: the Active parts are summed up; one without data fails it
FiniResum(w) ==
    LET sum == ActiveParts(wid[w])
    IN  /\ pc[w] = "fini_resum"
        /\ \/ /\ sum \cap hollow = {}
              /\ pc' = [pc EXCEPT ![w] = "fini_create"]
              /\ wset' = [wset EXCEPT ![w] = sum]
              /\ UNCHANGED <<wid, wpart>> /\ DbOk
           \/ /\ \/ sum \cap hollow # {} /\ DbOk
                 \/ DbFault
              /\ Goto(w, "unlock")
        /\ UNCHANGED <<uplVars, partVars, objVars, histVars, restarts>>

FiniCreate_KeepsLock(w) ==
    LET i == wid[w]
    IN  /\ pc[w] = "fini_create"
        /\ \/ /\ ostate[i] = "absent"
              /\ ostate' = [ostate EXCEPT ![i] = "None"]
              /\ Goto(w, "fini_activate")
           \/ Finish(w) /\ UNCHANGED ostate
        /\ UNCHANGED <<uplVars, partVars, manifest, histVars, faults, restarts>>

\* createObjectPre: the object is inserted under the upload's ObjID, which
\* must not be taken, and accounted.  When accounting refuses it (a limit,
\* no database error) the record is removed again, unless that fails.
FiniCreate(w) ==
    LET i == wid[w]
    IN  /\ pc[w] = "fini_create"
        /\ \/ /\ ostate[i] = "absent"
              /\ ostate' = [ostate EXCEPT ![i] = "None"]
              /\ \/ Goto(w, "fini_activate") /\ DbOk
                 \/ Goto(w, "unlock") /\ DbFault
           \/ Goto(w, "unlock") /\ UNCHANGED ostate /\ DbOk
        /\ UNCHANGED <<uplVars, partVars, manifest, histVars, restarts>>

\* Activate, first half: the object becomes visible with its size and etag
FiniActivate(w) ==
    LET i == wid[w]
    IN  /\ pc[w] = "fini_activate"
        /\ \/ /\ ostate[i] = "None"
              /\ ostate' = [ostate EXCEPT ![i] = "Active"]
              /\ manifest' = [manifest EXCEPT ![i] = wset[w]]
              /\ Goto(w, "fini_commit") /\ DbOk
           \/ /\ \/ ostate[i] # "None" /\ DbOk
                 \/ DbFault
              /\ Goto(w, "fini_undo") /\ UNCHANGED <<ostate, manifest>>
        /\ UNCHANGED <<uplVars, partVars, histVars, restarts>>

FiniCommit_Unlocks(w) ==
    /\ pc[w] = "fini_commit"
    /\ committed' = committed \cup {wid[w]}
    /\ Goto(w, "unlock") /\ DbOk
    /\ UNCHANGED <<uplVars, partVars, objVars, acked, undone, restarts>>

\* Activate, second half: commitObj.  From here on the client is told the
\* object is there, whatever becomes of the upload's record.
FiniCommit(w) ==
    /\ pc[w] = "fini_commit"
    /\ \/ /\ committed' = committed \cup {wid[w]}
          /\ Goto(w, "fini_inact") /\ UNCHANGED undone /\ DbOk
       \/ /\ undone' = undone \cup {wid[w]}
          /\ Goto(w, "fini_undo") /\ UNCHANGED committed /\ DbFault
    /\ UNCHANGED <<uplVars, partVars, objVars, acked, restarts>>

\* UploadToObject's out_acc: the object's record is removed
FiniUndo(w) ==
    /\ pc[w] = "fini_undo"
    /\ \/ ostate' = [ostate EXCEPT ![wid[w]] = "absent"] /\ DbOk
       \/ UNCHANGED ostate /\ DbFault
    /\ Goto(w, "unlock")
    /\ UNCHANGED <<uplVars, partVars, manifest, histVars, restarts>>

-----------------------------------------------------------------------------
(* s3UploadRemoveLocked, called with data = false by s3UploadFini and with *)
(* data = true by s3UploadAbort.                                           *)

\* dbS3SetState(upload, Inactive).  s3UploadFini only logs a failure;
\* s3UploadAbort unlocks.
UploadInact(w) ==
    LET i  == wid[w]
        ok == ustate[i] = "Active"
    IN  /\ pc[w] \in {"fini_inact", "abort_inact"}
        /\ \/ /\ ok
              /\ ustate' = [ustate EXCEPT ![i] = "Inactive"]
              /\ Goto(w, IF pc[w] = "fini_inact" THEN "fini_remove" ELSE "abort_list")
              /\ DbOk
           \/ /\ \/ ~ok /\ DbOk
                 \/ DbFault
              /\ IF pc[w] = "fini_inact" THEN Finish(w) ELSE Goto(w, "unlock")
              /\ UNCHANGED ustate
        /\ UNCHANGED <<uref, ulock, partVars, objVars, histVars, restarts>>

\* dbS3RemoveOnState(upload, Inactive, ref = 0), the end of both; the unlock
\* that follows a failed abort finds the upload Inactive and does nothing
UploadRemove(w) ==
    LET i  == wid[w]
        ok == ustate[i] = "Inactive" /\ uref[i] = 0
    IN  /\ pc[w] \in {"fini_remove", "abort_remove"}
        /\ \/ ok /\ ustate' = [ustate EXCEPT ![i] = "gone"] /\ DbOk
           \/ ~ok /\ UNCHANGED ustate /\ DbOk
           \/ UNCHANGED ustate /\ DbFault
        /\ Finish(w)
        /\ UNCHANGED <<uref, ulock, partVars, objVars, histVars, restarts>>

\* dbS3FindAll of the parts, or PartsFind
ListParts(w, from, found, to, fail) ==
    /\ pc[w] = from
    /\ \/ /\ pc' = [pc EXCEPT ![w] = to]
          /\ wset' = [wset EXCEPT ![w] = found]
          /\ UNCHANGED <<wid, wpart>> /\ DbOk
       \/ DbFault /\ Fail(w, fail)
    /\ UNCHANGED <<uplVars, partVars, objVars, histVars, restarts>>

\* DeletePart, first half, on the next part of the list: Active -> Inactive.
\* A part in any other state is an error that ends the loop.
DeactPart(w, from, to, next, fail) ==
    /\ pc[w] = from
    /\ \/ \E p \in wset[w] :
            \/ /\ pstate[p] = "Active"
               /\ pstate' = [pstate EXCEPT ![p] = "Inactive"]
               /\ pc' = [pc EXCEPT ![w] = to]
               /\ wpart' = [wpart EXCEPT ![w] = p]
               /\ wset' = [wset EXCEPT ![w] = @ \ {p}]
               /\ UNCHANGED wid /\ DbOk
            \/ /\ \/ pstate[p] # "Active" /\ DbOk
                  \/ DbFault
               /\ Fail(w, fail) /\ UNCHANGED pstate
       \/ wset[w] = {} /\ Goto(w, next) /\ UNCHANGED pstate /\ DbOk
    /\ UNCHANGED <<uplVars, pup, pno, hollow, objVars, histVars, restarts>>

\* DeletePart, second half: the chunks and the record are removed
DropPart(w, from, to, fail) ==
    /\ pc[w] = from
    /\ \/ /\ pstate[wpart[w]] = "Inactive"
          /\ pstate' = [pstate EXCEPT ![wpart[w]] = "gone"]
          /\ Goto(w, to) /\ DbOk
       \/ /\ \/ pstate[wpart[w]] # "Inactive" /\ DbOk
             \/ DbFault
          /\ Fail(w, fail) /\ UNCHANGED pstate
    /\ UNCHANGED <<uplVars, pup, pno, hollow, objVars, histVars, restarts>>

-----------------------------------------------------------------------------
(* s3UploadAbort looks the upload up in any state.                         *)

AbortFind(w, i) ==
    /\ ustate[i] \in {"Active", "Inactive"}
    /\ Begin(w, "abort_lock", i)
    /\ UNCHANGED <<uplVars, partVars, objVars, histVars, faults, restarts>>

AbortLock(w)  == LockUpload(w, "abort_lock", "abort_inact")
AbortList(w)  == ListParts(w, "abort_list", Stored(wid[w]), "abort_parts", "unlock")
AbortDeact(w) == DeactPart(w, "abort_parts", "abort_drop", "abort_remove", "unlock")
AbortDrop(w)  == DropPart(w, "abort_drop", "abort_parts", "unlock")

-----------------------------------------------------------------------------
(* DropObject, for a DELETE of the object or for gcOldVersions after a     *)
(* newer one was stored.                                                   *)

DelFind(w, i) ==
    /\ ostate[i] = "Active"
    /\ Begin(w, "del_deact", i)
    /\ UNCHANGED <<uplVars, partVars, objVars, histVars, faults, restarts>>

DelDeact(w) ==
    LET i == wid[w]
    IN  /\ pc[w] = "del_deact"
        /\ \/ /\ ostate[i] = "Active"
              /\ ostate' = [ostate EXCEPT ![i] = "Inactive"]
              /\ Goto(w, "del_list") /\ DbOk
           \/ /\ \/ ostate[i] # "Active" /\ DbOk
                 \/ DbFault
              /\ Finish(w) /\ UNCHANGED ostate
        /\ UNCHANGED <<uplVars, partVars, manifest, histVars, restarts>>

DelList(w)      == ListParts(w, "del_list", ActiveParts(wid[w]), "del_parts", "idle")
DelDeactPart(w) == DeactPart(w, "del_parts", "del_drop", "del_remove", "idle")
DelDropPart(w)  == DropPart(w, "del_drop", "del_parts", "idle")

DelRemove(w) ==
    LET i == wid[w]
    IN  /\ pc[w] = "del_remove"
        /\ \/ /\ ostate[i] = "Inactive"
              /\ ostate' = [ostate EXCEPT ![i] = "absent"] /\ DbOk
           \/ ostate[i] # "Inactive" /\ UNCHANGED ostate /\ DbOk
           \/ UNCHANGED ostate /\ DbFault
        /\ Finish(w)
        /\ UNCHANGED <<uplVars, partVars, manifest, histVars, restarts>>

-----------------------------------------------------------------------------
(* The daemon dies with all its goroutines and starts again.  dbRepair     *)
(* runs to its end before the first request is served.                     *)

\* dbS3Update changes one matching document: S holds one of the candidates of
\* every owner that has any
OneOfEach(S, owners, cand) ==
    /\ S \subseteq {p \in cand : pup[p] \in owners}
    /\ \A p, q \in S : pup[p] = pup[q] => p = q
    /\ \A p \in cand : pup[p] \in owners => \E q \in S : pup[q] = pup[p]

\* dbS3FindAllInactive: what each part of the repair goes through
StaleUploads == {i \in Ids : ustate[i] = "Inactive"}
StaleParts   == {p \in PIds : pstate[p] \in {"None", "Inactive"}}
StaleObjects == {i \in Ids : ostate[i] \in {"None", "Inactive"}}

\* The stale parts are all gone before the objects are looked at, so what
\* s3RepairObjectData finds are the parts s3RepairObjectInactive marked, and
\* their objects are removed: its branch for an object that is there is dead.
Restart ==
    LET stored == UNION {Stored(i) : i \in Ids}
    IN  /\ restarts < MaxRestarts
        /\ restarts' = restarts + 1
        /\ \E hit, hit2 \in SUBSET stored :
              \* s3RepairUploadsInactive, s3RepairPartsInactive
              /\ OneOfEach(hit, StaleUploads, stored)
              \* s3RepairObjectInactive, s3RepairObjectData
              /\ OneOfEach(hit2, StaleObjects, stored \ (hit \cup StaleParts))
              /\ pstate' = [p \in PIds |-> IF p \in hit \cup hit2 \cup StaleParts
                                          THEN "gone" ELSE pstate[p]]
        /\ ustate' = [i \in Ids |-> IF i \in StaleUploads THEN "gone" ELSE ustate[i]]
        /\ ostate' = [i \in Ids |-> IF i \in StaleObjects THEN "absent" ELSE ostate[i]]
        /\ pc' = [w \in Workers |-> "idle"]
        /\ wid' = [w \in Workers |-> Nil]
        /\ wpart' = [w \in Workers |-> Nil]
        /\ wset' = [w \in Workers |-> {}]
        /\ UNCHANGED <<uref, ulock, pup, pno, hollow, manifest, histVars, faults>>

-----------------------------------------------------------------------------
\* A request begins; the ones its handler refuses change nothing.
Request(w) ==
    \E i \in Ids : PartFind(w, i) \/ FiniFind(w, i) \/ AbortFind(w, i) \/ DelFind(w, i)

\* The goroutine of a request goes on.
Step(w) ==
    \/ PartRefInc(w) \/ PartInsert(w) \/ PartActivate(w) \/ PartUndo(w) \/ PartRefDec(w)
    \/ FiniLock(w) \/ FiniResum(w) \/ FiniCreate(w) \/ FiniActivate(w) \/ FiniCommit(w)
    \/ FiniUndo(w) \/ UploadInact(w) \/ UploadRemove(w) \/ UnlockUpload(w)
    \/ AbortLock(w) \/ AbortList(w) \/ AbortDeact(w) \/ AbortDrop(w)
    \/ DelDeact(w) \/ DelList(w) \/ DelDeactPart(w) \/ DelDropPart(w) \/ DelRemove(w)

UpNext ==
    \/ \E i \in Ids : UploadInit(i)
    \/ \E w \in Workers : Request(w) \/ Step(w)
    \/ Restart

UpSpec == UpInit /\ [][UpNext]_upVars

\* A goroutine that can go on does: the Go scheduler starves none, and every
\* database call returns (mgo's socket timeouts turn a hang into an error).
UpFairSpec == UpSpec /\ \A w \in Workers : WF_upVars(Step(w))

-----------------------------------------------------------------------------
(* Properties.                                                             *)

Holders(i) == {w \in Workers : pc[w] \in RefLabels /\ wid[w] = i}
Lockers(i) == {w \in Workers : pc[w] \in LockLabels /\ wid[w] = i}

\* A completion or an abort that holds the upload's lock (upload.go dbLock)
\* excludes every other completion and abort of it and every request that is
\* storing a part of it, although the counters live in the database and a
\* request looks its upload up before it takes a reference.
LockExclusive ==
    \A i \in Ids : \A w \in Lockers(i) : Lockers(i) = {w} /\ Holders(i) = {}

\* An object whose completion was answered with success consists, as long as it
\* is there, of exactly the parts its size and etag were computed from
\* (ResumParts, UploadToObject).  upload.go:311 says of the point where the
\* answer is settled "Don't fail here since object is already committed".
CommittedIntact ==
    \A i \in committed : ostate[i] = "Active" => ActiveParts(i) = manifest[i]

\* The same for the objects that were committed by the first attempt that made
\* them visible, until a restart repairs (s3UploadFini).
FirstCommitIntact ==
    restarts = 0 =>
        \A i \in committed \ undone : ostate[i] = "Active" => ActiveParts(i) = manifest[i]

\* Every part that was answered with an etag is in the object its upload was
\* turned into: ResumParts missed none (s3UploadPart; no restart).
AckedInObject ==
    restarts = 0 =>
        \A p \in acked : pup[p] \in committed \ undone => p \in manifest[pup[p]]

\* The parts of a committed object are neither removed nor joined by others
\* while the daemon runs, whatever database errors happen: only the repair at a
\* restart touches them.
CommittedFrozen ==
    [][\A i \in committed \ undone :
          (ostate[i] = "Active" /\ ostate'[i] = "Active" /\ restarts' = restarts)
             => ActiveParts(i)' = ActiveParts(i)]_upVars

\* With no database error and no restart a locked upload is unlocked or removed
\* in the end, so that it can be completed or aborted again.
LockReleased ==
    \A i \in Ids : ulock[i] = 1 ~> (ulock[i] = 0 \/ ustate[i] = "gone")

\* nmap.go:26: "The "Object Parts" are never versioned and overwriten on demand":
\* an object made of parts has one part of each number.  AddPart (data.go)
\* inserts a new record and leaves an earlier one of the number as it is.
OnePartPerNumber ==
    \A i \in committed : \A p, q \in manifest[i] : pno[p] = pno[q] => p = q

-----------------------------------------------------------------------------
(* The inductive invariant behind LockExclusive.                           *)

\* the stored counter covers the references held; restarts and failed
\* decrements can only leave it too high
RefCovers == \A i \in Ids : Cardinality(Holders(i)) <= uref[i]

\* a locked upload has no reference
LockedUnreferenced == \A i \in Ids : ulock[i] = 1 => uref[i] = 0

\* whoever believes to hold the lock does, and is the only one
LockHeld ==
    \A w \in Workers : pc[w] \in LockLabels =>
        /\ ulock[wid[w]] = 1
        /\ \A v \in Workers : pc[v] \in LockLabels /\ wid[v] = wid[w] => v = w

LockInv == UpTypeOK /\ RefCovers /\ LockedUnreferenced /\ LockHeld

\* Data that was acknowledged stays: the object of the first commit is not changed
\* by uploads that come later, and every part whose upload was acknowledged is in
\* the object that is made of it (upload.go).
UploadKept == FirstCommitIntact /\ AckedInObject
=============================================================================
