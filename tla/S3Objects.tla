----------------------------- MODULE S3Objects ------------------------------
(***************************************************************************)
(* The objects of one bucket of the S3 service: storing, overwriting,      *)
(* copying and deleting them, the accounting of the bucket and of its      *)
(* namespace, the collection of overwritten versions, the deletion of the  *)
(* bucket, and the repair a restarted daemon runs (s3/object.go, acct.go,  *)
(* gc.go, bucket.go, handlers.go).                                         *)
(*                                                                         *)
(* A step is one database operation of one goroutine, as in S3Upload.  All *)
(* objects have size one: cnt stands for cnt-objects and cnt-bytes.  The   *)
(* steps of AddPart and DeletePart, which S3Upload takes apart, are one    *)
(* step here: what matters is whether the object's data is there.          *)
(***************************************************************************)
EXTENDS Integers, FiniteSets

CONSTANTS
    Workers,      \* goroutines: requests and collections of old versions
    Putters,      \* the ones that may store objects
    Copiers,      \* the ones that may copy objects
    Keys,         \* object names
    Oids,         \* ObjIDs: the bound on objects ever inserted
    Nil,          \* no id
    Limit,        \* AcctLimits.CntBytes of the namespace, 0 for none
    MaxDeletes,   \* bound on DELETE requests and on trimmed request bodies
    MaxFaults,    \* bound on failing database operations
    MaxRestarts   \* bound on restarts of the daemon

ASSUME ObjectsAssumption ==
    /\ Putters \subseteq Workers /\ Copiers \subseteq Workers
    /\ Nil \notin Oids \cup Keys
    /\ IsFiniteSet(Workers) /\ IsFiniteSet(Oids)
    /\ {Limit, MaxDeletes, MaxFaults, MaxRestarts} \subseteq Nat

VARIABLES
    bstate,  \* Bucket.State; "gone" once removed
    cnt,     \* Bucket.CntObjects and CntBytes
    ref,     \* Bucket.Ref: puts accounted and not committed
    rover,   \* Bucket.Rover
    ns,      \* AcctStats.CntObjects and CntBytes of the namespace
    ostate,  \* Object.State; "fresh" before the insert, "gone" after the removal
    okey,    \* Object.Key
    orover,  \* Object.Rover
    odata,   \* the objects whose parts are stored
    gcq,     \* gcOldVersions goroutines started: <<object committed, rover>>
    pc,      \* where each goroutine is
    wkey,    \* its object name
    wobj,    \* its object
    wrov,    \* the Rover field of its copy of the bucket
    wset,    \* what else it works on: the source of a copy, the list of a collection
    puts,    \* names a put or copy was acknowledged for
    dels,    \* names a DELETE was requested for, or a put with a trimmed body
    hollow,  \* ghost: copies that found the parts of their source gone
    deletes, faults, restarts

bktVars  == <<bstate, cnt, ref, rover>>
objVars  == <<ostate, okey, orover, odata>>
locVars  == <<wkey, wobj, wrov, wset>>
histVars == <<puts, dels, deletes, hollow>>
vars == <<bktVars, ns, objVars, gcq, pc, locVars, histVars, faults, restarts>>

OStates == {"fresh", "None", "Active", "Inactive", "gone"}
BStates == {"Active", "Inactive", "gone"}
Labels  == {"idle", "put_stats", "put_over", "put_bucket", "put_unstats", "put_part",
            "put_activate", "put_commit", "put_unpart", "put_unacct", "put_remove",
            "del_find", "drop_deact", "drop_parts", "drop_bucket", "drop_stats",
            "drop_remove", "bucket_remove"}

TypeOK ==
    /\ bstate \in BStates
    /\ cnt \in Int /\ ref \in Int /\ rover \in Nat /\ ns \in Int
    /\ ostate \in [Oids -> OStates]
    /\ okey \in [Oids -> Keys \cup {Nil}]
    /\ orover \in [Oids -> Nat]
    /\ odata \subseteq Oids
    /\ gcq \subseteq Oids \X Nat
    /\ pc \in [Workers -> Labels]
    /\ wkey \in [Workers -> Keys \cup {Nil}]
    /\ wobj \in [Workers -> Oids \cup {Nil}]
    /\ wrov \in [Workers -> Nat]
    /\ wset \in [Workers -> SUBSET Oids]
    /\ puts \subseteq Keys /\ dels \subseteq Keys /\ hollow \subseteq Oids
    /\ deletes \in 0..MaxDeletes /\ faults \in 0..MaxFaults /\ restarts \in 0..MaxRestarts
    /\ \A w \in Workers :
          pc[w] \notin {"idle", "del_find", "bucket_remove"} => wobj[w] \in Oids

Init ==
    /\ bstate = "Active" /\ cnt = 0 /\ ref = 0 /\ rover = 0 /\ ns = 0
    /\ ostate = [o \in Oids |-> "fresh"]
    /\ okey = [o \in Oids |-> Nil]
    /\ orover = [o \in Oids |-> 0]
    /\ odata = {}
    /\ gcq = {}
    /\ pc = [w \in Workers |-> "idle"]
    /\ wkey = [w \in Workers |-> Nil]
    /\ wobj = [w \in Workers |-> Nil]
    /\ wrov = [w \in Workers |-> 0]
    /\ wset = [w \in Workers |-> {}]
    /\ puts = {} /\ dels = {} /\ hollow = {}
    /\ deletes = 0 /\ faults = 0 /\ restarts = 0

-----------------------------------------------------------------------------
Goto(w, l) == pc' = [pc EXCEPT ![w] = l] /\ UNCHANGED locVars

Finish(w) ==
    /\ pc' = [pc EXCEPT ![w] = "idle"]
    /\ wkey' = [wkey EXCEPT ![w] = Nil]
    /\ wobj' = [wobj EXCEPT ![w] = Nil]
    /\ wrov' = [wrov EXCEPT ![w] = 0]
    /\ wset' = [wset EXCEPT ![w] = {}]

DbFault == faults < MaxFaults /\ faults' = faults + 1
DbOk    == UNCHANGED faults

Live == {o \in Oids : ostate[o] = "Active"}
LiveOf(k) == {o \in Live : okey[o] = k}

\* FindCurObject: the Active object of the name with the highest rover
Current(k) == {o \in LiveOf(k) : \A p \in LiveOf(k) : orover[p] <= orover[o]}

\* bucketAcct: the counters of an Active bucket change by the given amounts and
\* the goroutine's copy of the bucket takes the values of the stored one
BucketAcct(w, dcnt, dref, drover) ==
    /\ bstate = "Active"
    /\ cnt' = cnt + dcnt
    /\ ref' = ref + dref
    /\ rover' = rover + drover
    /\ wrov' = [wrov EXCEPT ![w] = rover + drover]
    /\ UNCHANGED <<bstate, wkey, wobj, wset>>

\* it fails when the bucket is not Active any more, or on a database error
BucketAcctFails ==
    /\ \/ bstate # "Active" /\ DbOk
       \/ DbFault
    /\ UNCHANGED bktVars

\* StatsAcct, StatsUnacct: the counters of the namespace
StatsAcct(d) == ns' = ns + d

\* rsLimited
OverLimit(n) == Limit # 0 /\ n > Limit

-----------------------------------------------------------------------------
(* AddObject and CopyObject, as handlePutObject and handleCopyObject call  *)
(* them once FindBucket has found the bucket.                              *)

\* createObjectPre, the insert; for a copy the source was looked up before
PutInsert(w, k, src) ==
    /\ pc[w] = "idle"
    /\ bstate = "Active"
    /\ \E o \in Oids :
          /\ ostate[o] = "fresh"
          /\ ostate' = [ostate EXCEPT ![o] = "None"]
          /\ okey' = [okey EXCEPT ![o] = k]
          /\ wobj' = [wobj EXCEPT ![w] = o]
    /\ pc' = [pc EXCEPT ![w] = "put_stats"]
    /\ wkey' = [wkey EXCEPT ![w] = k]
    /\ wset' = [wset EXCEPT ![w] = src]
    /\ UNCHANGED <<bktVars, ns, orover, odata, gcq, wrov, histVars, faults, restarts>>

PutBegin(w, k)    == w \in Putters /\ PutInsert(w, k, {})
CopyBegin(w, k)   == w \in Copiers /\ \E c \in Keys : \E s \in Current(c) : PutInsert(w, k, {s})

PutStats_ChecksBefore(w) ==
    /\ pc[w] = "put_stats"
    /\ StatsAcct(1) /\ DbOk
    /\ Goto(w, IF OverLimit(ns) THEN "put_over" ELSE "put_bucket")
    /\ UNCHANGED <<bktVars, objVars, gcq, histVars, restarts>>

\* acctObj: the namespace is charged first and its limit checked on the result
PutStats(w) ==
    /\ pc[w] = "put_stats"
    /\ \/ /\ StatsAcct(1) /\ DbOk
          /\ Goto(w, IF OverLimit(ns + 1) THEN "put_over" ELSE "put_bucket")
       \/ Goto(w, "put_remove") /\ UNCHANGED ns /\ DbFault
    /\ UNCHANGED <<bktVars, objVars, gcq, histVars, restarts>>

\* acctObj: the charge is taken back, over the limit or because the bucket
\* could not be charged; nobody repairs it when that fails
PutUnstats(w) ==
    /\ pc[w] \in {"put_over", "put_unstats"}
    /\ \/ StatsAcct(-1) /\ DbOk
       \/ UNCHANGED ns /\ DbFault
    /\ Goto(w, "put_remove")
    /\ UNCHANGED <<bktVars, objVars, gcq, histVars, restarts>>

\* acctObj: the bucket is charged and referenced, and its rover moves on
PutBucket(w) ==
    /\ pc[w] = "put_bucket"
    /\ \/ /\ BucketAcct(w, 1, 1, 1) /\ DbOk
          /\ pc' = [pc EXCEPT ![w] = "put_part"]
       \/ BucketAcctFails /\ Goto(w, "put_unstats")
    /\ UNCHANGED <<ns, objVars, gcq, histVars, restarts>>

\* AddPart, which also fails on a broken request body; or, for a copy, CopyPart
\* on every Active part of the source IterParts finds, which are none when the
\* source was dropped meanwhile.  WriteChunks and CopyChunks return no error when
\* the insert of a chunk fails.
PutPart(w) ==
    LET o    == wobj[w]
        have == wset[w] \subseteq odata
    IN  /\ pc[w] = "put_part"
        /\ \/ /\ odata' = IF have THEN odata \cup {o} ELSE odata
              /\ Goto(w, "put_activate") /\ DbOk
           \/ Goto(w, "put_activate") /\ UNCHANGED odata /\ DbFault
           \/ Goto(w, "put_unacct") /\ UNCHANGED odata /\ DbOk
        /\ hollow' = IF have THEN hollow ELSE hollow \cup {o}
        /\ UNCHANGED <<bktVars, ns, ostate, okey, orover, gcq, puts, dels, deletes, restarts>>

\* Activate: the object becomes visible, with the rover of the bucket's copy
PutActivate(w) ==
    LET o == wobj[w]
    IN  /\ pc[w] = "put_activate"
        /\ \/ /\ ostate[o] = "None"
              /\ ostate' = [ostate EXCEPT ![o] = "Active"]
              /\ orover' = [orover EXCEPT ![o] = wrov[w]]
              /\ Goto(w, "put_commit") /\ DbOk
           \/ Goto(w, "put_unpart") /\ UNCHANGED <<ostate, orover>> /\ DbFault
        /\ UNCHANGED <<bktVars, ns, okey, odata, gcq, histVars, restarts>>

\* What follows a successful commitObj: the goroutine collecting older versions
\* is started with rover r and the request is answered.  A PUT whose body was
\* shorter than announced deletes the object of its name and is an error.
Committed(w, r) ==
    /\ gcq' = gcq \cup {<<wobj[w], r>>}
    /\ UNCHANGED hollow
    /\ \/ /\ puts' = puts \cup {wkey[w]}
          /\ Finish(w)
          /\ UNCHANGED <<dels, deletes>>
       \/ /\ wset[w] = {} /\ deletes < MaxDeletes
          /\ deletes' = deletes + 1
          /\ dels' = dels \cup {wkey[w]}
          /\ pc' = [pc EXCEPT ![w] = "del_find"]
          /\ UNCHANGED <<wkey, wobj, wrov, wset, puts>>

CommitFails(w) ==
    /\ BucketAcctFails
    /\ Goto(w, "put_unpart")
    /\ UNCHANGED <<gcq, histVars>>

PutCommit_OwnRover(w) ==
    /\ pc[w] = "put_commit"
    /\ \/ /\ bstate = "Active" /\ DbOk
          /\ ref' = ref - 1
          /\ UNCHANGED <<bstate, cnt, rover>>
          /\ Committed(w, wrov[w])
       \/ CommitFails(w)
    /\ UNCHANGED <<ns, objVars, restarts>>

PutCommit_KeepsRef(w) ==
    /\ pc[w] = "put_commit"
    /\ \/ /\ bstate = "Active" /\ DbOk
          /\ UNCHANGED bktVars
          /\ Committed(w, rover)
       \/ CommitFails(w)
    /\ UNCHANGED <<ns, objVars, restarts>>

\* Activate: commitObj drops the reference.  It reads the whole bucket back, so
\* the rover given to gcOldVersions is the one the bucket has now, not the one
\* the object was given.
PutCommit(w) ==
    /\ pc[w] = "put_commit"
    /\ \/ /\ bstate = "Active" /\ DbOk
          /\ ref' = ref - 1
          /\ UNCHANGED <<bstate, cnt, rover>>
          /\ Committed(w, rover)
       \/ CommitFails(w)
    /\ UNCHANGED <<ns, objVars, restarts>>

\* out_parts: the data is deleted again, as far as it still can be
PutUnpart(w) ==
    /\ pc[w] = "put_unpart"
    /\ \/ odata' = odata \ {wobj[w]} /\ DbOk
       \/ UNCHANGED odata /\ DbFault
    /\ Goto(w, "put_unacct")
    /\ UNCHANGED <<bktVars, ns, ostate, okey, orover, gcq, histVars, restarts>>

\* unacctObj, the bucket: a failure leaves the namespace charged, too
Unacct(w, from, dref, next, fail) ==
    /\ pc[w] = from
    /\ \/ /\ BucketAcct(w, -1, dref, 0) /\ DbOk
          /\ pc' = [pc EXCEPT ![w] = next]
       \/ BucketAcctFails /\ fail
    /\ UNCHANGED <<ns, objVars, gcq, histVars, restarts>>

PutUnacct(w) == Unacct(w, "put_unacct", -1, "put_unstats", Goto(w, "put_remove"))

\* dbS3Remove, whatever the object's state
PutRemove(w) ==
    /\ pc[w] = "put_remove"
    /\ \/ ostate' = [ostate EXCEPT ![wobj[w]] = "gone"] /\ DbOk
       \/ UNCHANGED ostate /\ DbFault
    /\ Finish(w)
    /\ UNCHANGED <<bktVars, ns, okey, orover, odata, gcq, histVars, restarts>>

-----------------------------------------------------------------------------
(* s3DeleteObject and gcOldVersions: DropObject on one object or on several. *)

DelRequest(w, k) ==
    /\ pc[w] = "idle" /\ deletes < MaxDeletes
    /\ bstate = "Active"
    /\ deletes' = deletes + 1
    /\ dels' = dels \cup {k}
    /\ pc' = [pc EXCEPT ![w] = "del_find"]
    /\ wkey' = [wkey EXCEPT ![w] = k]
    /\ UNCHANGED <<bktVars, ns, objVars, gcq, wobj, wrov, wset, puts, hollow, faults, restarts>>

DelFind_Unchecked(w) ==
    /\ pc[w] = "del_find"
    /\ \/ \E o \in Current(wkey[w]) : wobj' = [wobj EXCEPT ![w] = o]
       \/ LiveOf(wkey[w]) = {} /\ wobj' = [wobj EXCEPT ![w] = Nil]
    /\ pc' = [pc EXCEPT ![w] = "drop_deact"]
    /\ UNCHANGED <<wkey, wrov, wset, faults>>
    /\ UNCHANGED <<bktVars, ns, objVars, gcq, histVars, restarts>>

\* FindCurObject; no object is no error
DelFind(w) ==
    /\ pc[w] = "del_find"
    /\ \/ /\ \E o \in Current(wkey[w]) : wobj' = [wobj EXCEPT ![w] = o]
          /\ pc' = [pc EXCEPT ![w] = "drop_deact"]
          /\ UNCHANGED <<wkey, wrov, wset>> /\ DbOk
       \/ /\ \/ LiveOf(wkey[w]) = {} /\ DbOk
             \/ DbFault
          /\ Finish(w)
    /\ UNCHANGED <<bktVars, ns, objVars, gcq, histVars, restarts>>

\* the older versions a collection may drop next: the newest of those left
Newest(S) == {o \in S : \A p \in S : orover[p] <= orover[o]}

\* gcOldVersions: the Active objects of the name with an older rover are listed
GcStart(w) ==
    /\ pc[w] = "idle"
    /\ \E q \in gcq :
          LET old == {o \in LiveOf(okey[q[1]]) : orover[o] < q[2]}
          IN  /\ gcq' = gcq \ {q}
              /\ \/ /\ \E o \in Newest(old) :
                          /\ wobj' = [wobj EXCEPT ![w] = o]
                          /\ wset' = [wset EXCEPT ![w] = old \ {o}]
                    /\ pc' = [pc EXCEPT ![w] = "drop_deact"]
                    /\ UNCHANGED <<wkey, wrov>> /\ DbOk
                 \/ old = {} /\ UNCHANGED <<pc, locVars>> /\ DbOk
                 \/ UNCHANGED <<pc, locVars>> /\ DbFault
    /\ UNCHANGED <<bktVars, ns, objVars, histVars, restarts>>

\* DropObject returned: a collection goes on with the next one, error or not
DropDone(w) ==
    IF wset[w] = {} THEN Finish(w)
    ELSE /\ \E o \in Newest(wset[w]) :
               /\ wobj' = [wobj EXCEPT ![w] = o]
               /\ wset' = [wset EXCEPT ![w] = @ \ {o}]
         /\ pc' = [pc EXCEPT ![w] = "drop_deact"]
         /\ UNCHANGED <<wkey, wrov>>

DropDeact_AnyState(w) ==
    /\ pc[w] = "drop_deact"
    /\ ostate' = [ostate EXCEPT ![wobj[w]] = IF @ = "gone" THEN @ ELSE "Inactive"]
    /\ Goto(w, "drop_parts") /\ DbOk
    /\ UNCHANGED <<bktVars, ns, okey, orover, odata, gcq, histVars, restarts>>

\* dbS3SetState(Inactive): only one of several goroutines gets an Active object
DropDeact(w) ==
    LET o == wobj[w]
    IN  /\ pc[w] = "drop_deact"
        /\ \/ /\ ostate[o] = "Active"
              /\ ostate' = [ostate EXCEPT ![o] = "Inactive"]
              /\ Goto(w, "drop_parts") /\ DbOk
           \/ /\ \/ ostate[o] # "Active" /\ DbOk
                 \/ DbFault
              /\ DropDone(w) /\ UNCHANGED ostate
        /\ UNCHANGED <<bktVars, ns, okey, orover, odata, gcq, histVars, restarts>>

\* DeleteParts
DropParts(w) ==
    /\ pc[w] = "drop_parts"
    /\ \/ odata' = odata \ {wobj[w]} /\ Goto(w, "drop_bucket") /\ DbOk
       \/ UNCHANGED odata /\ DropDone(w) /\ DbFault
    /\ UNCHANGED <<bktVars, ns, ostate, okey, orover, gcq, histVars, restarts>>

DropBucket(w) == Unacct(w, "drop_bucket", 0, "drop_stats", DropDone(w))

\* unacctObj, the namespace
DropStats(w) ==
    /\ pc[w] = "drop_stats"
    /\ \/ StatsAcct(-1) /\ Goto(w, "drop_remove") /\ DbOk
       \/ UNCHANGED ns /\ DropDone(w) /\ DbFault
    /\ UNCHANGED <<bktVars, objVars, gcq, histVars, restarts>>

\* dbS3RemoveOnState(Inactive)
DropRemove(w) ==
    LET o == wobj[w]
    IN  /\ pc[w] = "drop_remove"
        /\ \/ ostate' = [ostate EXCEPT ![o] = IF @ = "Inactive" THEN "gone" ELSE @] /\ DbOk
           \/ UNCHANGED ostate /\ DbFault
        /\ DropDone(w)
        /\ UNCHANGED <<bktVars, ns, okey, orover, odata, gcq, histVars, restarts>>

-----------------------------------------------------------------------------
(* s3DeleteBucket.                                                         *)

\* an Active bucket that counts no objects becomes Inactive
DelBucket(w) ==
    /\ pc[w] = "idle"
    /\ bstate = "Active" /\ cnt = 0
    /\ bstate' = "Inactive"
    /\ Goto(w, "bucket_remove")
    /\ UNCHANGED <<cnt, ref, rover, ns, objVars, gcq, histVars, faults, restarts>>

\* RemoveFromDB; radosDeletePool before it fails as the database does, and leaves
\* the bucket as it is
BucketRemove(w) ==
    /\ pc[w] = "bucket_remove"
    /\ \/ bstate = "Inactive" /\ cnt = 0 /\ bstate' = "gone" /\ DbOk
       \/ ~(bstate = "Inactive" /\ cnt = 0) /\ UNCHANGED bstate /\ DbOk
       \/ UNCHANGED bstate /\ DbFault
    /\ Finish(w)
    /\ UNCHANGED <<cnt, ref, rover, ns, objVars, gcq, histVars, restarts>>

-----------------------------------------------------------------------------
(* The daemon dies and starts again; dbRepair runs before it serves.       *)

\* Objects that are not Active go, with their data; so does a bucket that is not;
\* the counters of a bucket with references are computed anew.  Nothing computes
\* the namespace's.
Restart ==
    LET stale == {o \in Oids : ostate[o] \in {"None", "Inactive"}}
    IN  /\ restarts < MaxRestarts
        /\ restarts' = restarts + 1
        /\ ostate' = [o \in Oids |-> IF o \in stale THEN "gone" ELSE ostate[o]]
        /\ odata' = odata \ stale
        /\ bstate' = IF bstate = "Inactive" THEN "gone" ELSE bstate
        /\ cnt' = IF ref # 0 THEN Cardinality(Live) ELSE cnt
        /\ ref' = 0
        /\ gcq' = {}
        /\ pc' = [w \in Workers |-> "idle"]
        /\ wkey' = [w \in Workers |-> Nil] /\ wobj' = [w \in Workers |-> Nil]
        /\ wrov' = [w \in Workers |-> 0] /\ wset' = [w \in Workers |-> {}]
        /\ UNCHANGED <<rover, ns, okey, orover, histVars, faults>>

-----------------------------------------------------------------------------
\* A request begins: handleObject and handleBucket choose by method.
Request(w) ==
    \/ \E k \in Keys : PutBegin(w, k) \/ CopyBegin(w, k) \/ DelRequest(w, k)
    \/ DelBucket(w)

Step(w) ==
    \/ PutStats(w) \/ PutUnstats(w) \/ PutBucket(w) \/ PutPart(w) \/ PutActivate(w)
    \/ PutCommit(w) \/ PutUnpart(w) \/ PutUnacct(w) \/ PutRemove(w)
    \/ DelFind(w) \/ DropDeact(w) \/ DropParts(w) \/ DropBucket(w) \/ DropStats(w)
    \/ DropRemove(w) \/ BucketRemove(w)

Next ==
    \/ \E w \in Workers : Request(w) \/ Step(w) \/ GcStart(w)
    \/ Restart

Spec == Init /\ [][Next]_vars

-----------------------------------------------------------------------------
(* Properties.                                                             *)

AtRest == gcq = {} /\ \A w \in Workers : pc[w] = "idle"

\* What tools/s3-fsck.go looks for: once all requests and collections are done,
\* the counters of the bucket and of the namespace are the objects there are,
\* every one of them has its data, and nothing half-made is left (acct.go; no
\* database error, no restart).  Only a copy whose source was dropped between its
\* lookup and the copying of its parts is there without data.
FsckClean ==
    AtRest /\ faults = 0 /\ restarts = 0 =>
        /\ cnt = Cardinality(Live) /\ ns = cnt
        /\ bstate = "Active" => ref = 0
        /\ odata = Live \ hollow
        /\ \A o \in Oids : ostate[o] \notin {"None", "Inactive"}

\* Once all is done a name has one object: concurrent overwrites leave no second
\* one behind, in whatever order they commit and collect (Activate, gcOldVersions;
\* no database error, no restart).
OneVersionAtRest ==
    AtRest /\ faults = 0 /\ restarts = 0 => \A k \in Keys : Cardinality(LiveOf(k)) <= 1

\* A name a PUT was acknowledged for and nobody deletes can be read at every
\* moment: FindCurObject finds an object, and its data is there, also while the
\* object is overwritten and its older versions are collected.
KeyReadable ==
    \A k \in puts \ dels : Current(k) # {} /\ Current(k) \subseteq odata

\* The bucket's counter never misses a visible object, so that a bucket cannot be
\* deleted under its objects (s3DeleteBucket relies on it), also after a restart (no
\* database error).
BucketCoversLive ==
    faults = 0 =>
        /\ bstate = "Active" => cnt >= Cardinality(Live)
        /\ bstate # "Active" => Live = {}

\* The objects of a namespace never exceed its limit, however many requests are
\* accounted at the same time (acctObj charges first and checks afterwards); a
\* failed operation lets at most one more in.
LimitHolds == Limit # 0 => Cardinality(Live) <= Limit + faults

\* bucket.go:229 "Buckets consistency passed": after the repair of a restart the
\* bucket counts the objects there are.
RepairedCount == AtRest => cnt = Cardinality(Live)

\* A failed database operation (requestFsck in acct.go asks for a look at it) puts
\* each counter off by one object at most, and a restart leaves a charge at most
\* for each request it cut off: no interleaving of undo paths, deletions and repair
\* unaccounts an object twice.
DriftBounded ==
    AtRest => \A d \in {cnt - Cardinality(Live), ns - Cardinality(Live)} :
                  -faults <= d /\ d <= faults + restarts * Cardinality(Workers)

\* tools/s3-fsck.go reports an object whose parts do not add up to its size: a
\* visible object has its data.
LiveHasData == Live \subseteq odata

\* The counters of a bucket stay near the objects and never miss one, after
\* failures and restarts (acct.go, bucket.go's repair).
CountersHold == DriftBounded /\ BucketCoversLive
=============================================================================
