------------------------------- MODULE MCNode -------------------------------
(* What runs beside the gate, for TLC: the watchdog of a pod, queues and   *)
(* waits of the common packages, the proxies of databases with their      *)
(* quotas and rates, the daemon of users, and the S3 daemon's keys, usage, *)
(* ranges and lists.  They share no state: a behaviour is one of one of them,    *)
(* the others stand still.                                                 *)
EXTENDS Wdog, XQueue, XWait, TcProxy, DbQuota, DbRates, Users, S3Keys, S3Usage,
        S3Range, S3List, TLC

CONSTANTS a1, a2, b1, b2

VARIABLE part

\* lengths of the requests on a connection of a proxy
MCTpLens == <<3, 2, 4>>
\* objects as the chunks of their parts
MCSrObjects == {<< <<2>> >>, << <<2, 1>>, <<3>> >>, << <<1>>, <<1, 2>>, <<1>> >>}

\* keys of objects, with the delimiter 0 in some of them, and prefixes
MCSlKeys == {<<1>>, <<1, 0, 1>>, <<1, 0, 2>>, <<2>>, <<0, 1>>}
MCSlPrefixes == {<<>>, <<1, 0>>}

\* a1 and a2 are alike in every part, b1 and b2 are buckets
Symmetry == Permutations({a1, a2}) \cup Permutations({b1, b2})

\* the variables of the parts, in the order of their names
queueVars == <<xqVars, xwVars, tpVars>>
dbVars    == <<dqVars, drVars>>
s3Vars    == <<skVars, suVars, srVars, slVars>>
nodeVars  == <<wdVars, queueVars, dbVars, usVars, s3Vars, part>>

NodeInit ==
    /\ part \in {"wdog", "queue", "wait", "proxy", "quota", "rates", "users", "keys",
                 "usage", "range", "list"}
    /\ WdInit /\ XqInit /\ XwInit /\ TpInit /\ DqInit /\ DrInit /\ UsInit
    /\ SkInit /\ SuInit /\ SrInit /\ SlInit

NodeNext ==
    \/ part = "wdog"  /\ WdNext /\ UNCHANGED <<queueVars, dbVars, usVars, s3Vars, part>>
    \/ part = "queue" /\ XqNext /\ UNCHANGED <<wdVars, xwVars, tpVars, dbVars, usVars, s3Vars, part>>
    \/ part = "wait"  /\ XwNext /\ UNCHANGED <<wdVars, xqVars, tpVars, dbVars, usVars, s3Vars, part>>
    \/ part = "proxy" /\ TpNext /\ UNCHANGED <<wdVars, xqVars, xwVars, dbVars, usVars, s3Vars, part>>
    \/ part = "quota" /\ DqNext /\ UNCHANGED <<wdVars, queueVars, drVars, usVars, s3Vars, part>>
    \/ part = "rates" /\ DrNext /\ UNCHANGED <<wdVars, queueVars, dqVars, usVars, s3Vars, part>>
    \/ part = "users" /\ UsNext /\ UNCHANGED <<wdVars, queueVars, dbVars, s3Vars, part>>
    \/ part = "keys"  /\ SkNext /\ UNCHANGED <<wdVars, queueVars, dbVars, usVars, suVars, srVars, slVars, part>>
    \/ part = "usage" /\ SuNext /\ UNCHANGED <<wdVars, queueVars, dbVars, usVars, skVars, srVars, slVars, part>>
    \/ part = "range" /\ SrNext /\ UNCHANGED <<wdVars, queueVars, dbVars, usVars, skVars, suVars, slVars, part>>
    \/ part = "list"  /\ SlNext /\ UNCHANGED <<wdVars, queueVars, dbVars, usVars, skVars, suVars, srVars, part>>

NodeSpec == NodeInit /\ [][NodeNext]_nodeVars

\* The variables of every part have their types: no call holds a runner that is not
\* there, no list of waiters or entries leaves its range (wdog, xqueue, xwait,
\* tcproxy, mgo, admd, s3).
NodeTypeOK ==
    /\ WdTypeOK /\ XqTypeOK /\ XwTypeOK /\ TpTypeOK /\ DqTypeOK /\ DrTypeOK
    /\ UsTypeOK /\ SkTypeOK /\ SuTypeOK /\ SrTypeOK /\ SlTypeOK

\* What a step may never undo: an event a waiter was registered for is not lost
\* (xwait.go Event), the newest snapshot of a user's traffic stays the newest
\* (scrapers/s3 doArchPass), a plan that was deleted does not come back
\* (admd handlePlanUpdate).
NodeSteps == XwNoEventLost /\ NewestSnapshotStays /\ DeletedPlanStays

\* The proxy of a database holds its two promises: the size overruns the quota by at
\* most what the queued checks allow, and requests are paced, by the entry that is in
\* the cache (mgo/quota.go, mgo/ratelimit.go).
DbSound == QuotaOverrunBounded /\ RatePaced /\ CachedIsServed

\* Bytes arrive as they were sent: a message over the socket of a runner whatever its
\* length (xqueue), requests through a proxy whole and none after a refusal (tcproxy),
\* the range of an object and the list of a bucket a client asked for (s3/handlers.go,
\* s3/bucket.go).
BytesSound ==
    XqRoundTrip /\ WholeRequests /\ NothingAfterRefusal /\ RangeIsExact /\ ListIsWhole
=============================================================================
