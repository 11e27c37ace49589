------------------------------ MODULE Triggers ------------------------------
(***************************************************************************)
(* The triggers of one function (gate/event.go) and what their handlers    *)
(* keep: the cached handler of its URL (url.go), the cron                *)
(* jobs (cron.go), the listener of the S3 queue and the subscription of    *)
(* the bucket (s3.go, mq.go, s3/notify.go).  A web socket trigger is only  *)
(* its record.                                                             *)
(*                                                                         *)
(* A trigger is a database record; adding or deleting it is a sequence of  *)
(* database operations and calls of its handler, made by a goroutine that  *)
(* works on its own copy of the record; the removal of a function deletes  *)
(* its triggers one after the other from copies it listed at once.  The    *)
(* cache of URLs is filled by calls, which read the database first and     *)
(* store what they made later.  A gate that starts runs and saves the cron *)
(* triggers one after the other and dies at the first that fails.          *)
(***************************************************************************)
EXTENDS Integers, FiniteSets

CONSTANTS
    Events,        \* ObjIDs of triggers: the bound on triggers ever added
    TgWorkers,     \* goroutines serving API requests
    TgCallers,     \* goroutines serving calls through URLs
    NoEvent,       \* no trigger
    TgMaxOdd       \* bound on failing operations, restarts of the gate and functions
                   \* added anew under the name, together

\* a cron trigger's tab is looked at when it is started only; "badtab" is one whose
\* tab does not parse
Kinds == {"url", "cron", "badtab", "s3", "websocket"}
Crons == {"cron", "badtab"}
Unused == "unused"

VARIABLES
    kind,      \* FnEventDesc.Source; Unused for an id not given to a trigger yet
    rec,       \* the stored records: what is there, its Key set or not, its JobID
    jobs,      \* entries of cronRunner: job id -> trigger
    nextjob,   \* the next entry id of cronRunner
    listeners, \* consumers[key].counter of the gate's S3 queue, 0 for no consumer
    notify,    \* the bucket's counter of subscriptions
    fngen,     \* functions ever added under the name
    fnlive,    \* the latest of them is there
    url,       \* the cached handler of the function's URL
    tgpc, tgev, tgcopy, \* a request: label, trigger, its copy of the record;
                        \* the label of all is down while the gate does not run
    tglist,    \* the copies a removal of the function has still to delete
    cpc, cres, \* a call: label, what it is going to cache
    urlLate,      \* URLs stored from a lookup that was overtaken by a clean-up
    torn,      \* triggers deleted from a copy read before they were fully added, or
               \* by two requests at once
    tgfaults, tgrestarts

recVars == <<kind, rec>>
hndVars == <<jobs, nextjob, listeners, notify>>
fnVars  == <<fngen, fnlive>>
reqVars == <<tgpc, tgev, tgcopy, tglist>>
calVars == <<cpc, cres>>
tgVars  == <<recVars, hndVars, fnVars, url, reqVars, calVars, urlLate, torn,
             tgfaults, tgrestarts>>

\* what a URL may lead to: nothing cached, a handler without a function (nil),
\* or the function of a generation
Uncached == -1
NilFn == 0

NoJob == 0
Gone == [there |-> FALSE, key |-> FALSE, job |-> NoJob]
NoneListed == [e \in Events |-> Gone]
JobIds == 1..(Cardinality(Events) * (TgMaxOdd + 1))

ASSUME TgAssumption == IsFiniteSet(Events) /\ NoEvent \notin Events /\ TgMaxOdd \in Nat

TgStateOK ==
    /\ kind \in [Events -> Kinds \cup {Unused}]
    /\ rec \in [Events -> [there : BOOLEAN, key : BOOLEAN, job : JobIds \cup {NoJob}]]
    /\ jobs \in [JobIds -> Events \cup {NoEvent}]
    /\ nextjob \in Nat /\ listeners \in Nat /\ notify \in Int
    /\ fngen \in Nat /\ fnlive \in BOOLEAN
    /\ url \in Nat \cup {Uncached}
    /\ tgev \in [TgWorkers -> Events \cup {NoEvent}]
    /\ urlLate \in BOOLEAN /\ torn \subseteq Events

TgTypeOK ==
    /\ TgStateOK
    /\ tglist \in [TgWorkers -> [Events -> [there : BOOLEAN, key : BOOLEAN, job : JobIds \cup {NoJob}]]]

TgInit ==
    /\ kind = [e \in Events |-> Unused]
    /\ rec = [e \in Events |-> Gone]
    /\ jobs = [j \in JobIds |-> NoEvent]
    /\ nextjob = 1 /\ listeners = 0 /\ notify = 0
    /\ fngen = 1 /\ fnlive = TRUE
    /\ url = Uncached
    /\ tgpc = [w \in TgWorkers |-> "idle"]
    /\ tgev = [w \in TgWorkers |-> NoEvent]
    /\ tgcopy = [w \in TgWorkers |-> Gone]
    /\ tglist = [w \in TgWorkers |-> NoneListed]
    /\ cpc = [c \in TgCallers |-> "idle"]
    /\ cres = [c \in TgCallers |-> Uncached]
    /\ urlLate = FALSE /\ torn = {}
    /\ tgfaults = 0 /\ tgrestarts = 0

-----------------------------------------------------------------------------
(* Helpers.                                                                *)

TgOdd == tgfaults + tgrestarts + (fngen - 1) < TgMaxOdd
TgFault == TgOdd /\ tgfaults' = tgfaults + 1
TgOk    == UNCHANGED tgfaults

TgGoto(w, l) == tgpc' = [tgpc EXCEPT ![w] = l] /\ UNCHANGED <<tgev, tgcopy, tglist>>

\* The request is answered.  With triggers left to clear, removal of the
\* function goes on with the next of them.
TgDone(w) ==
    /\ tgpc' = [tgpc EXCEPT ![w] = IF tglist[w][tgev[w]].there THEN "clear" ELSE "idle"]
    /\ tgev' = [tgev EXCEPT ![w] = NoEvent]
    /\ tgcopy' = [tgcopy EXCEPT ![w] = Gone]
    /\ tglist' = [tglist EXCEPT ![w][tgev[w]] = Gone]

\* A failed request is answered; a failed removal of the function stops there.
TgFailed(w) ==
    /\ tgpc' = [tgpc EXCEPT ![w] = "idle"]
    /\ tgev' = [tgev EXCEPT ![w] = NoEvent]
    /\ tgcopy' = [tgcopy EXCEPT ![w] = Gone]
    /\ tglist' = [tglist EXCEPT ![w] = NoneListed]

Adding(e) == \E w \in TgWorkers : tgev[w] = e /\ tgpc[w] \in {"add_start", "add_sub", "add_save", "add_undo"}
Deleting(e) == \E w \in TgWorkers : tgev[w] = e /\ tgpc[w] \in {"del_key", "del_stop", "del_remove"}

StopListener_NoCheck(n) == n - 1

\* stopListener, which finds no consumer when the counter is gone
StopListener(n) == IF n = 0 THEN 0 ELSE n - 1

\* bson.NewObjectId: an id no trigger ever had
FreshId(e) == kind[e] = Unused

-----------------------------------------------------------------------------
(* FnEventDesc.Add.                                                        *)

AddInsert(w, e, k) ==
    /\ tgpc[w] = "idle" /\ fnlive
    /\ FreshId(e)
    /\ kind' = [kind EXCEPT ![e] = k]
    /\ rec' = [rec EXCEPT ![e] = [Gone EXCEPT !.there = TRUE]]
    /\ tgpc' = [tgpc EXCEPT ![w] = "add_start"]
    /\ tgev' = [tgev EXCEPT ![w] = e]
    /\ tgcopy' = [tgcopy EXCEPT ![w] = [Gone EXCEPT !.there = TRUE]]
    /\ UNCHANGED <<tglist, hndVars, fnVars, url, calVars, urlLate, torn, tgfaults, tgrestarts>>

\* The handler's start.  Its error is not looked at: whatever happens, the
\* record is saved next.
Starts(w, copy, next) ==
    /\ tgcopy' = [tgcopy EXCEPT ![w] = copy]
    /\ tgpc' = [tgpc EXCEPT ![w] = next]
    /\ UNCHANGED <<tgev, tglist, recVars, fnVars, url, calVars, urlLate, torn, tgrestarts>>

Keyed(w) == [tgcopy[w] EXCEPT !.key = TRUE]

\* urlEventStart; wsEventStart is the same
UrlStart(w) ==
    /\ kind[tgev[w]] \in {"url", "websocket"}
    /\ Starts(w, Keyed(w), "add_save")
    /\ UNCHANGED hndVars /\ TgOk

\* cronEventStart: a tab that does not parse gets no job
CronStart(w) ==
    /\ kind[tgev[w]] \in Crons
    /\ \/ /\ kind[tgev[w]] = "cron" /\ nextjob \in JobIds
          /\ jobs' = [jobs EXCEPT ![nextjob] = tgev[w]] /\ nextjob' = nextjob + 1
          /\ Starts(w, [tgcopy[w] EXCEPT !.job = nextjob], "add_save")
       \/ /\ kind[tgev[w]] = "badtab"
          /\ Starts(w, tgcopy[w], "add_save") /\ UNCHANGED <<jobs, nextjob>>
    /\ UNCHANGED <<listeners, notify>> /\ TgOk

\* startListener: one consumer of the queue, counted
StartListener(n) == n + 1

\* s3EventStart starts the listener, then subscribes
ListenStart(w) ==
    /\ kind[tgev[w]] = "s3"
    /\ \/ Starts(w, Keyed(w), "add_sub") /\ listeners' = StartListener(listeners) /\ TgOk
       \/ Starts(w, Keyed(w), "add_save") /\ TgFault /\ UNCHANGED listeners
    /\ UNCHANGED <<jobs, nextjob, notify>>

AddStart(w) == tgpc[w] = "add_start" /\ (UrlStart(w) \/ CronStart(w) \/ ListenStart(w))

\* s3Subscribe and s3Unsubscribe of the S3 daemon: $inc of the bucket's counters
Subscribed(n) == n + 1
Unsubscribed(n) == n - 1

\* s3Subscribe of the bucket; without it the listener is let go
AddSubscribe(w) ==
    /\ tgpc[w] = "add_sub"
    /\ \/ notify' = Subscribed(notify) /\ UNCHANGED listeners /\ TgOk
       \/ TgFault /\ listeners' = StopListener(listeners) /\ UNCHANGED notify
    /\ TgGoto(w, "add_save")
    /\ UNCHANGED <<recVars, jobs, nextjob, fnVars, url, calVars, urlLate, torn, tgrestarts>>

\* dbUpdateAll
AddSave(w) ==
    LET e == tgev[w]
    IN  /\ tgpc[w] = "add_save"
        /\ \/ /\ rec[e].there
              /\ rec' = [rec EXCEPT ![e] = tgcopy[w]]
              /\ TgFailed(w) /\ TgOk
           \/ /\ \/ ~rec[e].there /\ TgOk
                 \/ TgFault
              /\ TgGoto(w, "add_undo") /\ UNCHANGED rec
        /\ UNCHANGED <<kind, hndVars, fnVars, url, calVars, urlLate, torn, tgrestarts>>

\* urlEventStop and urlClean
UrlStop(e) == url' = IF kind[e] = "url" THEN Uncached ELSE url

\* cronEventStop of the job in copy r
CronStop(e, r) ==
    /\ jobs' = IF kind[e] = "cron" /\ r.job # NoJob THEN [jobs EXCEPT ![r.job] = NoEvent] ELSE jobs
    /\ UNCHANGED nextjob

\* s3EventStop: unsubscribed, and the listener let go
S3Stop(e) ==
    /\ notify' = IF kind[e] = "s3" THEN Unsubscribed(notify) ELSE notify
    /\ listeners' = IF kind[e] = "s3" THEN StopListener(listeners) ELSE listeners

\* The handler's stop
Stop(e, r) == UrlStop(e) /\ CronStop(e, r) /\ S3Stop(e)

\* stop and remove the record after a failed save, results not looked at
AddUndo(w) ==
    LET e == tgev[w]
    IN  /\ tgpc[w] = "add_undo"
        /\ Stop(e, tgcopy[w])
        /\ \/ rec' = [rec EXCEPT ![e] = Gone] /\ TgOk
           \/ TgFault /\ UNCHANGED rec
        /\ TgFailed(w)
        /\ UNCHANGED <<kind, fnVars, calVars, urlLate, torn, tgrestarts>>

-----------------------------------------------------------------------------
(* FnEventDesc.Delete.                                                     *)

\* Delete of trigger e from copy r of its record
DelBegin(w, e, r) ==
    /\ tgpc' = [tgpc EXCEPT ![w] = "del_key"]
    /\ tgev' = [tgev EXCEPT ![w] = e]
    /\ tgcopy' = [tgcopy EXCEPT ![w] = r]
    /\ torn' = IF Adding(e) \/ Deleting(e) THEN torn \cup {e} ELSE torn
    /\ UNCHANGED <<recVars, tglist, hndVars, fnVars, url, calVars, urlLate, tgfaults, tgrestarts>>

\* the copy DELETE works on; one that was read before the trigger's job was
\* saved does not know the job
DelFind(w, e) ==
    /\ tgpc[w] = "idle"
    /\ rec[e].there
    /\ DelBegin(w, e, rec[e])

\* The removal of the function goes on with a copy it listed, whatever became of
\* the record since.
ClearNext(w, e) ==
    /\ tgpc[w] = "clear"
    /\ tglist[w][e].there
    /\ DelBegin(w, e, tglist[w][e])

DelKey_Later(w) ==
    /\ tgpc[w] = "del_key"
    /\ rec[tgev[w]].there
    /\ TgGoto(w, "del_stop")
    /\ UNCHANGED <<recVars, hndVars, fnVars, url, calVars, urlLate, torn, tgfaults, tgrestarts>>

\* dbUpdatePart: the key is dropped, so that nobody finds the trigger by it
DelKey(w) ==
    LET e == tgev[w]
    IN  /\ tgpc[w] = "del_key"
        /\ \/ /\ rec[e].there
              /\ rec' = [rec EXCEPT ![e].key = FALSE]
              /\ TgGoto(w, "del_stop") /\ TgOk
           \/ /\ \/ ~rec[e].there /\ TgOk
                 \/ TgFault
              /\ TgFailed(w) /\ UNCHANGED rec
        /\ UNCHANGED <<kind, hndVars, fnVars, url, calVars, urlLate, torn, tgrestarts>>

\* Only s3Unsubscribe can fail.  From here on calls that looked the URL up
\* before have not stored it yet: the clean-up misses them.
DelStop(w) ==
    LET e == tgev[w]
        fnLookups == \E c \in TgCallers : cpc[c] \in {"memd", "store"}
    IN  /\ tgpc[w] = "del_stop"
        /\ \/ /\ Stop(e, tgcopy[w])
              /\ urlLate' = (urlLate \/ (kind[e] = "url" /\ fnLookups))
              /\ TgGoto(w, "del_remove") /\ TgOk
           \/ /\ kind[e] = "s3" /\ TgFault
              /\ TgFailed(w) /\ UNCHANGED <<hndVars, url, urlLate>>
        /\ UNCHANGED <<recVars, fnVars, calVars, torn, tgrestarts>>

DelRemove(w) ==
    /\ tgpc[w] = "del_remove"
    /\ \/ /\ rec[tgev[w]].there
          /\ rec' = [rec EXCEPT ![tgev[w]] = Gone]
          /\ TgDone(w) /\ TgOk
       \/ /\ \/ ~rec[tgev[w]].there /\ TgOk
             \/ TgFault
          /\ TgFailed(w) /\ UNCHANGED rec
    /\ UNCHANGED <<kind, hndVars, fnVars, url, calVars, urlLate, torn, tgrestarts>>

-----------------------------------------------------------------------------
(* The function goes with all its triggers, and may be added again.        *)

\* clearAllEvents reads the records of all triggers once, then deletes one after
\* the other from these copies (ClearNext); that of a trigger which is being added
\* does not know its job.
ClearAll(w) ==
    /\ tgpc[w] = "idle" /\ fnlive
    /\ tglist' = [tglist EXCEPT ![w] = rec]
    /\ tgpc' = [tgpc EXCEPT ![w] = "clear"]
    /\ torn' = torn \cup {e \in Events : rec[e].there /\ Adding(e)}
    /\ UNCHANGED <<tgev, tgcopy, recVars, hndVars, fnVars, url, calVars, urlLate,
                   tgfaults, tgrestarts>>

\* memdGone and dbRemove, after the last trigger
FnRemove(w) ==
    /\ tgpc[w] = "clear"
    /\ tglist[w] = NoneListed
    /\ fnlive' = FALSE
    /\ TgFailed(w)
    /\ UNCHANGED <<recVars, hndVars, fngen, url, calVars, urlLate, torn,
                   tgfaults, tgrestarts>>

FnAdd(w) ==
    /\ tgpc[w] = "idle"
    /\ ~fnlive /\ TgOdd
    /\ fnlive' = TRUE /\ fngen' = fngen + 1
    /\ UNCHANGED <<recVars, hndVars, url, reqVars, calVars, urlLate, torn,
                   tgfaults, tgrestarts>>

-----------------------------------------------------------------------------
(* A call through a URL: urlFind, then the handler.                        *)

CallDone(c) ==
    /\ cpc' = [cpc EXCEPT ![c] = "idle"]
    /\ UNCHANGED <<cres>>

\* urls.Load misses, and the trigger is read (urlEvFind)
UrlLookup(c) ==
    /\ cpc[c] = "idle" /\ url = Uncached
    /\ \E e \in Events : kind[e] = "url" /\ rec[e].key
    /\ cpc' = [cpc EXCEPT ![c] = "memd"] /\ UNCHANGED cres
    /\ UNCHANGED <<recVars, hndVars, fnVars, url, reqVars, urlLate, torn, tgfaults, tgrestarts>>

\* memdGet: no error when the function is not there, but no data either
UrlMemd(c) ==
    /\ cpc[c] = "memd"
    /\ cres' = [cres EXCEPT ![c] = IF fnlive THEN fngen ELSE NilFn]
    /\ cpc' = [cpc EXCEPT ![c] = "store"]
    /\ UNCHANGED <<recVars, hndVars, fnVars, url, reqVars, urlLate, torn, tgfaults, tgrestarts>>

\* url.LoadOrStore: the first to store wins
UrlStore(c) ==
    /\ cpc[c] = "store"
    /\ url' = IF url = Uncached THEN cres[c] ELSE url
    /\ CallDone(c)
    /\ UNCHANGED <<recVars, hndVars, fnVars, reqVars, urlLate, torn, tgfaults, tgrestarts>>

-----------------------------------------------------------------------------
(* The gate dies, and starts again.                                        *)

\* what the gate keeps in memory: nobody starts the listener of the S3 queue again
MemoryLost ==
    /\ listeners' = 0 /\ url' = Uncached
    /\ tgev' = [w \in TgWorkers |-> NoEvent]
    /\ tgcopy' = [w \in TgWorkers |-> Gone]
    /\ tglist' = [w \in TgWorkers |-> NoneListed]
    /\ cres' = [c \in TgCallers |-> Uncached]
    /\ urlLate' = FALSE /\ torn' = {}

NoCron == jobs' = [j \in JobIds |-> NoEvent] /\ nextjob' = 1

Everybody(l) == tgpc' = [w \in TgWorkers |-> l] /\ cpc' = [c \in TgCallers |-> l]

GateDies ==
    /\ \E w \in TgWorkers : tgpc[w] # "down"
    /\ TgOdd /\ tgrestarts' = tgrestarts + 1
    /\ MemoryLost /\ Everybody("down")
    /\ NoCron
    /\ UNCHANGED <<recVars, notify, fnVars, tgfaults>>

\* cronInit adds a job for the stored cron triggers and saves it, one after the
\* other.  A tab that does not parse, or a failing operation of the database, ends
\* the gate with some of them done; without a failure it is up.  A start may fail
\* any number of times.
GateStart ==
    LET crons == {e \in Events : rec[e].there /\ kind[e] \in Crons}
    IN  /\ \E w \in TgWorkers : tgpc[w] = "down"
        /\ MemoryLost
        /\ \E done \in SUBSET {e \in crons : kind[e] = "cron"} :
           \E ord \in [done -> 1..Cardinality(done)] :
              /\ \A e, f \in done : ord[e] = ord[f] => e = f
              /\ rec' = [e \in Events |-> IF e \in done THEN [rec[e] EXCEPT !.job = ord[e]]
                                          ELSE rec[e]]
              /\ \/ /\ done = crons /\ Everybody("idle")
                    /\ jobs' = [j \in JobIds |-> IF \E e \in done : ord[e] = j
                                                 THEN CHOOSE e \in done : ord[e] = j ELSE NoEvent]
                    /\ nextjob' = Cardinality(done) + 1
                 \/ Everybody("down") /\ NoCron
        /\ UNCHANGED <<kind, notify, fnVars, tgfaults, tgrestarts>>

-----------------------------------------------------------------------------
TgStep(w) ==
    \/ AddStart(w) \/ AddSubscribe(w) \/ AddSave(w) \/ AddUndo(w)
    \/ DelKey(w) \/ DelStop(w) \/ DelRemove(w) \/ FnRemove(w)

TgNext ==
    \/ \E w \in TgWorkers, e \in Events :
          (\E k \in Kinds : AddInsert(w, e, k)) \/ DelFind(w, e) \/ ClearNext(w, e)
    \/ \E w \in TgWorkers : ClearAll(w) \/ FnAdd(w) \/ TgStep(w)
    \/ \E c \in TgCallers : UrlLookup(c) \/ UrlMemd(c) \/ UrlStore(c)
    \/ GateDies \/ GateStart

TgSpec == TgInit /\ [][TgNext]_tgVars

-----------------------------------------------------------------------------
(* Properties.                                                             *)

UrlKeyed == \E e \in Events : kind[e] = "url" /\ rec[e].key
Cleaning == \E w \in TgWorkers : tgpc[w] = "del_stop" /\ kind[tgev[w]] = "url"

\* event.go:230-233: the key of a trigger is dropped "so that find-ers do not
\* get it while we .stop the event, then do the .stop, cleaning anyone who might
\* have found it before this key update": a URL that is cached has its trigger,
\* unless the clean-up is still to come.
CleanedUrlStays ==
    url # Uncached => UrlKeyed \/ Cleaning

\* A URL outlives its trigger only through a call that had looked the trigger up
\* and stored the URL after Delete cleaned the cache, or through a Delete of a
\* trigger that was still being added when its copy was read: no other order of key, stop and removal,
\* of one trigger or of two with the same URL, does.
StaleUrlOnlyLate ==
    url # Uncached /\ ~urlLate /\ torn = {} => UrlKeyed \/ Cleaning

\* Every job cron runs is known to the record of its trigger, or to a request at
\* work on it, so that deleting the trigger stops it (cronEventStart, JobID),
\* except for a trigger deleted from a copy read while it was being added, by DELETE
\* or by the removal of the function (clearAllEvents).
JobsTracked ==
    \A j \in JobIds : LET e == jobs[j] IN
        e # NoEvent /\ e \notin torn =>
            \/ rec[e].there /\ rec[e].job = j
            \/ \E w \in TgWorkers : tgev[w] = e /\ tgcopy[w].job = j

Heard(e) == kind[e] = "s3" /\ (rec[e].there /\ rec[e].key)

\* As long as no operation failed and the gate has not been restarted, stored S3
\* triggers are subscribed and have a listener (s3EventStart counts both up,
\* s3EventStop down).
S3TriggersHeard ==
    tgfaults = 0 /\ tgrestarts = 0 /\ torn = {} =>
        \A e \in Events : Heard(e) => listeners > 0 /\ notify > 0

\* What event.go keeps in three places agrees: the cached URLs, cron's jobs and the
\* S3 listeners follow the stored triggers, but for the races named above.
TriggersSound == StaleUrlOnlyLate /\ JobsTracked /\ S3TriggersHeard
=============================================================================
