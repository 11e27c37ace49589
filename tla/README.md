# Verification of Swifty

Swifty is a functions-as-a-service platform: a *gate* that keeps functions,
deploys them to Kubernetes and calls them, an S3 service with its own storage
and accounting, a *watchdog* that runs in every function's pod, database
proxies, an administration daemon and scrapers of usage. All of it is Go (about
32 000 lines under `src/src`). This directory holds TLA+ models of its stateful
parts, TLC configurations that check them on small instances, and TLAPS proofs.

    tlc -workers 4 -config MCCalls_all.cfg MCCalls     # one run
    tlapm FnLifeProofs.tla                             # one module of proofs

`PROJECT.json` lists components, runs, the code each definition models ("map"),
the mutants that show a property can fail, hazards, findings and theorems.

## 1. Inventory

Paths are relative to `src/src`.

| Component | State | Operations | Hard behaviour | What makes it correct |
|---|---|---|---|---|
| gate functions: `gate/function.go`, `src.go`, `k8s.go` | database record (state, version, attachments), source directories, deployment, pods | add, push, attach, activate, deactivate, remove, refresh, pod events | requests work from a copy of the record; the start runs in the background; the gate restarts anywhere | no deployment without record, recorded sources on disk, a start ends |
| gate pods and balancer: `gate/pods.go`, `balancer.go` | store of pods, cached list, two call counters | pod up, pod down, take a pod, flush | a structure is dropped between load and lock; the list is flushed without a lock | a pod that is up is found; the list is the store's |
| gate scaler: `gate/scaler.go` | goal, condition variable, replicas | raise goal, scale, relax, stop | counters read apart in uint32; Kubernetes called without the lock; timers | one scaler; the goal follows the load, is reached and given up |
| rate limiter: `common/ratelimit`, `gate/fdmdat.go` | tokens and time of three limiters | Get, Put, Update | a call refused by a later limiter gives back to the earlier ones, while they refill | no token made up or lost, the rate holds |
| gate statistics: `gate/stats.go`, `scrapers/gate` | counters in memory and database, archive | count, flush, archive, remove | flag cleared before a write that may fail; a removal waits for a flush | no call counted twice or lost, limits of a period count from the archive |
| gate triggers: `gate/event.go`, `cron.go`, `url.go`, `s3.go`, `mq.go`, `s3/notify.go` | trigger records, cron jobs, listeners, cache of URLs | add, delete, fire | the cache is filled after it was cleaned; Delete works on a copy read while Add runs | a removed trigger fires no more |
| gate routers: `gate/router.go` | table, cached table | add, change, delete, call | the same cache | a call is routed by a table in force |
| gate middleware: `gate/mware.go`, `mw-*.go` | records, users and databases at servers, secrets, clients of web sockets | add, delete, connect, send | undo paths that fail; removal while clients connect | record, server and secret agree |
| gate deployments: `gate/deploy.go` | record with items and states | start items in order, undo, stop, restart | a saga in the background, resumed after a restart, items known by name only | all items or none, and nobody else's |
| gate repositories: `gate/repo.go` | record, clone, functions made from it | attach, pull, update, detach | clone and pull in the background, from old copies | functions follow the clone; no clone without record |
| gate accounts and packages: `gate/accounts.go`, `packages.go` | records, secrets, environment; cached list and size | add, update, remove; install, list, scan | two places per write; caches of slow services | the places agree |
| S3 objects: `s3/object.go`, `acct.go`, `gc.go`, `bucket.go`, `limits.go` | objects, parts, counters of bucket and namespace | put, copy, delete, collect old versions, delete bucket, repair | one MongoDB operation at a time, each may fail, the daemon may die in between | counters match objects, limits hold, acknowledged objects can be read |
| S3 uploads: `s3/upload.go`, `data.go` | upload with lock and reference counters in the database, parts | init, part, complete, abort, delete, repair | the same; lock and counter replace a mutex | completion excludes parts; a committed object keeps its parts |
| S3 keys: `s3/keys.go`, `iam.go`, `policy.go`, `admin.go`, `main.go`, `web.go` | accounts, identities, keys, sites | make, reuse, remove, collect a key; authorize a request | several records per key, removed one by one | a request is admitted by a live key whose policy was asked for |
| S3 reads and usage: `s3/handlers.go`, `bucket.go`, `acct.go`, `scrapers/s3` | downloads counted, snapshots, pages of a list | range GET, list, archive | offsets at edges; a scraper that dies; objects that come between pages | exact bytes, whole lists, nothing billed twice |
| watchdog: `wdog/`, `common/xqueue` | runner process, queue, ready flag; proxied runners | run, restart, lend to a proxy | timeouts, two owners of one queue, messages cut into packets | one call at a time, the answer to its caller |
| waits: `common/xwait` | list of waiters | wait with timeout, event | a signal before the wait | no event lost, a wait ends |
| proxies: `proxies/mgo`, `proxies/maria`, `common/tcproxy` | collected bytes, lock of a database, cached rates | forward, check, lock, pace | requests cut over reads; entries that expire under waiting requests | whole requests, overrun bounded |
| `admd` | Keystone project and user, limits, plans | add and delete users, set limits, plans | several services, no transaction | user, project and limits go together |
| `mquotad`, `pgrest`, `tools`, `xtimer`, API types, configuration | none that outlives a request | | | |

Interactions. A request's goroutine in the gate reads a record from MongoDB,
changes it, and calls Kubernetes; Kubernetes sends pod events to one goroutine
(`podEventLoop`), which starts a goroutine per new pod (`waitPodPort`) that
fills the store calls read. A call comes through a URL, a router or a trigger,
takes tokens of three limiters (`FnMemData.ratelimited`), a pod of the cached
list, counts itself in, may raise the scaler's goal, and posts to the pod's
watchdog or to the proxy of its node, which borrows the watchdog's runner; the
answer is counted in the statistics, which the scraper snapshots and the
tenant's limits count from. The S3 daemon's requests meet only in MongoDB,
through `findAndModify` on records looked up by id *and* state; `dbRepair` runs
before a restarted daemon serves anything. `admd` writes the limits the gate
reads and asks the gate to delete a tenant's projects.

## 2. Plan

Every module is self-contained and follows one form: a step is one operation on
shared state (database, disk, Kubernetes, memory under a lock), a program
counter per goroutine, errors and restarts counted by named bounds. The names of
a module carry its prefix, so that several can be extended by one MC module.

| Module | Status |
|---|---|
| `FnLife` functions, sources, deployment, pods' notifications | checked, liveness, proved (`FnLifeProofs`) |
| `FnPods` pods of a function and the cached list | checked, liveness, proved (`CallsProofs`) |
| `Scaler` call counters, goal, scaling | checked, liveness, proved (`CallsProofs`) |
| `RateLimit` limiter and its use | checked, proved (`CallsProofs`) |
| `S3Objects` objects, accounting, old versions, bucket deletion, repair | checked, proved (`S3ObjectsProofs`) |
| `S3Upload` multipart uploads, repair | checked, liveness, proved (`S3UploadProofs`) |
| `Wdog` runner, queue, proxy; implements the abstract `OneAtATime` | checked, liveness, refinement proved (`NodeProofs`) |
| `Deploy`, `Repos`, `Accounts`, `Packages`, `Mware`, `WebSock` | checked, `Repos` liveness, proved (`GateProofs`) |
| `Routers`, `CallStats` | checked, proved (`CallsProofs`) |
| `Triggers` | checked, proved (`TriggersProofs`) |
| `XWait`, `DbQuota`, `DbRates` | checked, waits and unlocking liveness, proved (`NodeProofs`) |
| `Users`, `S3Keys`, `S3Usage` | checked, proved (`NodeProofs`) |
| `XQueue`, `TcProxy`, `S3Range`, `S3List` | checked, proved (`BytesProofs`) |

Every invariant and action property of a passing run has its theorem; liveness is
left to TLC (section 5). SourcesKept of `FnLife` is proved for one addition and one
pusher, and for any number of both as long as nothing `raced`; in general it is false
(section 6). Behaviour still to model: the try-run's own runner (`wdog/main.go` handleTry),
the second half of `GCOldSources`, the first read of a tenant's limits.

## 3. Modules and their code

**FnLife.** The record is `fstate, fid, fver, fatts`; `srcs` the version
directories; `fdep` the deployment with its resourceVersion `gen`, which makes
Kubernetes refuse an update from an old copy; the pods, what the balancer knows,
and `k8sPodUp`'s goroutines are `fpodVars`. Each request keeps the copy it read in
`loc`. Actions: `Add*`, `Build`/`Create`/`ToStalled` (the background start),
`Push*`, `Attach*`, `Upd*` (`k8sUpdate`), `Del*`, `Rm*` (`k8sRemove`), `Toggle` with
`DeactState`/`ActState`, `Refresh*` (`refreshDepsAndPods`), `FnRestart`, pod events.
The history `raced` records that two requests which start or stop the deployment
overlapped. A pod's down event and its handler are one step (`FnPods` takes them
apart), and the second half of `GCOldSources`, the wait for the last pod of a
version, is in `XWait` without the directories.

**FnPods.** `store`, `pods`, `dead` are `fnPodsStore`, `fnPods.pods` and
`fnPods.dead`; `cache` is `BalancerDat.pods`. `podsAdd` is `AddLoad`, `AddStore`,
`AddLock`, `AddFlush`; `podsDel` is `DelLoad`, `DelLock`, `DelFlush`;
`balancerGetConnAny` is `CallBegin` to its pick. Only the fill of the list takes
`fdm.lock`, so a flush may come between its two looks at the list. The history
`late` says whether the cached list was still the store's when it was cached.
Slices are read and written whole: a torn slice header, possible in Go, is not
modelled.

**Scaler.** `rover`, `goal`, `wakeup` are fields of `BalancerDat`;
`balancerFnScaler` is `ScalerUp`, `ScaleUp`, `ScalerCheck`, `ScalerLower`,
`ScalerStep`, `ScalerDown`, `ScaleDown`, with labels for its waits. A wait may end
at any time, since a signal, its timer and a late signal all do the same; the
timer is assumed not to fire before the wait has begun (8 and 16 s). `CallGoal`
subtracts modulo `Wrap`, which stands for 2^32. `k8sRemove` and the next
activation are actions, because the memory data outlive a deactivation.

**RateLimit.** One `RL` per level, `Get` as `GetLeft`, `GetRefill`, `GetRefused`,
`Put`, `Update`; `Proceed` and `TurnBack` are `ratelimited`. Time is in ticks, `Base`
stands for a second in nanoseconds; integer division is the code's.

**CallStats.** A function's and its tenant's counter in memory, what of it the
database has, the flusher of each and the one writer; `statsUpdate`, the flush in
its steps (flag, read, write, or a write that fails), `statsDrop` and the archive
of a removed function, the scraper's snapshot, and the limit of a period
(`rslimited`) that counts from it.

**Triggers, Routers.** A trigger is a record that `Add` inserts, starts by its
handler and saves, and `Delete` takes down from a copy; the handlers' own state is
there: cron jobs by their number, the count of listeners of the S3 queue, the
bucket's subscription, the cache of URLs. The removal of a function (`ClearAll`,
`ClearNext`) lists the records once and deletes from these copies (`tglist`), whatever
becomes of the records meanwhile, and stops at the first error. The cache is filled by calls in two
steps, look up and store (`urlFind`); the ghosts `urlLate` and `rlate` name a store
of what was read before the cache was cleaned, `torn` a trigger deleted from a copy
read while it was added. The gate dies (`GateDies`) and starts again (`GateStart`,
`cronInit`): a start runs and saves the cron triggers in some order and may fail at
any of them, which ends it; at a tab that does not parse it always does. `Routers`
is the same cache with tables, and a call's method and claims.

**Deploy.** A record with its items; starting and stopping an item is one step
(what it consists of is in `FnLife`, `Mware`, `Routers`). Items are known by name,
as in the code, and remember which deployment made them. `DpRestart` is
`DeployInit`: the loop's variable is shared by the goroutines it starts, so a
goroutine may work on a record of another deployment (`dpmixed`).

**Repos, Accounts, Packages.** `Repos`: one repository, its clone with the commit
in it, one function made from a file; the background clone, pulls done one at a
time from the copies they were asked with, update of the function, the scan of
the size, removal. A pull moves the clone (`PullGit`), reads its commit (`PullCommit`)
and saves it (`PullSave`); when the reading fails the pull is answered without an
error and record and functions stay behind until the next pull whose commit is read
(`rpblame` "late"). `Accounts`: record and secret written one after the other, and
what is attached to a function against the environment of its deployment,
`k8sUpdate` with Kubernetes' version check. `Packages`: what the language's service
has installed against the cached list and size, with the one scanning goroutine,
installations that end after the gate gave up, and the limit. A flush of the list
may fail unnoticed, and the gate may die between the service's answer and the flush
(`PkRestart`): the list is then stale until the next flush, the size until the next scan.

**Mware, WebSock.** `Mware`: the record, what the handler's `Init` makes part by part
under a random name, the secret; every `goto` of `Add` is a label. `WebSock`: the
map from cookie to list, lists that are filled, taken away and made anew under the
same cookie, numbers of connections.

**Wdog, OneAtATime, XQueue.** `Wdog`: calls that come to the watchdog directly or
through the proxy, the runner's generations, each with its queue; the lock,
`ready`, the lending of the queue over a socket and its return when the connection
ends, timeouts with a function that goes on, crashes of a runner. `XQueue`: packets
of `XqChunk` bytes and the padding, with each language's runner as it is.

**XWait, TcProxy, DbQuota, DbRates.** `XWait`: waiters, events, the timer's signal,
which is sent without the lock. `TcProxy`: one connection, reads of any size,
collected into requests by the decoders of Mongo and MariaDB. `DbQuota`: the counter
of writing requests, the queue to the checking goroutine, lock and unlock, and the
quota that is forgotten, lock and all, when its database is not found (`DqGone`).
`DbRates`: cached entries with their channel and the timer that drops them.

**Users, S3Keys.** `Users`: project and user in Keystone, limits, plan, the tenant's
projects in the gate, each changed by a call of its own that may fail. `S3Keys`:
account, identity and key, made in this order and removed one by one; requests
that look them up one after the other; policies with their actions. The metrics of a
bucket (`POST /`, `SkOfAccount`) are a deed of the account, which asks no policy.

**S3Objects.** One bucket; all objects have size one, so that a counter stands
for objects and bytes. `Put*` is `AddObject` with `acctObj`, `commitObj` and their
undo paths, `Drop*` is `DropObject`, `GcStart` is `gcOldVersions`, `Restart` the
daemon's death and `dbRepair`. `AddPart` and `DeletePart` are one step.

**S3Upload.** One name. `Part*`, `Fini*`, `Abort*`, `Del*` are the requests,
operation by operation; `LockUpload`, `UnlockUpload`, `PartRefInc`, `PartRefDec` are
the counters in the database; the restart includes the repair of uploads, parts and
objects. `hollow` parts are those whose record was activated without a chunk.

**S3Usage, S3Range, S3List.** `S3Usage`: bytes counted against the limit from the
offset, snapshots that are archived dirty and cleaned, the scraper's death in
between. `S3Range`: `ParseRange` and the walk over parts and chunks, of a request
without a Range, with one range, with a tail (`-n`) or with another header, and its
refusals: header not understood, range out of the object, download not accounted. `S3List`: pages by
token, prefix and delimiter while objects come and go.

## 4. Runs

| Run | Instance | Shows |
|---|---|---|
| `fn_race` | two goroutines, three requests of every kind, two pods, and either an error and a killed pod or a restart of the gate | a removed function leaves a deployment only if two starting or stopping requests overlapped or a deactivation was cut off (OrphanOnlyByRace); the recorded sources are on disk (SourcesKept) |
| `fn_orphan` | add and remove | *violation*: NoOrphan. `Del`'s comment says it waits for the build; it accepts state `Str`, and the start creates a deployment afterwards |
| `calls` | pods, scaler, limiters, statistics, triggers, routers; two goroutines or calls of each, four calls at the limiters | a pod that is up is found (PodsFound), the cached list is the store's (CacheFollowsStore); counters, goal and the one scaler (ScalerSound); tokens neither made up nor lost, the rate holds (TokensKept, RateHolds); calls counted once and for good (StatsSound); cached URLs, jobs and listeners follow the triggers (TriggersSound), and cached tables the routers (RoutesSound) |
| `gate` | deployments, repositories, accounts, packages, middleware, web sockets; two goroutines, a failure or a restart of the gate, two for middleware; no death of the gate for web sockets, whose lists are its memory | DeploySound, ReposSound, AccountsSound, PackagesSound, MiddlewareSound: what is kept in several places agrees, whatever step fails |
| `deploy_restart` | one removal, one restart of the gate | *violation*: RestartFinishes. A removal that a restart interrupts is never finished, though the log says so |
| `node` | watchdog, queue, waits, proxy, quota, rates, users, keys, downloads, ranges, lists | the watchdog implements `OneAtATime` (KeepsPromise); DbSound, UsersSound, KeysSound, UsageSound; messages, requests, ranges and lists arrive whole (BytesSound); no step loses an event, takes back the newest snapshot or revives a plan (NodeSteps) |
| `live` | functions, pods, scaler, uploads, repository, watchdog, wait, quota, under fairness | a start ends though the gate restarts (StartEnds); podsAdd's retries end (AddEnds); a goal is reached and given up (LoadSettles); locks of uploads are released (LockReleased); calls, waits and pulls are answered and databases unlocked (WaitsEnd) |
| `objects_race` | three goroutines put, overwrite and delete two names, limit two, the bucket deleted | FsckClean and OneVersionAtRest at rest, LimitHolds always |
| `objects_faults` | put, copy, delete with an error and a restart with repair | a counter is off by what the error and the requests cut off explain, and no bucket is deleted under its objects (CountersHold) |
| `objects_gc` | two puts of different names | *violation*: KeyReadable. The rover given to `gcOldVersions` is the bucket's of a later moment, and the object just acknowledged is collected |
| `upload_faults` | two goroutines, two uploads, two parts, two errors, a restart | LockExclusive, UploadKept, CommittedFrozen |
| `upload_repair` | a restart while a completed upload is not yet removed | *violation*: CommittedIntact. The repair deletes a part of the committed object |

A property named ...Sound is the conjunction of the named statements above it in
its module, each with its own comment; TLC reports the conjunction, and its parts
can be checked alone by naming them in the cfg.

Components that share no state are checked in one run: the variable `part`, chosen
in the initial state, says which of them moves, and the others stand still. As no
action of one reads or writes a variable of another, the behaviours of each are
exactly those of its own module, and the state spaces add up instead of
multiplying. A part's invariants hold trivially in the initial state of the
others. Where components do interact the interaction is in one module: the pod
events in `FnLife` and `FnPods`, the removal of a deployment in `Scaler`, the
triggers with cache, queue and bucket in `Triggers`, the watchdog with the node's
proxy in `Wdog`, the scrapers with the limits in `CallStats` and `S3Usage`.

Ghosts. Many of these properties would be false without an exception, because the
code has the race. A ghost variable (`raced`, `late`, `urlLate`, `torn`, `rlate`,
`dpmixed`, `mwblame`, `acblame`, `pkblame`, `rpblame`, `usghost`, `skghost`, `csghost`)
then records that this one event happened, and the property says that nothing
else breaks it. No action reads a ghost. Section 6 lists the exceptions.

Refinement. `OneAtATime` says what a function's pod promises: it runs one call at a
time, each at most once, and an answered call gets the result of its own run; calls
may fail. `Wdog` maps to it: a call's state is its label, the running call is what
any of the runner's generations executes, and a call answered with another's
result maps to a state `OneAtATime` does not have. It fails when the watchdog leaves
`ready` set while its queue is lent (the mutant of KeepsPromise).

Bounds. Each is the least at which the races the hazards name can happen, found
by checking that the mutants fail: two goroutines for every race of two, three
where one collects behind two puts; two pods, of which one goes while the other
is added, and one structure more than pods, since each pod kills one at most;
three calls, so that a call's number can be below the calls ended (the wrap), and
a limit of replicas above the two callers, which a lost call reaches. Middleware
and keys have two failures, because their undo paths are reached by the first.
`DqMaxSize` is above the bound DqOverrun for one fault, so that the bound is not the
model's. The scraper has three failures and a limit of one: a snapshot whose
insert failed is applied, and the dirty older one again after it, only with three.
Lengths in `XQueue` go to twice the packet; positions of `S3Range` one beyond
the largest object. Symmetry is used for invariants and action properties only,
with one set of model values shared by the parts. In `fn_race` a restart does not
come together with an error or a kill (the constraint RestartAlone). Deadlock is off: requests are
bounded and the system stops when they are used up.

Fairness. A goroutine that can go on does (`WF` of its steps): the Go scheduler
starves none, and calls of MongoDB and Kubernetes return, if only with an error.
In `Scaler` this includes the waits, which end with their timers; a *call* may
run for ever. In `FnLife` Kubernetes starts the pods of a deployment. In `Wdog` the
handlers, the answering and the proxy's watching of its connections are fair, the
function itself is not: it may never return, and the timeout is a step of the
handler. In `XWait` the waiter and its timer are fair, events never certain. In
`DbQuota` the checker and the scanner are fair, clients are not. Requests, errors,
kills and restarts are never fair.

## 5. Proofs

All theorems hold for every value of the constants that meets the named
assumptions of the modules. Proofs are by an inductive invariant:

- `S3UploadProofs`. LockInv: the reference counter covers the goroutines that hold
  a reference, a locked upload has none, and whoever is past the lock is alone.
  The exclusion itself is not inductive, as a goroutine reads the upload before it
  takes the reference. KeptInv goes on from it: the lock of an upload whose object
  was made visible is never given back (ShownIsLocked), so nobody stores, aborts or
  sums up its parts again; what a completion summed up are the Active parts until
  the object is visible, and the object's afterwards (SumHolds); answered parts
  are Active until then (AnsweredKept). It gives UploadKept and CommittedFrozen.
- `S3ObjectsProofs`. CountInv sorts the goroutines by the charge they hold: admitted
  and not yet known to the bucket, about to be given back, for an object that will
  be readable, for one that is to go. Each counter is, from below and from above,
  the readable objects and the sizes of some of these sets, up to Slack, one for
  each failure and one for each goroutine a restart cut off. The counters alone are
  not inductive, since a charge precedes its object. It gives LimitHolds and
  CountersHold. CalmInv says what holds as long as nothing failed: references are
  the puts not committed, an object in between states belongs to a goroutine
  (NoneLeft), data are there while the object is (DataKept), no two objects share a
  rover (RoversApart), and of two readable objects of a name the older one is due to
  be dropped (OlderDoomed). At rest nobody is left to be due, which gives FsckClean
  and OneVersionAtRest.
- `FnLifeProofs`. LabelsFit says which operation a goroutine at a label is in.
  AloneInv holds as long as nothing `raced`: one goroutine at most is in a request that
  starts or stops the deployment, and it *knows* (Knows) what a copy read some steps
  ago cannot promise in general, that the record, the deployment's version and the
  sources are still those of its copy, or what it changed itself; a function switched
  off has no deployment but while its deactivation runs, and a removed one has none.
  That is OrphanOnlyByRace, and SourcesKept for any number of additions and pushers
  unless `raced`. For SourcesKept without that exception OneLife is assumed, one
  addition and one pusher. Then OneLifeInv: until `Add` saved the record nothing but
  `Add` works on it (Young), every goroutine's copy is of the one record there is
  (Mate), and the version saved is on disk (Kept). Both invariants hold in the
  instance of the run `fn_race`, checked with TLC before they were proved.
- `NodeProofs`, one invariant per component. *Watchdog*: `Wdog` implements
  `OneAtATime`, for any number of calls, generations and connections: initial states
  map to initial states, each action to a step or a stutter. The mapping needs WdInv:
  who is past a lock holds it, the runner is lent to one connection at a time and
  `ready` says whether it is (LentOnce), the newest runner has one message at most
  (OneMessage), and whoever talks to it finds only its own (OwnMessage). Without
  `ready` the queue would be shared between a direct call and the proxy, and
  OwnMessage fails.
  *Waits* (XwInv): a waiter that was sent an event has its flag.
  *Quota* (DqInv): what counts is not the size but the size once every request let
  through is done (DqDue). While the database is unlocked DqDue, and the requests that
  can still pass until every connection waits for the checker (Room), stay within the
  limit, the connections and one round; each failed check costs one round more.
  *Rates* (DrInv): an entry has one goroutine that reads its channel and one timer, the
  entry of a connection that sleeps is not ended, and the cached entry is the newest.
  *Users* (UsInv): a project that is there belongs to the user or to one handler on its
  way (ProjectsFit); a number never comes again, so that a delete on its way is not of a
  later user (HandlersFit); limits without user have a handler at work, or the
  failure or overlap the property names came before (LimitsFit).
  *Usage* (SuInv): the counters are the bytes granted and those of downloads that
  are undecided or were left behind by a failure; a snapshot lies between the last
  archived one and the counters; the archive is in order unless an insert failed.
  The bound on a period follows from the two ends of the difference being bounded
  apart (cardinality of what is owed).
  *Keys* (SkInv): label by label, which of account, identity and key a request has
  made or has still to remove, and that a record without the next one has either a
  request at work or a failed call to blame (KeysFit, IamsFit, WorkersFit,
  NoStrayIam).
  The types of `Wdog` need the proxy's side besides (ProxyFits): who dials or reads
  holds the proxy's lock, and a connection that is open is the one under the pod's key
  or is about to be put there. NodeParts shows that a behaviour of `MCNode` is one of
  each of its parts, those of `BytesProofs` included, which gives NodeDatabases,
  NodeStepsHold, NodeBytes and NodeTypes for the run's specification.
- `BytesProofs`, one invariant per component. *Requests* (TpInv): what was passed on
  ends where a request ends, and is not ahead of what was read but for a header of
  MariaDB that was cut. *Ranges* (SrInv): the range asked for and the one
  the answer was computed for name the same bytes (ParseFits); the rover of the walk
  is where the part and the chunk begin, or behind the range, and the bytes sent are
  the range up to the rover (WalkFits, SentFits). *Lists* (SlInv): pages are in order and
  no prefix comes twice (AllInOrder), what the next page starts after is behind all that
  was listed (AllBehind), and a key that stays is listed or still to come (ListedOrLeft).
  The keys of a common prefix lie together in the order (PrefixBetween): without that a
  prefix could come again on a later page. *Messages* (XqInv): the packets in the socket are
  those of the messages sent, in order and each where its message puts it (XqLine);
  all but the last packet of a message are full (PiecesFacts), so that a packet that is
  not full ends the message the receiver is in, and while every message was one its
  receiver handles, what it has put together is that message up to the packet read
  (XqInside, PieceJoins).
  What a sum over lengths gives is proved by induction over a set of numbers, not over a
  predicate: of those that are not in the set the least would be (NatBySteps). The same
  gives that a finite set of keys has a first one and a sorted sequence. Sums are
  functions in these modules for this reason, `EndOf` and `SrSums`.
- `GateProofs`, one invariant per component. *Deployments* (DpInv): unless its record
  was mixed up, one goroutine works on a deployment, and what it has still to do
  accounts for what is there: what a start has made is a beginning of its list, an
  undoing has before it all that was made but for the last middleware and the last
  function, a stop has before it all that there is. Each statement of DeploySound is
  about the moment when nothing is left to do. A deployment may name an item twice:
  the second one fails, and the undoing still takes its own only (UndoIsOwn).
  *Repositories* (RpInv): no commit written down is
  ahead of the clone; a function that is behind is about to be updated; the
  directory goes before the record. *Packages* (PkInv): a list or size out of date
  has a goroutine that owes a flush or a scan; a size is behind by one package for
  each of these and one for the scan that runs, which bounds the overshoot of the
  limit. *Accounts* (AcInv): if record and secret, or environment and list, differ,
  somebody is about to bring them together. *Middleware* (MwInv): Stage says, label by
  label, where record, secret and server are while a request works on an id, AtRest
  when none does. *Web sockets* (WsInv): a client that reads is in its list, which is
  the one that is found or the one about to be closed. All six have the form "what
  disagrees is somebody's to mend", because the properties at rest are not
  inductive without naming who. GateParts shows that a behaviour of the composed
  specification is one of each part; GateTypes, GateMiddleware and GateDeployments
  carry the results over to the run's specification.
- `CallsProofs`, one invariant per component. *Pods* (PodsInv): a structure loaded but not locked is the store's or
  dead; only the event loop kills one, and it holds the store's; a structure
  outside the store is empty; podsDel works on a pod that is down. From this
  PodsFound, DeadIsEmpty and CacheFollowsStore. That podsAdd loses no pod depends
  on the `dead` flag: without it the first part fails.
  *Scaler* (ScalerInv): the counters differ by the calls in flight and lost
  (cardinality); a call that counted itself in carries a difference not above the
  peak; one that has subtracted carries a value below the peak or, if it wrapped,
  above the limit of replicas. The last needs MaxCalls + MaxReplicas < Wrap: with
  more calls in flight than 2^32 less the limit the code would scale up wrongly.
  MaxCalls bounds calls ever made here, a stronger assumption than the code needs,
  because the model's rovers do not wrap themselves. ScalerIsSound puts the three
  parts of ScalerSound together.
  *Rate limiter*: CountInv counts the calls that hold a token of each limiter
  (their number changes by one with each Get and Put, by the cardinality
  theorems), which gives Conserved; ReturnInv says where a refused call is on its
  way back; with Bounded they make TokensKept. RateInv adds that the tokens given so
  far are covered by the time up to the limiter's `t`. RateIsHeld needs `Modest`: burst
  not above rate, and a rate that divides the base interval. Without the first,
  MakeRL(5, 1) admits six calls in a second, since a full second refills the whole
  burst.
  *Statistics* (CsInv): what the database has is what it was given at last, or what
  it has still to be given is marked dirty, asked for, being written or lost to a
  failed write (FlagKept, DiskFollows); every call that returned is in the counter in
  memory, but for those between the counter and the flag (Counted); the archive and
  the scraper's snapshot only grow with what the database had (ArchiveGrows); the
  record goes last (RecordGone) and one removal at a time stops the flusher
  (OneStops). The data of a removed function may be dropped a second time while the
  writer still holds them: the difference is that of the data the writer took, and
  nobody sees the copy any more. *Routers* (RtInv): a call has seen every table in
  force since it began. CallsParts shows that a behaviour of MCCalls is one of each
  part, which gives CallsTypes.
- `TriggersProofs`. TgInv: while a request adds or deletes a trigger, the stored record
  is what that request left there (Held), and it is alone with it unless the trigger
  was deleted from a copy read too early, by a request or by a removal of the function
  that had listed it (`torn`, Alone); a copy such a removal has still to work from
  names the job of the record, if that is still there (Listed). Hence the job in the copy is
  the job in the record when a deletion stops it, no job is left when the record goes,
  and a key that is dropped has its clean-up ahead (UrlKept). HeardOf counts: without
  failures, the listeners and the subscriptions are exactly the S3 triggers with a key
  or with a request between the two; the statement that both are above zero is not
  inductive without the counts.

Assumptions on constants, beyond the bounds being numbers: sets that are counted
are finite (ObjectsAssumption, UploadAssumption, RateAssumption, ScalerAssumption,
PodsAssumption, PkSetsAssumption, WsAssumption, CsAssumption, TgAssumption,
DqAssumption, SuAssumption, SlAssumption); a value for
"nothing" or "nobody" is not one of the things themselves (ObjectsAssumption,
UploadAssumption, PodsAssumption, WdAssumption, AcAssumption, MwAssumption,
RoutersAssumption, CsAssumption, TgAssumption, UsAssumption); a structure more than
pods (PodsAssumption); the goroutines that push, remove or attach are goroutines
(FnAssumption); the lists of a deployment are sequences of names, of which one kind's
are not another's (DpAssumption). The code keeps kinds apart by the collection they
are stored in. Calls and replicas fit the counter (ScalerAssumption), and no object is
larger than the largest int64, which is what its size is kept in (SrAssumption). A
packet holds more than one byte (XqChunkAssumption; the code has 1024). Two theorems assume
more, by name in their statement: RateIsHeld Modest, SourcesAreKept OneLife.

Only model-checked: every liveness property, since TLAPS has no fairness and ENABLED is
out of its reach.

## 6. Statements the code does not meet

The four violation runs are in section 4. Other statements are kept in the
modules because they say what one would expect; each fails, and is shown by the
constants given (others as in the module's run):

- `FnLife` VersionGrows: two pushers (`Pushers = {w1, w2}`, MaxReqs 2): both read
  one version, and the later save may take it back.
- `FnLife` SourcesKept, with two pushers that overlap or with a second addition beside
  what is left of the first: the record may name a version that another one dropped.
- `FnLife` DeployedIsRecorded: a push beside an attachment; the deployment is
  updated from the copy without the new version. `Accounts` names the same for the
  environment (`acblame` "env").
- `FnLife` ReadyIsDeployed: a killed pod's successor comes up beside a deactivation
  and sets the state back to ready.
- `FnLife` EarlyAddCleanedOut: a restart after `Add` inserted the record and before it
  put the sources: `removeSources` fails on the missing directory, and so does
  every later start of the gate.
- `FnLife` StartEnds with two togglers and a restart. A gate that dies between
  a deactivation's state and `k8sRemove` leaves a deployment that `Del` trusts the
  state not to exist: OrphanOnlyByRace counts it among its exceptions. A failed
  put of sources may leave a directory.
- `FnPods` NoPanic: a call that lists a structure between `LoadOrStore` and its
  first pod gets an empty list, not nil, and divides by zero. In `Scaler` such a
  call is `lost`: it was counted in and never out, so the goal stays too high. A
  list read before a pod's removal and cached after the flush keeps the gone pod
  until the next pod event; a pod that goes down between the answer of its port
  and `podsAdd` is added for good.
- `Scaler` NoShrinkUnderLoad: `docs/sysctls.txt` says of the scale-down "if the load
  still requires big nr of replicas, no actual scale-down happens"; two calls that
  keep running do not keep two replicas, as only new calls raise the goal. A scaler
  stopped by `goal = 0` anywhere but at the label `down` leaves `wakeup` set: after the
  next activation calls raise the goal and signal nobody. A failed call of
  Kubernetes is taken for success. A scale-up that meets a removal and the next
  activation within one call of Kubernetes leaves the replicas up.
- `S3Objects` LiveHasData: with a copier whose source is deleted (Copiers = Workers,
  MaxDeletes 1), or one error: `WriteChunks` declares a second `err` in its loop
  (data.go:117), so a chunk that was not stored is no error. RepairedCount: a restart
  inside a deletion.
- `S3Upload` CommittedIntact with one error and a retry; OnePartPerNumber when a part
  number is uploaded twice.
- `Triggers` CleanedUrlStays: the comment at event.go:230 says that the clean-up gets
  everyone who had found the trigger; a call that read the record before and stores
  the URL afterwards keeps it. `Routers` has the same (`rlate`).
- `WebSock` DelFindsList ("Shouldn't happen", mw-websocket.go:119): the list is gone
  when the middleware was removed under its clients. A client of a removed list
  deletes by its number from the next list of the same cookie.

What the models had to take over from the code, without a statement of their own:

- Middleware, functions and repositories are counted for the limits by a field that
  no document has (`"tenant"` for `"tennant"`, db.go): the count is always 0 (MwCount).
- `pkgLimitGap` is shifted as if its unit were another (packages.go:98, 117).
- `delAll` (handlers.go) answers success when an object could not be deleted, so a
  user is deleted and its functions stay (ProjectDel of `Users`).
- Adding a user that exists deletes that user's limits (admd/main.go:768); a failed
  generation of a key deletes the account other keys use (s3/keys.go:141); a request
  whose identity is gone ends in a panic (s3/main.go:226).
- RabbitMQ's `Init` leaves user and host behind when a later statement fails.
- The scraper goes on and moves the offset when the insert of the snapshot failed
  (scrapers/s3/main.go:149), and the older snapshot that is still dirty is applied
  again after it.
- A connection that took the entry of a rate before it expired blocks for ever
  (mgo/ratelimit.go:139); MariaDB's decoder asks for a length without the header
  (maria/request.go:70).
- Two overlapping removals of a function: one waits for ever for its flusher.
- The timer's signal of `xwait` is sent without the lock and is lost if it comes before
  the wait, when next to no time is left (xwait.go:85).
- Messages of a multiple of 1024 bytes: Python neither pads nor strips, Ruby neither,
  C# reads one packet. A zero byte at the end of other messages is taken for padding.
- Listing: a `start-after` that is no key, and a token whose key was deleted between
  pages, give an empty rest; a key with the delimiter right behind the prefix is
  left out; the prefix goes into a regular expression as it is.
- `ParseRange` adds one to the last position, which overflows at the largest int64;
  `SrMaxPos` stays below. It does not know a tail (`bytes=-n`) nor several ranges, which
  are refused though they name bytes (common/http/main.go:215).
- A cron trigger whose tab does not parse is stored (the error of `start` is not looked
  at, event.go:213), and every later start of the gate fails on it (cron.go:87).
- A pull whose `gitCommit` fails answers that all is well, and leaves the moved clone
  ahead of record and functions (repo.go:664).
- `dbTCacheFlushList` drops its error, and a package list that was not flushed is served
  until the next flush (packages.go:125, db.go:461).
- `POST /` on the S3 daemon gives the size and the number of objects of any bucket of
  the account to any of its keys, as no policy is asked (s3/handlers.go:211).
- A deployment's goroutines share the variable of `DeployInit`'s loop (deploy.go).

## 7. Not modelled

- A try-run, which has a runner of its own in the watchdog (`handleTry`, which also
  stops a runner that may be nil, wdog/main.go:151); what a build does.
- The second half of `GCOldSources` with the directories; the fields of a function
  that are a single write (environment, size, user data); labels.
- Lazy reads of a tenant's limits from `admd`, and changes of settings at run time.
- Bucket creation (one insert), setting limits, download formats, signatures,
  presigned URLs, error tables, name maps.
- `mquotad`, whose lock and unlock are marked FIXME and do nothing; `xtimer`, which has
  no user; `pgrest`, which runs statements of an external server; `tools`, whose
  `s3-fsck` is what FsckClean says; API types, configuration, logging, tracing,
  Prometheus.
- External servers (MongoDB, Kubernetes, Ceph, Keystone, RabbitMQ, MariaDB, GitHub)
  beyond what the calls see; a single MongoDB operation is atomic.
- Rovers of more than 2^32 calls. Web sockets and Postgres middleware are modelled
  though this build has the types disabled.
