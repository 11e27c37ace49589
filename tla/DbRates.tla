------------------------------ MODULE DbRates ------------------------------
(***************************************************************************)
(* The rate limits of the Mongo proxy (proxies/mgo/ratelimit.go) for one   *)
(* database: the record of its rate is cached in an entry with a channel,  *)
(* and a goroutine reads the channel once per delay.  After a while a      *)
(* timer takes the entry out of the cache and then tells its goroutine to  *)
(* end; an entry without a rate has neither and stays.                     *)
(***************************************************************************)
EXTENDS Integers, FiniteSets, FiniteSetsExt

CONSTANTS
    DrConns,       \* connections
    DrMaxEntries,  \* bound on the entries made
    DrMaxPass      \* bound on the requests passed

ASSUME DrAssumption == DrMaxEntries \in Nat /\ DrMaxPass \in Nat

VARIABLES
    drrate,    \* is there a rate in the database of the proxy?
    drcache,   \* the cached entry, 0 for none
    drent,     \* the entries: rate, goroutine (lim), timer (tmr)
    drc,       \* connections: label, the entry they have, the rate they read
    drpassed,  \* requests that passed a channel
    drslept    \* delays that are over

drVars == <<drrate, drcache, drent, drc, drpassed, drslept>>

DrEntry == 1 .. DrMaxEntries
Unmade == [rate |-> FALSE, lim |-> "none", tmr |-> "none"]
Idle == [pc |-> "idle", e |-> 0, rate |-> FALSE]

DrTypeOK ==
    /\ drrate \in BOOLEAN /\ drcache \in 0 .. DrMaxEntries
    /\ drent \in [DrEntry -> [rate : BOOLEAN, lim : {"none", "wait", "sleep", "end"},
                              tmr : {"none", "armed", "stop", "done"}]]
    /\ drc \in [DrConns -> [pc : {"idle", "read", "store", "send"}, e : 0 .. DrMaxEntries, rate : BOOLEAN]]
    /\ drpassed \in 0 .. DrMaxPass /\ drslept \in 0 .. DrMaxPass

DrInit ==
    /\ drrate = FALSE /\ drcache = 0 /\ drent = [e \in DrEntry |-> Unmade]
    /\ drc = [k \in DrConns |-> Idle] /\ drpassed = 0 /\ drslept = 0

Made == {e \in DrEntry : drent[e].tmr # "none"}

-----------------------------------------------------------------------------
\* Somebody writes the record of the rate (the code of src/ only reads it)
DrSetRate ==
    /\ ~drrate /\ drrate' = TRUE
    /\ UNCHANGED <<drcache, drent, drc, drpassed, drslept>>

\* What a connection does with the entry it has: without a rate it passes
With(k, e) ==
    drc' = [drc EXCEPT ![k] = IF drent'[e].rate THEN [Idle EXCEPT !.pc = "send", !.e = e] ELSE Idle]

\* request and the first lookup of getDbRates
DrLoad(k) ==
    /\ drc[k].pc = "idle" /\ drpassed < DrMaxPass
    /\ UNCHANGED drent
    /\ IF drcache # 0 THEN With(k, drcache) ELSE drc' = [drc EXCEPT ![k].pc = "read"]
    /\ UNCHANGED <<drrate, drcache, drpassed, drslept>>

\* The record; a database that does not answer lets the request pass
DrRead(k) ==
    /\ drc[k].pc = "read"
    /\ \/ drc' = [drc EXCEPT ![k] = [Idle EXCEPT !.pc = "store", !.rate = drrate]]
       \/ drc' = [drc EXCEPT ![k] = Idle]
    /\ UNCHANGED <<drrate, drcache, drent, drpassed, drslept>>

NewEntry(e, rate) ==
    drent' = [drent EXCEPT ![e] =
                [rate |-> rate, lim |-> IF rate THEN "wait" ELSE "end", tmr |-> IF rate THEN "armed" ELSE "done"]]

\* LoadOrStore: the one that stores starts the goroutine and the timer
DrStore(k) ==
    /\ drc[k].pc = "store"
    /\ \/ drcache # 0 /\ UNCHANGED <<drcache, drent>> /\ With(k, drcache)
       \/ \E e \in DrEntry :
            /\ drcache = 0 /\ e = Cardinality(Made) + 1
            /\ drcache' = e /\ NewEntry(e, drc[k].rate) /\ With(k, e)
    /\ UNCHANGED <<drrate, drpassed, drslept>>

\* q <- true meets the goroutine's <-r.q
DrPass(k) ==
    /\ drc[k].pc = "send" /\ drent[drc[k].e].lim = "wait" /\ drpassed < DrMaxPass
    /\ drent' = [drent EXCEPT ![drc[k].e].lim = "sleep"]
    /\ drc' = [drc EXCEPT ![k] = Idle] /\ drpassed' = drpassed + 1
    /\ UNCHANGED <<drrate, drcache, drslept>>

\* time.Sleep(delay)
DrWake(e) ==
    /\ drent[e].lim = "sleep" /\ drent' = [drent EXCEPT ![e].lim = "wait"]
    /\ drslept' = drslept + 1
    /\ UNCHANGED <<drrate, drcache, drc, drpassed>>

\* The timer: rates.Delete ...
DrExpire(e) ==
    /\ drent[e].tmr = "armed" /\ drcache' = 0
    /\ drent' = [drent EXCEPT ![e].tmr = "stop"]
    /\ UNCHANGED <<drrate, drc, drpassed, drslept>>

\* ... and r.q <- false, which the goroutine takes between two delays
DrStop(e) ==
    /\ drent[e].tmr = "stop" /\ drent[e].lim = "wait"
    /\ drent' = [drent EXCEPT ![e].tmr = "done", ![e].lim = "end"]
    /\ UNCHANGED <<drrate, drcache, drc, drpassed, drslept>>

DrNext ==
    \/ DrSetRate
    \/ \E k \in DrConns : DrLoad(k) \/ DrRead(k) \/ DrStore(k) \/ DrPass(k)
    \/ \E e \in DrEntry : DrWake(e) \/ DrExpire(e) \/ DrStop(e)

DrSpec == DrInit /\ [][DrNext]_drVars

-----------------------------------------------------------------------------
\* The database is never asked faster than its rate: every request that passed a
\* channel had to wait for a delay, but for the first one of every entry, and an
\* entry is replaced only when its time is over.  (Two connections that miss the
\* cache together must not start two goroutines.)
RatePaced ==
    drpassed <= 1 + drslept + Cardinality({e \in Made : drent[e].rate /\ drent[e].tmr \in {"stop", "done"}})

\* An entry that connections find in the cache has a goroutine that will read its
\* channel: only those that took it before it expired can be left blocked.
CachedIsServed ==
    drcache # 0 /\ drent[drcache].rate => drent[drcache].lim \in {"wait", "sleep"}
=============================================================================
