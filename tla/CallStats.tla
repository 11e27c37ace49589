----------------------------- MODULE CallStats -----------------------------
(***************************************************************************)
(* The counters of calls (gate/stats.go): one function and its tenant.     *)
(* Each keeps its counter in memory (fdmdat.go), with a copy of what the   *)
(* database has; a flusher of each wakes up now and then and asks the      *)
(* writer of the gate to add the difference.  The scraper                  *)
(* (scrapers/gate/main.go) snapshots the tenant's record, and the limits   *)
(* of the tenant count from the last snapshot.  A removal of the function  *)
(* stops its flusher, archives the counter and removes the record.  A      *)
(* write that fails had no effect; calls and traffic are one counter.      *)
(***************************************************************************)
EXTENDS Integers, Sequences, FiniteSets

CONSTANTS
    CsWorkers,      \* requests at a time, calls and removals
    CsLimit,        \* the tenant's limit for a period
    CsMaxCalls,     \* bound on the calls
    CsMaxFaults,    \* bound on failing calls of the database and deaths of the gate
    CsMaxArch,      \* bound on the snapshots
    NotThere        \* no memory data


VARIABLES
    csdb,      \* the records of the function ("fn") and the tenant ("ten")
    csm,       \* the memory data of each
    csoff,     \* the snapshot the limits count from
    cswriter,  \* what the writer writes
    csw,       \* the requests
    csarch,    \* snapshots of the tenant
    cssnap,    \* what the scraper read
    csfnarch,  \* the archived counters of the function
    csgone,    \* is the function removed?
    csn,       \* counters: calls served, faults, restarts
    csghost    \* over: two removals overlapped; late: memory data made after the removal;
               \* lost: a write failed since the last one of each

csVars == <<csdb, csm, csoff, cswriter, csw, csarch, cssnap, csfnarch, csgone, csn, csghost>>

Counters == {"fn", "ten"}
Count == 0 .. CsMaxCalls
CsData == [mem : Count, disk : Count, dirty : BOOLEAN, fl : {"sleep", "ask", "flush", "closed"}]

ASSUME CsAssumption == /\ CsLimit \in Nat /\ CsMaxCalls \in Nat /\ CsMaxFaults \in Nat
                       /\ CsMaxArch \in Nat /\ IsFiniteSet(CsWorkers) /\ NotThere \notin CsData

NoWrite == [of |-> "none", now |-> 0, disk |-> 0]
CsIdle == [pc |-> "idle", op |-> "call", fn |-> 0, ten |-> 0, off |-> 0, old |-> FALSE]
CsLast == IF csarch = << >> THEN 0 ELSE csarch[Len(csarch)]

CsTypeOK ==
    /\ csdb \in [Counters -> Count] /\ csoff \in Count /\ csgone \in BOOLEAN
    /\ csm \in [Counters -> CsData \cup {NotThere}]
    /\ cswriter \in [of : Counters \cup {"none"}, now : Count, disk : Count]
    /\ \A w \in CsWorkers : csw[w].pc \in {"idle", "ten", "off", "tstore", "fstore", "have", "run", "dirty",
                                           "tcount", "tdirty", "send", "arch", "remove", "last"}
    /\ cssnap \in Count \cup {-1}
    /\ \A i \in DOMAIN csarch : csarch[i] \in Count

CsInit ==
    /\ csdb = [k \in Counters |-> 0] /\ csm = [k \in Counters |-> NotThere] /\ csoff = 0
    /\ cswriter = NoWrite /\ csw = [w \in CsWorkers |-> CsIdle]
    /\ csarch = << >> /\ cssnap = -1 /\ csfnarch = << >> /\ csgone = FALSE
    /\ csn = [calls |-> 0, faults |-> 0, restarts |-> 0]
    /\ csghost = [over |-> FALSE, late |-> FALSE, lost |-> [k \in Counters |-> FALSE]]

-----------------------------------------------------------------------------
CsGoes(w, pc) == csw' = [csw EXCEPT ![w].pc = pc]
CsEnds(w) == csw' = [csw EXCEPT ![w] = CsIdle]
CsFault == csn.faults + csn.restarts < CsMaxFaults /\ csn' = [csn EXCEPT !.faults = @ + 1]
\* what stats.Init makes of the record it read
CsFresh(n) == [mem |-> n, disk |-> n, dirty |-> FALSE, fl |-> "sleep"]

\* fndatGetOrInit: the data is there, or FnStats.Init reads the record, and
\* tendatGetOrInit looks for the tenant's
CsEnter(w) ==
    /\ csw[w].pc = "idle" /\ ~csgone
    /\ \E op \in {"call", "drop"} :
         /\ op = "call" => csn.calls < CsMaxCalls
         /\ csw' = [csw EXCEPT ![w] = [CsIdle EXCEPT !.op = op, !.fn = IF csm["fn"] # NotThere THEN 0 ELSE csdb["fn"],
                        !.pc = IF csm["fn"] # NotThere THEN "have"
                               ELSE IF csm["ten"] # NotThere THEN "fstore" ELSE "ten"]]
         /\ csghost' = [csghost EXCEPT !.over = @ \/ (op = "drop" /\ \E v \in CsWorkers :
                                                        csw[v].pc # "idle" /\ csw[v].op = "drop")]
    /\ UNCHANGED <<csdb, csm, csoff, cswriter, csarch, cssnap, csfnarch, csgone, csn>>

\* tendatGetOrInit: TenStats.Init ...
CsTenRead(w) ==
    /\ csw[w].pc = "ten"
    /\ \/ csw' = [csw EXCEPT ![w].pc = "off", ![w].ten = csdb["ten"]] /\ UNCHANGED csn
       \/ CsFault /\ CsEnds(w)
    /\ UNCHANGED <<csdb, csm, csoff, cswriter, csarch, cssnap, csfnarch, csgone, csghost>>

\* ... dbTenStatsGetLatestArch ...
CsTenOff(w) ==
    /\ csw[w].pc = "off"
    /\ \/ csw' = [csw EXCEPT ![w].pc = "tstore", ![w].off = CsLast] /\ UNCHANGED csn
       \/ CsFault /\ CsEnds(w)
    /\ UNCHANGED <<csdb, csm, csoff, cswriter, csarch, cssnap, csfnarch, csgone, csghost>>

\* ... LoadOrStore: who comes first starts the flusher
CsTenStore(w) ==
    /\ csw[w].pc = "tstore" /\ CsGoes(w, "fstore")
    /\ IF csm["ten"] # NotThere THEN UNCHANGED <<csm, csoff>>
       ELSE csm' = [csm EXCEPT !["ten"] = CsFresh(csw[w].ten)] /\ csoff' = csw[w].off
    /\ UNCHANGED <<csdb, cswriter, csarch, cssnap, csfnarch, csgone, csn, csghost>>

\* the LoadOrStore of fndatGetOrInit
CsFnStore(w) ==
    /\ csw[w].pc = "fstore"
    /\ csw' = [csw EXCEPT ![w] = [CsIdle EXCEPT !.pc = "have", !.op = csw[w].op]]
    /\ IF csm["fn"] # NotThere THEN UNCHANGED <<csm, csghost>>
       ELSE csm' = [csm EXCEPT !["fn"] = CsFresh(csw[w].fn)]
            /\ csghost' = [csghost EXCEPT !.late = @ \/ csgone]
    /\ UNCHANGED <<csdb, csoff, cswriter, csarch, cssnap, csfnarch, csgone, csn>>

\* setupLimits by the goroutine of tendatGetOrInit, every TenantLimitsUpdPeriod
CsSetupLimits ==
    /\ csm["ten"] # NotThere /\ csoff # CsLast /\ csoff' = CsLast
    /\ UNCHANGED <<csdb, csm, cswriter, csw, csarch, cssnap, csfnarch, csgone, csn, csghost>>

-----------------------------------------------------------------------------
\* rslimited: the counter of the tenant since the snapshot
CsLimited == csm["ten"].mem - csoff > CsLimit

\* Handle: the call is refused, fails in the pod, or goes on
CsCall(w) ==
    /\ csw[w].pc = "have" /\ csw[w].op = "call"
    /\ IF CsLimited \/ csn.calls = CsMaxCalls THEN CsEnds(w) /\ UNCHANGED csn
       ELSE CsGoes(w, "run") /\ csn' = [csn EXCEPT !.calls = @ + 1]
    /\ UNCHANGED <<csdb, csm, csoff, cswriter, csarch, cssnap, csfnarch, csgone, csghost>>

\* statsUpdate: the function's counter, under its lock; a request that has the data
\* of before the removal counts there, for nobody
CsCount(w) ==
    /\ csw[w].pc = "run" /\ CsGoes(w, "dirty")
    /\ csm' = IF csw[w].old THEN csm ELSE [csm EXCEPT !["fn"].mem = @ + 1]
    /\ UNCHANGED <<csdb, csoff, cswriter, csarch, cssnap, csfnarch, csgone, csn, csghost>>

\* Dirty, and the tenant's counter under its lock
CsDirty(w) ==
    /\ csw[w].pc = "dirty" /\ CsGoes(w, "tcount")
    /\ csm' = IF csw[w].old THEN csm ELSE [csm EXCEPT !["fn"].dirty = TRUE]
    /\ UNCHANGED <<csdb, csoff, cswriter, csarch, cssnap, csfnarch, csgone, csn, csghost>>

CsTenCount(w) ==
    /\ csw[w].pc = "tcount" /\ CsGoes(w, "tdirty")
    /\ csm' = [csm EXCEPT !["ten"].mem = @ + 1]
    /\ UNCHANGED <<csdb, csoff, cswriter, csarch, cssnap, csfnarch, csgone, csn, csghost>>

CsTenDirty(w) ==
    /\ csw[w].pc = "tdirty" /\ CsEnds(w)
    /\ csm' = [csm EXCEPT !["ten"].dirty = TRUE]
    /\ UNCHANGED <<csdb, csoff, cswriter, csarch, cssnap, csfnarch, csgone, csn, csghost>>

-----------------------------------------------------------------------------
\* statsFlush.Start after statsFlushPeriod: the flag is cleared before the write
CsTick(k) ==
    /\ csm[k] # NotThere /\ csm[k].fl = "sleep" /\ csm[k].dirty
    /\ csm' = [csm EXCEPT ![k].fl = "ask", ![k].dirty = FALSE]
    /\ UNCHANGED <<csdb, csoff, cswriter, csw, csarch, cssnap, csfnarch, csgone, csn, csghost>>

\* statsInit: the writer takes a request, and Write the values of now and the copy
CsTake(k) ==
    /\ cswriter = NoWrite /\ csm[k] # NotThere /\ csm[k].fl = "ask"
    /\ cswriter' = [of |-> k, now |-> csm[k].mem, disk |-> csm[k].disk]
    /\ csm' = [csm EXCEPT ![k].fl = "flush"]
    /\ UNCHANGED <<csdb, csoff, csw, csarch, cssnap, csfnarch, csgone, csn, csghost>>

CsAwake_Clears(d) ==
    LET k == cswriter.of IN
      csm' = IF csm[k] = NotThere \/ csm[k].fl # "flush" THEN csm
             ELSE [csm EXCEPT ![k].fl = "sleep", ![k].disk = d, ![k].dirty = FALSE]

\* The flusher of the data that was written goes on, with d in the database; of
\* data a second removal dropped meanwhile nobody sees more
CsAwake(d) ==
    LET k == cswriter.of IN
      csm' = IF csm[k] = NotThere \/ csm[k].fl # "flush" THEN csm
             ELSE [csm EXCEPT ![k].fl = "sleep", ![k].disk = d]

\* FnStats.Write, TenStats.Write and dbFnStatsUpdate, dbTenStatsUpdate: the
\* difference is added ($inc, by an upsert), and the copy moves when it went well
CsWrite ==
    /\ cswriter # NoWrite /\ cswriter' = NoWrite
    /\ LET k == cswriter.of IN
         \/ /\ csdb' = [csdb EXCEPT ![k] = @ + cswriter.now - cswriter.disk]
            /\ CsAwake(cswriter.now)
            /\ csghost' = [csghost EXCEPT !.lost[k] = FALSE] /\ UNCHANGED csn
         \/ /\ CsFault /\ CsAwake(cswriter.disk)
            /\ csghost' = [csghost EXCEPT !.lost[k] = TRUE] /\ UNCHANGED csdb
    /\ UNCHANGED <<csoff, csw, csarch, cssnap, csfnarch, csgone>>

-----------------------------------------------------------------------------
\* statsDrop: a flusher that is closed is not stopped again
CsClosed(w) ==
    /\ csw[w].pc = "have" /\ csw[w].op = "drop"
    /\ CsGoes(w, IF csw[w].old \/ csm["fn"].fl = "closed" THEN "arch" ELSE "send")
    /\ UNCHANGED <<csdb, csm, csoff, cswriter, csarch, cssnap, csfnarch, csgone, csn, csghost>>

\* Stop: the flusher takes the message when it is not flushing, and ends
CsStop(w) ==
    /\ csw[w].pc = "send" /\ ~csw[w].old /\ csm["fn"].fl = "sleep" /\ CsGoes(w, "arch")
    /\ csm' = [csm EXCEPT !["fn"].fl = "closed"]
    /\ UNCHANGED <<csdb, csoff, cswriter, csarch, cssnap, csfnarch, csgone, csn, csghost>>

\* dbFnStatsDrop: the archive, unless nothing was called ...
CsDropArch(w) ==
    /\ csw[w].pc = "arch"
    /\ \/ /\ CsGoes(w, "remove") /\ UNCHANGED csn
          /\ csfnarch' = IF csw[w].old \/ csm["fn"].mem = 0 THEN csfnarch ELSE Append(csfnarch, csm["fn"].mem)
       \/ CsFault /\ CsEnds(w) /\ UNCHANGED csfnarch
    /\ UNCHANGED <<csdb, csm, csoff, cswriter, csarch, cssnap, csgone, csghost>>

\* ... and the record
CsDropRemove(w) ==
    /\ csw[w].pc = "remove"
    /\ \/ CsGoes(w, "last") /\ csdb' = [csdb EXCEPT !["fn"] = 0] /\ UNCHANGED csn
       \/ CsFault /\ CsEnds(w) /\ UNCHANGED csdb
    /\ UNCHANGED <<csm, csoff, cswriter, csarch, cssnap, csfnarch, csgone, csghost>>

\* The rest of Del: logs and sources, where it may fail; memdGone and dbRemove
CsGone(w) ==
    /\ csw[w].pc = "last"
    /\ \/ /\ csm' = [csm EXCEPT !["fn"] = NotThere] /\ csgone' = TRUE /\ UNCHANGED csn
          /\ csw' = [v \in CsWorkers |-> IF v = w THEN CsIdle
                        ELSE [csw[v] EXCEPT !.old = csw[v].pc \notin {"idle", "ten", "off", "tstore", "fstore"}]]
       \/ CsFault /\ CsEnds(w) /\ UNCHANGED <<csm, csgone>>
    /\ UNCHANGED <<csdb, csoff, cswriter, csarch, cssnap, csfnarch, csghost>>

-----------------------------------------------------------------------------
\* doArchPass of the scraper: the record of the tenant ...
CsScrape ==
    /\ cssnap = -1 /\ Len(csarch) < CsMaxArch /\ csdb["ten"] > 0 /\ cssnap' = csdb["ten"]
    /\ UNCHANGED <<csdb, csm, csoff, cswriter, csw, csarch, csfnarch, csgone, csn, csghost>>

\* ... goes to the archive, when the period is over and the insert goes well
CsArchive ==
    /\ cssnap # -1 /\ cssnap' = -1
    /\ csarch' \in {csarch, Append(csarch, cssnap)}
    /\ UNCHANGED <<csdb, csm, csoff, cswriter, csw, csfnarch, csgone, csn, csghost>>

\* The gate dies: memory and requests are lost
CsRestart ==
    /\ csn.faults + csn.restarts < CsMaxFaults /\ csn' = [csn EXCEPT !.restarts = @ + 1]
    /\ csm' = [k \in Counters |-> NotThere] /\ csoff' = 0 /\ cswriter' = NoWrite
    /\ csw' = [w \in CsWorkers |-> CsIdle]
    /\ csghost' = [csghost EXCEPT !.over = FALSE, !.lost = [k \in Counters |-> FALSE]]
    /\ UNCHANGED <<csdb, csarch, cssnap, csfnarch, csgone>>

CsFlush(k) == CsTick(k) \/ CsTake(k)
CsRequest(w) ==
    \/ CsEnter(w) \/ CsTenRead(w) \/ CsTenOff(w) \/ CsTenStore(w) \/ CsFnStore(w)
    \/ CsCall(w) \/ CsCount(w) \/ CsDirty(w) \/ CsTenCount(w) \/ CsTenDirty(w)
    \/ CsClosed(w) \/ CsStop(w) \/ CsDropArch(w) \/ CsDropRemove(w) \/ CsGone(w)

CsNext ==
    \/ \E w \in CsWorkers : CsRequest(w)
    \/ \E k \in Counters : CsFlush(k)
    \/ CsWrite \/ CsSetupLimits \/ CsScrape \/ CsArchive \/ CsRestart

CsSpec == CsInit /\ [][CsNext]_csVars

-----------------------------------------------------------------------------
\* A counter whose flag is clear, whose flusher sleeps and whose last write went
\* well is in the database, and no request is about to raise the flag: the flag
\* that is cleared before the values are read (stats.go, Start) loses no call.
\* Memory data made after the removal (late) may start from the record removed.
CleanIsFlushed ==
    \A k \in Counters :
        /\ csm[k] # NotThere /\ csm[k].fl = "sleep" /\ ~csm[k].dirty
        /\ ~csghost.lost[k] /\ ~csghost.late
        /\ \A w \in CsWorkers : csw[w].pc # (IF k = "fn" THEN "dirty" ELSE "tdirty")
        => csdb[k] = csm[k].mem

\* No call is counted twice: what the database has of the tenant is at most the
\* calls served, over failed writes, which leave their difference for the next
\* one, and over restarts.
CountedOnce == csdb["ten"] <= csn.calls

\* The periods getCallStats computes as differences of unsigned counters, from
\* snapshot to snapshot and to the counter in memory, are never negative, and
\* neither is what rslimited compares with the limit: a snapshot is never ahead
\* of the counter, not when the data of the tenant is made twice at a time either.
PeriodsNotNegative ==
    /\ \A i \in 2 .. Len(csarch) : csarch[i - 1] <= csarch[i]
    /\ csm["ten"] # NotThere => csoff <= CsLast /\ CsLast <= csm["ten"].mem

\* A tenant goes over the limit of a period by the calls that were admitted at the
\* same time and one: rslimited looks at the counter before a call, statsUpdate
\* raises it after.
OverLimitBounded ==
    csm["ten"] # NotThere => csm["ten"].mem - csoff <= CsLimit + 1 + (Cardinality(CsWorkers) - 1)

\* The record of a removed function does not come back: Stop waits for the flush
\* in progress before the record is removed, so no upsert follows.  The exception
\* is a request that makes new memory data after the removal.
DroppedStaysDropped == csgone /\ ~csghost.late => csdb["fn"] = 0

\* A removal waits for a flusher that has ended, for ever, only when two removals
\* of the function overlapped: both see it running, and it takes one message.
StopIsHeard ==
    \A w \in CsWorkers :
        csw[w].pc = "send" => csw[w].old \/ csm["fn"].fl # "closed" \/ csghost.over

\* Calls are counted once and for good: in memory, in the database, in the archive
\* and against the limit (stats.go, fdmdat.go, the gate's scraper).
StatsSound ==
    /\ CleanIsFlushed /\ CountedOnce /\ PeriodsNotNegative
    /\ OverLimitBounded /\ DroppedStaysDropped /\ StopIsHeard
=============================================================================
