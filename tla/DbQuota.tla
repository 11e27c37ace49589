------------------------------ MODULE DbQuota ------------------------------
(***************************************************************************)
(* The quota module of the Mongo proxy (proxies/mgo/quota.go) for one      *)
(* database: connections refuse growing requests while the database is     *)
(* locked; every quotaCheckThresh-th of them asks one goroutine to compare *)
(* the size with the quota, and another one asks the same, once in a       *)
(* while, for locked databases.  The proxy of MariaDB counts and asks the  *)
(* same way, but its check only logs what it finds.                        *)
(***************************************************************************)
EXTENDS Integers, FiniteSets

CONSTANTS
    DqConns,     \* connections
    DqThresh,    \* quotaCheckThresh
    DqLimit,     \* the quota, in documents
    DqMaxSize,   \* bound on the size
    DqMaxFaults  \* bound on failing checks

ASSUME DqAssumption ==
    /\ DqThresh \in Nat \ {0} /\ DqLimit \in Nat /\ DqMaxSize \in Nat
    /\ DqMaxFaults \in Nat /\ IsFiniteSet(DqConns)

VARIABLES
    dqsize,     \* documents in the database
    dqcount,    \* qs.check, modulo the threshold
    dqlocked,   \* qs.locked
    dqc,        \* connections: idle, ask (blocked at cheq), fwd
    dqscan,     \* the scanner: sleep, ask
    dqcheck,    \* the checker: label, rq.locked, what it found
    dqfaults

dqVars == <<dqsize, dqcount, dqlocked, dqc, dqscan, dqcheck, dqfaults>>

NoCheck == [pc |-> "idle", was |-> FALSE, over |-> FALSE]

DqTypeOK ==
    /\ dqsize \in 0 .. DqMaxSize /\ dqcount \in 0 .. DqThresh - 1 /\ dqlocked \in BOOLEAN
    /\ dqc \in [DqConns -> {"idle", "ask", "fwd"}] /\ dqscan \in {"sleep", "ask"}
    /\ dqcheck \in [pc : {"idle", "stat", "set"}, was : BOOLEAN, over : BOOLEAN]

DqInit ==
    /\ dqsize = 0 /\ dqcount = 0 /\ dqlocked = FALSE
    /\ dqc = [k \in DqConns |-> "idle"] /\ dqscan = "sleep"
    /\ dqcheck = NoCheck /\ dqfaults = 0

-----------------------------------------------------------------------------
DqRequest_CountsLate(k) ==
    /\ dqc[k] = "idle" /\ ~dqlocked
    /\ dqc' = [dqc EXCEPT ![k] = "fwd"]
    /\ UNCHANGED <<dqsize, dqcount, dqlocked, dqscan, dqcheck, dqfaults>>

\* request and quotaLocked of an insert or an update.  A refused one ends the
\* connection, and the client comes again.
DqRequest(k) ==
    /\ dqc[k] = "idle" /\ ~dqlocked
    /\ dqcount' = (dqcount + 1) % DqThresh
    /\ dqc' = [dqc EXCEPT ![k] = IF dqcount' = 0 THEN "ask" ELSE "fwd"]
    /\ UNCHANGED <<dqsize, dqlocked, dqscan, dqcheck, dqfaults>>

\* cheq <- : the checker takes it when it has nothing else to do
DqAsk(k) ==
    /\ dqc[k] = "ask" /\ dqcheck.pc = "idle"
    /\ dqcheck' = [NoCheck EXCEPT !.pc = "stat"]
    /\ dqc' = [dqc EXCEPT ![k] = "fwd"]
    /\ UNCHANGED <<dqsize, dqcount, dqlocked, dqscan, dqfaults>>

\* The server executes it
DqGrow(k) ==
    /\ dqc[k] = "fwd" /\ dqsize < DqMaxSize /\ dqsize' = dqsize + 1
    /\ dqc' = [dqc EXCEPT ![k] = "idle"]
    /\ UNCHANGED <<dqcount, dqlocked, dqscan, dqcheck, dqfaults>>

\* Other requests (delete, drop) are never refused
DqShrink ==
    /\ dqsize > 0 /\ dqsize' = dqsize - 1
    /\ UNCHANGED <<dqcount, dqlocked, dqc, dqscan, dqcheck, dqfaults>>

\* The scanner, once in unlockScanPeriod
DqScan ==
    /\ dqscan = "sleep" /\ dqlocked /\ dqscan' = "ask"
    /\ UNCHANGED <<dqsize, dqcount, dqlocked, dqc, dqcheck, dqfaults>>

DqScanAsk ==
    /\ dqscan = "ask" /\ dqcheck.pc = "idle" /\ dqscan' = "sleep"
    /\ dqcheck' = [NoCheck EXCEPT !.pc = "stat", !.was = TRUE]
    /\ UNCHANGED <<dqsize, dqcount, dqlocked, dqc, dqfaults>>

\* quotaCheckDB: dbStats, whose error ends the check, and quotaExceeded: when it
\* cannot read the quota's record there is none
DqStat ==
    /\ dqcheck.pc = "stat"
    /\ \/ dqcheck' = [dqcheck EXCEPT !.pc = "set", !.over = dqsize > DqLimit] /\ UNCHANGED dqfaults
       \/ /\ dqfaults < DqMaxFaults /\ dqfaults' = dqfaults + 1
          /\ dqcheck' \in {NoCheck, [dqcheck EXCEPT !.pc = "set"]}
    /\ UNCHANGED <<dqsize, dqcount, dqlocked, dqc, dqscan>>

\* ... and one that finds no database drops its state: the next request makes a new one
DqGone ==
    /\ dqcheck.pc = "stat" /\ dqcheck' = NoCheck
    /\ dqfaults < DqMaxFaults /\ dqfaults' = dqfaults + 1
    /\ dqcount' = 0 /\ dqlocked' = FALSE
    /\ UNCHANGED <<dqsize, dqc, dqscan>>

DqSet_LocksOnly ==
    /\ dqcheck.pc = "set" /\ dqcheck' = NoCheck
    /\ dqlocked' = (dqlocked \/ dqcheck.over)
    /\ UNCHANGED <<dqsize, dqcount, dqc, dqscan, dqfaults>>

\* quotaSetLocked: only when what the request said is to be changed
DqSet ==
    /\ dqcheck.pc = "set" /\ dqcheck' = NoCheck
    /\ dqlocked' = IF dqcheck.over = dqcheck.was THEN dqlocked ELSE dqcheck.over
    /\ UNCHANGED <<dqsize, dqcount, dqc, dqscan, dqfaults>>

-----------------------------------------------------------------------------
DqChecker == DqScan \/ DqScanAsk \/ DqStat \/ DqGone \/ DqSet
DqNext ==
    \/ \E k \in DqConns : DqRequest(k) \/ DqAsk(k) \/ DqGrow(k)
    \/ DqShrink \/ DqChecker

DqSpec == DqInit /\ [][DqNext]_dqVars

\* The two goroutines run.
DqFair == WF_dqVars(DqScan \/ DqScanAsk) /\ WF_dqVars(DqStat \/ DqGone \/ DqSet)

-----------------------------------------------------------------------------
\* While one check runs every connection may pass until its count is a multiple
\* of the threshold, where it waits for the checker, and the one that asked passes
\* one round more; the last ones were let through before the check that locks.
\* A check that fails, that takes an unreadable quota for none and unlocks, or that
\* finds no database and forgets the count, costs all of these rounds again.
DqOverrun ==
    DqLimit + (Cardinality(DqConns) + 1) * DqThresh * (1 + dqfaults) + Cardinality(DqConns)

\* The size never runs away from the quota: the counter stops the connections at
\* the checker until it has looked.
QuotaOverrunBounded ==
    dqsize <= DqOverrun

\* A database that stays under its quota is unlocked.
QuotaUnlocks ==
    <>[](dqsize <= DqLimit) => []<>(~dqlocked)
=============================================================================
