------------------------------ MODULE Packages ------------------------------
(***************************************************************************)
(* Packages a tenant installs for a language (gate/packages.go): the       *)
(* packages themselves are kept by the language's service pod              *)
(* (wdog/service.go), the gate caches the list of them and their size in   *)
(* one record per tenant.  The list is dropped from the cache when a       *)
(* package was installed or removed, the size is measured again by one     *)
(* goroutine.  Every package has size 1.                                   *)
(***************************************************************************)
EXTENDS Integers, FiniteSets, FiniteSetsExt

CONSTANTS
    PkNames,     \* packages
    PkWorkers,   \* goroutines serving requests
    PkLimit,     \* DiskSizeK of the plan, 0 for none
    PkGap,       \* pkgLimitGap << 10
    PkMaxOps,    \* bound on requests
    PkMaxFaults  \* bound on failing operations, timeouts and restarts of the gate

ASSUME PkSizesAssumption == PkLimit \in Nat /\ PkGap \in Nat
\* finitely many packages and requests; "none" stands for no request
ASSUME PkSetsAssumption == IsFiniteSet(PkNames) /\ IsFiniteSet(PkWorkers) /\ "none" \notin PkWorkers

VARIABLES
    inst,     \* what is installed
    pklist,   \* the cached list (packages.lang), Unknown when it is not there
    pkdu,     \* the cached size (pkg_stats), Unknown when it is not there
    pkw,      \* requests: label, package, list that was read
    scan,     \* the scan goroutine: label, what it measured, who waits for it
    overdue,  \* installations the gate gave up waiting for, still running
    pkblame,  \* ghost: the list may be out of date until it is dropped again; the
              \* size may be, and the limit overrun because of it
    pkops, pkfaults

pkVars == <<inst, pklist, pkdu, pkw, scan, overdue, pkblame, pkops, pkfaults>>

Unknown == {"unknown"}
NoSize == -1
PkNone == "none"
PkIdle == [pc |-> "idle", name |-> PkNone, list |-> {}]
ScanIdle == [pc |-> "idle", du |-> NoSize, sync |-> PkNone]
PkLabels == {"idle", "list", "store", "stats", "sync", "check", "inst", "flush", "kick", "remove"}

PkTypeOK ==
    /\ inst \subseteq PkNames
    /\ pklist = Unknown \/ pklist \subseteq PkNames
    /\ pkdu \in {NoSize} \cup 0 .. Cardinality(PkNames)
    /\ \A w \in PkWorkers : pkw[w].pc \in PkLabels
    /\ scan.pc \in {"idle", "scan", "write"}
    /\ overdue \subseteq PkNames /\ pkblame \subseteq {"list", "size"}

PkInit ==
    /\ inst = {} /\ pklist = Unknown /\ pkdu = NoSize
    /\ pkw = [w \in PkWorkers |-> PkIdle] /\ scan = ScanIdle
    /\ overdue = {} /\ pkblame = {} /\ pkops = 0 /\ pkfaults = 0

-----------------------------------------------------------------------------
PkFault == pkfaults < PkMaxFaults /\ pkfaults' = pkfaults + 1
PkGoto(w, l) == pkw' = [pkw EXCEPT ![w].pc = l]
PkNew == pkops < PkMaxOps /\ pkops' = pkops + 1
PkBlame(s) == pkblame' = pkblame \cup s

\* Iterate: the cached list, or the service's
PkIterate(w) ==
    /\ pkw[w].pc = "idle" /\ pklist = Unknown /\ PkNew
    /\ PkGoto(w, "list")
    /\ UNCHANGED <<inst, pklist, pkdu, scan, overdue, pkblame, pkfaults>>

\* rtListPackages
PkList(w) ==
    /\ pkw[w].pc = "list"
    /\ \/ pkw' = [pkw EXCEPT ![w].pc = "store", ![w].list = inst] /\ UNCHANGED pkfaults
       \/ PkFault /\ pkw' = [pkw EXCEPT ![w] = PkIdle]
    /\ UNCHANGED <<inst, pklist, pkdu, scan, overdue, pkblame, pkops>>

\* Somebody is about to drop the cached list
FlushDue == overdue # {} \/ \E w \in PkWorkers : pkw[w].pc = "flush"

\* dbTCacheUpdatePackages, whose error nobody looks at.  What was installed and
\* flushed since the list was read is missing from it, and nothing drops the list
\* again before the next installation or removal.
PkStore(w) ==
    /\ pkw[w].pc = "store" /\ pkw' = [pkw EXCEPT ![w] = PkIdle]
    /\ \/ /\ pklist' = pkw[w].list /\ UNCHANGED pkfaults
          /\ PkBlame(IF pkw[w].list = inst \/ FlushDue THEN {} ELSE {"list"})
       \/ PkFault /\ UNCHANGED <<pklist, pkblame>>
    /\ UNCHANGED <<inst, pkdu, scan, overdue, pkops>>

-----------------------------------------------------------------------------
(* PackageDesc.Add: the limit, the installation, the caches.               *)

PkAdd(w, p) ==
    /\ pkw[w].pc = "idle" /\ PkNew
    /\ pkw' = [pkw EXCEPT ![w] = [PkIdle EXCEPT !.pc = IF PkLimit = 0 THEN "inst" ELSE "stats", !.name = p]]
    /\ UNCHANGED <<inst, pklist, pkdu, scan, overdue, pkblame, pkfaults>>

\* packagesGetStats: without a size, everything is scanned and waited for
PkStats(w) ==
    /\ pkw[w].pc = "stats"
    /\ IF pkdu = NoSize
       THEN /\ scan.pc = "idle" /\ scan' = [ScanIdle EXCEPT !.pc = "scan", !.sync = w]
            /\ PkGoto(w, "sync")
       ELSE PkGoto(w, "check") /\ UNCHANGED scan
    /\ UNCHANGED <<inst, pklist, pkdu, overdue, pkblame, pkops, pkfaults>>

\* The limit is checked against the cached size.  A tenant whose record holds a
\* list and no size, because the scan failed, is taken to use nothing.
PkCheck(w) ==
    /\ pkw[w].pc = "check"
    /\ LET du == IF pkdu = NoSize THEN 0 ELSE pkdu
       IN  pkw' = [pkw EXCEPT ![w] = IF du + PkGap > PkLimit \/ (pkdu = NoSize /\ pklist = Unknown)
                                     THEN PkIdle ELSE [@ EXCEPT !.pc = "inst"]]
    /\ UNCHANGED <<inst, pklist, pkdu, scan, overdue, pkblame, pkops, pkfaults>>

\* rtInstallPackage.  A request that took too long (600 seconds) is an error for
\* the gate; the service goes on installing.
PkInstall(w) ==
    /\ pkw[w].pc = "inst"
    /\ \/ /\ inst' = inst \cup {pkw[w].name} /\ PkGoto(w, "flush")
          /\ UNCHANGED <<overdue, pkblame, pkfaults>>
       \/ /\ PkFault /\ pkw' = [pkw EXCEPT ![w] = PkIdle]
          /\ \/ overdue' = overdue \cup {pkw[w].name} /\ PkBlame({"list", "size"})
             \/ UNCHANGED <<overdue, pkblame>>
          /\ UNCHANGED inst
    /\ UNCHANGED <<pklist, pkdu, scan, pkops>>

LateInstall(p) ==
    /\ p \in overdue /\ overdue' = overdue \ {p} /\ inst' = inst \cup {p}
    /\ UNCHANGED <<pklist, pkdu, pkw, scan, pkblame, pkops, pkfaults>>

PkFlush_Not(w) ==
    /\ pkw[w].pc = "flush" /\ PkGoto(w, "kick")
    /\ UNCHANGED <<inst, pklist, pkdu, scan, overdue, pkblame, pkops, pkfaults>>

\* dbTCacheFlushList.  It drops the error of its Update, and a list that is stale
\* stays.
PkFlush(w) ==
    /\ pkw[w].pc = "flush" /\ PkGoto(w, "kick")
    /\ \/ /\ pklist' = Unknown /\ UNCHANGED pkfaults
          /\ pkblame' = IF overdue = {} THEN pkblame \ {"list"} ELSE pkblame
       \/ /\ PkFault /\ UNCHANGED pklist
          /\ PkBlame(IF pklist \in {Unknown, inst} THEN {} ELSE {"list"})
    /\ UNCHANGED <<inst, pkdu, scan, overdue, pkops>>

\* rescanKick: blocks until the goroutine is free, and does not wait for it
PkKick(w) ==
    /\ pkw[w].pc = "kick" /\ scan.pc = "idle"
    /\ scan' = [ScanIdle EXCEPT !.pc = "scan"]
    /\ pkw' = [pkw EXCEPT ![w] = PkIdle]
    /\ UNCHANGED <<inst, pklist, pkdu, overdue, pkblame, pkops, pkfaults>>

\* langStatScanOne: GetDirDU, then the record
ScanDir ==
    /\ scan.pc = "scan"
    /\ scan' = [scan EXCEPT !.pc = "write", !.du = Cardinality(inst)]
    /\ UNCHANGED <<inst, pklist, pkdu, pkw, overdue, pkblame, pkops, pkfaults>>

\* An error is logged; whoever waits goes on in either case
ScanWrite ==
    /\ scan.pc = "write" /\ scan' = ScanIdle
    /\ \/ pkdu' = scan.du /\ UNCHANGED <<pkblame, pkfaults>>
       \/ PkFault /\ PkBlame({"size"}) /\ UNCHANGED pkdu
    /\ pkw' = [w \in PkWorkers |-> IF scan.sync = w THEN [pkw[w] EXCEPT !.pc = "check"] ELSE pkw[w]]
    /\ UNCHANGED <<inst, pklist, overdue, pkops>>

-----------------------------------------------------------------------------
\* PackageDesc.Del
PkDel(w, p) ==
    /\ pkw[w].pc = "idle" /\ p \in inst /\ PkNew
    /\ pkw' = [pkw EXCEPT ![w] = [PkIdle EXCEPT !.pc = "remove", !.name = p]]
    /\ UNCHANGED <<inst, pklist, pkdu, scan, overdue, pkblame, pkfaults>>

\* rtRemovePackage; the service refuses what is not installed.  When the answer is
\* lost, the caches keep what is gone.
PkRemove(w) ==
    /\ pkw[w].pc = "remove"
    /\ \/ /\ pkw[w].name \in inst /\ inst' = inst \ {pkw[w].name} /\ PkGoto(w, "flush")
          /\ UNCHANGED <<pkblame, pkfaults>>
       \/ /\ pkw[w].name \notin inst /\ pkw' = [pkw EXCEPT ![w] = PkIdle]
          /\ UNCHANGED <<inst, pkblame, pkfaults>>
       \/ /\ PkFault /\ pkw' = [pkw EXCEPT ![w] = PkIdle]
          /\ inst' \in {inst, inst \ {pkw[w].name}}
          /\ PkBlame(IF inst' = inst THEN {} ELSE {"list", "size"})
    /\ UNCHANGED <<pklist, pkdu, scan, overdue, pkops>>

\* The gate dies with its requests and its scan, and starts again; list and size are
\* in the database.  The service goes on with what it was asked for, and nobody drops
\* the list or scans for what it did.
PkRestart ==
    LET asked(l) == {pkw[w].name : w \in {v \in PkWorkers : pkw[v].pc = l}}
        at(l) == \E w \in PkWorkers : pkw[w].pc = l
    IN  /\ PkFault
        /\ \E late \in SUBSET asked("inst"), gone \in SUBSET asked("remove") :
              /\ overdue' = overdue \cup late
              /\ inst' = inst \ gone
              /\ PkBlame((IF late # {} \/ gone # {} \/ at("flush") THEN {"list", "size"} ELSE {})
                         \cup (IF at("kick") \/ scan.pc # "idle" THEN {"size"} ELSE {}))
        /\ pkw' = [w \in PkWorkers |-> PkIdle] /\ scan' = ScanIdle
        /\ UNCHANGED <<pklist, pkdu, pkops>>

-----------------------------------------------------------------------------
PkNext ==
    \/ \E w \in PkWorkers :
          \/ PkIterate(w) \/ PkList(w) \/ PkStore(w) \/ PkStats(w) \/ PkCheck(w)
          \/ PkInstall(w) \/ PkFlush(w) \/ PkKick(w) \/ PkRemove(w)
          \/ \E p \in PkNames : PkAdd(w, p) \/ PkDel(w, p)
    \/ \E p \in PkNames : LateInstall(p)
    \/ ScanDir \/ ScanWrite \/ PkRestart

PkSpec == PkInit /\ [][PkNext]_pkVars

-----------------------------------------------------------------------------
(* Properties.                                                             *)

PkQuiet == scan.pc = "idle" /\ overdue = {} /\ \A w \in PkWorkers : pkw[w].pc \notin {"inst", "flush", "kick"}

\* The cached list is what is installed, unless a list that was read before an
\* installation was stored after it, the gate gave up on an installation or died
\* before the flush, or the flush failed; and then until the next flush.
ListIsInstalled ==
    PkQuiet /\ pklist # Unknown /\ "list" \notin pkblame => pklist = inst

\* The cached size is the size there is once nobody is at work, unless a write of it
\* failed, or the gate gave up on an installation or died before it was measured.
SizeIsMeasured ==
    PkQuiet /\ pkdu # NoSize /\ "size" \notin pkblame => pkdu = Cardinality(inst)

\* Installations are checked against a size that may be old, but not older than
\* one scan: usage stays within the limit less the gap, and one package for each
\* request and one for the scan that is running.
OvershootBounded ==
    PkLimit # 0 /\ "size" \notin pkblame =>
        Cardinality(inst) <= Max({PkLimit - PkGap, 0}) + Cardinality(PkWorkers) + 1

\* The two caches of a tenant's packages, the list and the size, follow what is
\* installed, and the size holds installations back (packages.go).
PackagesSound == ListIsInstalled /\ SizeIsMeasured /\ OvershootBounded
=============================================================================
