------------------------------ MODULE S3Usage ------------------------------
(***************************************************************************)
(* Downloads of a namespace and their limit (s3/acct.go acctDownload), and *)
(* the scraper that archives the counters once per period                  *)
(* (scrapers/s3/main.go).  The limit counts from an offset in the record   *)
(* of the counters, which the scraper moves to the snapshot it archived;   *)
(* an archived snapshot is dirty until that is done, so that a scraper     *)
(* that died in between is made good by the next pass.  A call that fails  *)
(* had no effect.                                                          *)
(***************************************************************************)
EXTENDS Integers, Sequences, FiniteSets

CONSTANTS
    SuConns,      \* downloads at a time
    SuLimit,      \* out-bytes-tot, 0 for no limit
    SuMaxSize,    \* bound on the bytes of a download
    SuMaxBytes,   \* bound on the bytes of all of them
    SuMaxArch,    \* bound on the snapshots
    SuMaxFaults   \* bound on failing calls and deaths of the scraper

ASSUME SuAssumption ==
    /\ SuLimit \in Nat /\ SuMaxSize \in Nat /\ SuMaxBytes \in Nat /\ SuMaxFaults \in Nat
    /\ IsFiniteSet(SuConns)

VARIABLES
    suout,     \* the counters out-bytes and out-bytes-web
    suoff,     \* out-bytes-tot-off
    suarch,    \* the archive: snapshots with their sum and flag
    sud,       \* the downloads
    suscr,     \* the scraper: label, the snapshot it read, the one it applies
    sufaults,
    sughost    \* granted bytes, those when the snapshot of the offset was read, and
               \* whether an insert failed

suVars == <<suout, suoff, suarch, sud, suscr, sufaults, sughost>>

Doors == {"api", "web"}
SuSum == suout["api"] + suout["web"]
Snapshot == [sum : Nat, granted : Nat, dirty : BOOLEAN]
NoSnapshot == [sum |-> 0, granted |-> 0, dirty |-> FALSE]
SuOver == [pc |-> "idle", st |-> NoSnapshot, of |-> NoSnapshot, repair |-> FALSE]
SuResting == [pc |-> "idle", door |-> "api", size |-> 0]

SuTypeOK ==
    /\ suout \in [Doors -> 0 .. SuMaxBytes + SuMaxSize * Cardinality(SuConns)] /\ suoff \in Nat
    /\ \A i \in DOMAIN suarch : suarch[i] \in Snapshot
    /\ sud \in [SuConns -> [pc : {"idle", "refuse", "send"}, door : Doors, size : 0 .. SuMaxSize]]
    /\ suscr \in [pc : {"idle", "last", "due", "insert", "update", "clean"}, st : Snapshot, of : Snapshot,
                  repair : BOOLEAN]
    /\ sufaults \in 0 .. SuMaxFaults

SuInit ==
    /\ suout = [d \in Doors |-> 0] /\ suoff = 0 /\ suarch = << >> /\ sufaults = 0
    /\ sud = [c \in SuConns |-> SuResting]
    /\ suscr = SuOver
    /\ sughost = [granted |-> 0, mark |-> 0, noinsert |-> FALSE]

SuFault == sufaults < SuMaxFaults /\ sufaults' = sufaults + 1

-----------------------------------------------------------------------------
SuAcct_ApiOnly(c) ==
    /\ sud[c].pc = "idle"
    /\ \E d \in Doors, n \in 1 .. SuMaxSize :
         /\ SuSum + n <= SuMaxBytes /\ suout' = [suout EXCEPT ![d] = @ + n]
         /\ LET over == SuLimit # 0 /\ suout'["api"] + n > SuLimit + suoff IN
              /\ sud' = [sud EXCEPT ![c] = [pc |-> IF over THEN "refuse" ELSE "send", door |-> d, size |-> n]]
              /\ sughost' = IF over THEN sughost ELSE [sughost EXCEPT !.granted = @ + n]
    /\ UNCHANGED <<suoff, suarch, suscr, sufaults>>

\* acctDownload: the size is added and the new sums come back, in one call; the
\* check adds it once more
SuAcct(c) ==
    /\ sud[c].pc = "idle"
    /\ \E d \in Doors, n \in 1 .. SuMaxSize :
         /\ SuSum + n <= SuMaxBytes /\ suout' = [suout EXCEPT ![d] = @ + n]
         /\ LET over == SuLimit # 0 /\ suout'["api"] + suout'["web"] + n > SuLimit + suoff IN
              /\ sud' = [sud EXCEPT ![c] = [pc |-> IF over THEN "refuse" ELSE "send", door |-> d, size |-> n]]
              /\ sughost' = IF over THEN sughost ELSE [sughost EXCEPT !.granted = @ + n]
    /\ UNCHANGED <<suoff, suarch, suscr, sufaults>>

\* ... and what is over the limit is taken back, when that does not fail
SuUnacct(c) ==
    /\ sud[c].pc = "refuse" /\ sud' = [sud EXCEPT ![c] = SuResting]
    /\ \/ suout' = [suout EXCEPT ![sud[c].door] = @ - sud[c].size] /\ UNCHANGED sufaults
       \/ SuFault /\ UNCHANGED suout
    /\ UNCHANGED <<suoff, suarch, suscr, sughost>>

\* handleGetObject has sent the bytes
SuSent(c) ==
    /\ sud[c].pc = "send" /\ sud' = [sud EXCEPT ![c] = SuResting]
    /\ UNCHANGED <<suout, suoff, suarch, suscr, sufaults, sughost>>

-----------------------------------------------------------------------------
\* doArchPass reads the record
SuScrape ==
    /\ suscr.pc = "idle" /\ SuSum > 0
    /\ suscr' = [suscr EXCEPT !.pc = "last",
                     !.st = [sum |-> SuSum, granted |-> sughost.granted, dirty |-> TRUE]]
    /\ UNCHANGED <<suout, suoff, suarch, sud, sufaults, sughost>>

\* getLastStats: the latest snapshot is applied when it is dirty
SuLast ==
    /\ suscr.pc = "last"
    /\ suscr' = IF suarch # << >> /\ suarch[Len(suarch)].dirty
                THEN [suscr EXCEPT !.pc = "update", !.of = suarch[Len(suarch)], !.repair = TRUE]
                ELSE [suscr EXCEPT !.pc = "due"]
    /\ UNCHANGED <<suout, suoff, suarch, sud, sufaults, sughost>>

\* timePassed
SuDue ==
    /\ suscr.pc = "due"
    /\ \/ suscr' = SuOver
       \/ Len(suarch) < SuMaxArch /\ suscr' = [suscr EXCEPT !.pc = "insert"]
    /\ UNCHANGED <<suout, suoff, suarch, sud, sufaults, sughost>>

\* The snapshot is archived; when that fails it is applied all the same
SuInsert ==
    /\ suscr.pc = "insert"
    /\ suscr' = [suscr EXCEPT !.pc = "update", !.of = suscr.st, !.repair = FALSE]
    /\ \/ suarch' = Append(suarch, suscr.st) /\ UNCHANGED <<sufaults, sughost>>
       \/ SuFault /\ sughost' = [sughost EXCEPT !.noinsert = TRUE] /\ UNCHANGED suarch
    /\ UNCHANGED <<suout, suoff, sud>>

\* Back in doArchPass
SuBack == IF suscr.repair THEN [suscr EXCEPT !.pc = "due", !.of = NoSnapshot, !.repair = FALSE] ELSE SuOver

\* updateStatsAfterArch: the offset ...
SuUpdate ==
    /\ suscr.pc = "update"
    /\ \/ /\ suoff' = suscr.of.sum /\ sughost' = [sughost EXCEPT !.mark = suscr.of.granted]
          /\ suscr' = [suscr EXCEPT !.pc = "clean"] /\ UNCHANGED sufaults
       \/ SuFault /\ suscr' = SuBack /\ UNCHANGED <<suoff, sughost>>
    /\ UNCHANGED <<suout, suarch, sud>>

\* ... and the flag of the snapshot; nobody looks at this error
SuClean ==
    /\ suscr.pc = "clean" /\ suscr' = SuBack
    /\ \/ /\ suarch' = [i \in DOMAIN suarch |-> IF suarch[i] = suscr.of THEN [suarch[i] EXCEPT !.dirty = FALSE]
                                                ELSE suarch[i]]
          /\ UNCHANGED sufaults
       \/ SuFault /\ UNCHANGED suarch
    /\ UNCHANGED <<suout, suoff, sud, sughost>>

\* The scraper dies and is started again
SuCrash ==
    /\ suscr.pc # "idle" /\ SuFault
    /\ suscr' = SuOver
    /\ UNCHANGED <<suout, suoff, suarch, sud, sughost>>

SuNext ==
    \/ \E c \in SuConns : SuAcct(c) \/ SuUnacct(c) \/ SuSent(c)
    \/ SuScrape \/ SuLast \/ SuDue \/ SuInsert \/ SuUpdate \/ SuClean \/ SuCrash

SuSpec == SuInit /\ [][SuNext]_suVars

-----------------------------------------------------------------------------
\* The offset the limit counts from is the sum of an archived snapshot, wherever
\* the scraper died, so that what is limited and what is billed are the same
\* period; unless an insert into the archive failed, which the scraper goes on from.
OffsetIsArchived ==
    suoff = 0 \/ sughost.noinsert \/ \E i \in DOMAIN suarch : suarch[i].sum = suoff

\* A snapshot is never applied after a newer one, not by the repair of an earlier
\* pass either: the tenant would be limited for bytes of an earlier period.  (The
\* offset itself can go back by the size of a download that was being refused when
\* the newer snapshot was read.)  A snapshot that could not be archived is applied
\* nevertheless, and the archive's last one, if it stayed dirty, again after it.
NewestSnapshotStays == [][~sughost.noinsert => sughost'.mark >= sughost.mark]_suVars

\* The bytes granted since the snapshot of the offset are within the limit, and the
\* sizes of the downloads that were accounted and undecided when it was read; as
\* long as the offset never went back.
PeriodIsLimited ==
    SuLimit # 0 /\ ~sughost.noinsert =>
        sughost.granted - sughost.mark <= SuLimit - 1 + Cardinality(SuConns) * SuMaxSize

\* The period that is limited is the period that is billed (acctDownload and the
\* s3 scraper).
UsageSound == OffsetIsArchived /\ PeriodIsLimited
=============================================================================
