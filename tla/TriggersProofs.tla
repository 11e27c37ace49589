--------------------------- MODULE TriggersProofs ----------------------------
(***************************************************************************)
(* The triggers of a function (Triggers), for every number of triggers,    *)
(* requests, calls, failures and restarts of the gate.                     *)
(*                                                                         *)
(* TgInv: a request that adds or deletes a trigger has it in hand, alone   *)
(* unless it was torn, and the stored record is what that request left; a  *)
(* cached URL, or a call about to cache it, has its trigger or a clean-up  *)
(* to come; cron's jobs are known to a record or a request; and without    *)
(* failures the counters of listeners and subscriptions are the numbers of *)
(* S3 triggers that have one (HeardOf).                                    *)
(***************************************************************************)
EXTENDS Triggers, FiniteSetTheorems, TLAPS

AddLabels == {"add_start", "add_sub", "add_save", "add_undo"}
DelLabels == {"del_key", "del_stop", "del_remove"}
TgRec == [there : BOOLEAN, key : BOOLEAN, job : JobIds \cup {NoJob}]

\* TgTypeOK, with the types of requests and calls; the copies listed are apart.
TgTypes ==
    /\ TgStateOK
    /\ tgpc \in [TgWorkers -> {"idle", "clear", "down"} \cup AddLabels \cup DelLabels]
    /\ tgcopy \in [TgWorkers -> TgRec]
    /\ cpc \in [TgCallers -> {"idle", "memd", "store", "down"}]
    /\ cres \in [TgCallers -> Nat \cup {Uncached}]
    /\ tgfaults \in Nat /\ tgrestarts \in Nat

\* A request that adds or deletes has a trigger in hand, with a copy of its record.
InHand ==
    /\ \A w \in TgWorkers :
          /\ tgpc[w] \in {"idle", "clear", "down"} <=> tgev[w] = NoEvent
          /\ tgev[w] # NoEvent => kind[tgev[w]] # Unused /\ tgcopy[w].there
          /\ tgpc[w] = "add_start" => tgcopy[w].job = NoJob
          /\ tgpc[w] = "add_sub" => kind[tgev[w]] = "s3"
    /\ \A e \in Events : rec[e].there => kind[e] # Unused

\* A trigger that was not torn is in one hand, ...
Alone ==
    \A v, w \in TgWorkers : tgev[v] = tgev[w] /\ tgev[v] # NoEvent /\ tgev[v] \notin torn => v = w

\* ... and its record is what the request left: bare while it is added, the copy's
\* while it is deleted, without the key when that was dropped, and its job stopped
\* before it goes; one that is gone already has no job.
Held ==
    \A w \in TgWorkers : tgev[w] # NoEvent /\ tgev[w] \notin torn =>
        /\ tgpc[w] \in AddLabels => rec[tgev[w]] = [Gone EXCEPT !.there = TRUE]
        /\ tgpc[w] \in DelLabels /\ rec[tgev[w]].there => rec[tgev[w]].job = tgcopy[w].job
        /\ tgpc[w] \in {"del_stop", "del_remove"} => rec[tgev[w]].there /\ ~rec[tgev[w]].key
        /\ tgpc[w] = "del_remove" \/ (tgpc[w] = "del_key" /\ ~rec[tgev[w]].there) =>
              \A j \in JobIds : jobs[j] # tgev[w]

\* The copies a removal of the function lists know the jobs of their triggers, as
\* long as there is a record: only adding a trigger gives it a job, and a trigger that
\* was being added when it was listed is torn.
Listed ==
    \A w \in TgWorkers, e \in Events : tglist[w][e].there =>
        /\ kind[e] # Unused
        /\ e \notin torn =>
              /\ rec[e].there => rec[e].job = tglist[w][e].job
              /\ \A v \in TgWorkers : tgev[v] = e => tgpc[v] \notin AddLabels

ListTypes == tglist \in [TgWorkers -> [Events -> TgRec]]

\* Requests are down after a restart only.
DownAfter == \A w \in TgWorkers : tgpc[w] = "down" => tgrestarts > 0

\* A URL that is cached, or that a call is about to cache, has its trigger.
Looking == \E c \in TgCallers : cpc[c] \in {"memd", "store"}
UrlKept ==
    (url # Uncached \/ Looking) /\ ~urlLate /\ torn = {} => UrlKeyed \/ Cleaning

CronJobs == \A j \in JobIds : jobs[j] # NoEvent => kind[jobs[j]] = "cron"

\* Without failures and restarts, the S3 triggers that have a listener and those
\* that are subscribed are counted.
Clean == tgfaults = 0 /\ tgrestarts = 0 /\ torn = {}
InUse(labels) ==
    {e \in Events : kind[e] = "s3" /\ (rec[e].key \/ \E w \in TgWorkers : tgev[w] = e /\ tgpc[w] \in labels)}
Listening == InUse({"add_sub", "add_save", "del_stop"})
Subscribing == InUse({"add_save", "del_stop"})
HeardOf ==
    Clean =>
        /\ listeners = Cardinality(Listening) /\ notify = Cardinality(Subscribing)
        /\ \A e \in Events :
              kind[e] = "s3" /\ rec[e].there => rec[e].key \/ \E w \in TgWorkers : tgev[w] = e
        /\ \A w \in TgWorkers :
              /\ tgpc[w] # "add_undo"
              /\ tgev[w] # NoEvent /\ kind[tgev[w]] = "s3" =>
                    /\ tgpc[w] \in {"add_sub", "add_save"} => tgcopy[w].key
                    /\ tgpc[w] = "del_key" /\ rec[tgev[w]].there => rec[tgev[w]].key

\* The inductive invariant of the triggers.
TgCore == TgTypes /\ InHand /\ Alone /\ Held /\ UrlKept /\ CronJobs /\ JobsTracked /\ HeardOf
TgInv == TgCore /\ ListTypes /\ Listed /\ DownAfter
-----------------------------------------------------------------------------
\* A trigger is none of no trigger; the records and jobs there are.
LEMMA TgKnown ==
    /\ NoEvent \notin Events /\ IsFiniteSet(Events) /\ Cardinality(Events) \in Nat
    /\ NoJob \notin JobIds /\ JobIds \subseteq Nat /\ Gone \in TgRec
    /\ [Gone EXCEPT !.there = TRUE] \in TgRec
    /\ [Gone EXCEPT !.there = TRUE].there /\ ~[Gone EXCEPT !.there = TRUE].key
    /\ [Gone EXCEPT !.there = TRUE].job = NoJob
    /\ ~Gone.there /\ ~Gone.key /\ Gone.job = NoJob
<1>1. NoEvent \notin Events /\ IsFiniteSet(Events) /\ Cardinality(Events) \in Nat
  BY TgAssumption, FS_CardinalityType
<1>2. JobIds \subseteq Nat /\ NoJob \notin JobIds
  BY DEF JobIds, NoJob
<1>3. QED BY <1>1, <1>2 DEF Gone, TgRec

\* What the records become.
LEMMA TgEdits ==
  ASSUME NEW r \in TgRec, NEW j \in JobIds
  PROVE  /\ [r EXCEPT !.key = TRUE] \in TgRec /\ [r EXCEPT !.key = TRUE].there = r.there
         /\ [r EXCEPT !.key = TRUE].job = r.job /\ [r EXCEPT !.key = TRUE].key
         /\ [r EXCEPT !.key = FALSE] \in TgRec /\ [r EXCEPT !.key = FALSE].there = r.there
         /\ [r EXCEPT !.key = FALSE].job = r.job /\ ~[r EXCEPT !.key = FALSE].key
         /\ [r EXCEPT !.job = j] \in TgRec /\ [r EXCEPT !.job = j].there = r.there
         /\ [r EXCEPT !.job = j].job = j /\ [r EXCEPT !.job = j].key = r.key
  BY DEF TgRec

\* The numbers of listeners and subscriptions.
LEMMA InUseFinite ==
  ASSUME NEW L PROVE IsFiniteSet(InUse(L)) /\ Cardinality(InUse(L)) \in Nat
  BY TgKnown, FS_Subset, FS_CardinalityType DEF InUse

\* The parts of the invariant.
LEMMA TgParts ==
  ASSUME TgInv
  PROVE  /\ TgTypes /\ InHand /\ Alone /\ Held /\ UrlKept /\ CronJobs /\ JobsTracked /\ HeardOf
         /\ kind \in [Events -> Kinds \cup {Unused}] /\ rec \in [Events -> TgRec]
         /\ jobs \in [JobIds -> Events \cup {NoEvent}]
         /\ tgev \in [TgWorkers -> Events \cup {NoEvent}]
         /\ tgcopy \in [TgWorkers -> TgRec]
         /\ tgpc \in [TgWorkers -> {"idle", "clear", "down"} \cup AddLabels \cup DelLabels]
         /\ tgfaults \in Nat /\ tgrestarts \in Nat /\ torn \subseteq Events
  BY DEF TgInv, TgCore, TgTypes, TgStateOK, TgRec

\* How the triggers that are kept change when the request that has one in hand moves.
LEMMA InUseMoves ==
  ASSUME NEW w \in TgWorkers, NEW e \in Events, tgev[w] = e, kind' = kind, tgev'[w] \in {e, NoEvent},
         \A v \in TgWorkers \ {w} : tgpc'[v] = tgpc[v] /\ tgev'[v] = tgev[v],
         \A f \in Events \ {e} : rec'[f] = rec[f],
         \A v \in TgWorkers : tgev[v] = e => v = w,
         NEW L
  PROVE  /\ e \in InUse(L) <=> kind[e] = "s3" /\ (rec[e].key \/ tgpc[w] \in L)
         /\ e \in InUse(L)' <=> kind[e] = "s3" /\ (rec'[e].key \/ (tgev'[w] = e /\ tgpc'[w] \in L))
         /\ Cardinality(InUse(L)) \in Nat /\ (e \in InUse(L) => Cardinality(InUse(L)) > 0)
         /\ Cardinality(InUse(L)') = Cardinality(InUse(L)) + (IF e \in InUse(L)' THEN 1 ELSE 0)
                                                         - (IF e \in InUse(L) THEN 1 ELSE 0)
<1> USE TgKnown
<1>1. e \in InUse(L) <=> kind[e] = "s3" /\ (rec[e].key \/ tgpc[w] \in L)
  BY DEF InUse
<1>2. e \in InUse(L)' <=> kind[e] = "s3" /\ (rec'[e].key \/ (tgev'[w] = e /\ tgpc'[w] \in L))
  BY DEF InUse
<1>3. InUse(L)' \ {e} = InUse(L) \ {e}
  <2>1. ASSUME NEW f \in Events \ {e} PROVE f \in InUse(L)' <=> f \in InUse(L)
    <3>1. (\E v \in TgWorkers : tgev'[v] = f /\ tgpc'[v] \in L) <=> (\E v \in TgWorkers : tgev[v] = f /\ tgpc[v] \in L)
      OBVIOUS
    <3>2. QED BY <3>1 DEF InUse
  <2>2. InUse(L)' \subseteq Events /\ InUse(L) \subseteq Events
    BY DEF InUse
  <2>3. QED BY <2>1, <2>2
<1>4. IsFiniteSet(InUse(L)) /\ Cardinality(InUse(L)) \in Nat
      /\ IsFiniteSet(InUse(L)') /\ Cardinality(InUse(L)') \in Nat
  <2>1. InUse(L)' \subseteq Events /\ InUse(L) \subseteq Events
    BY DEF InUse
  <2>2. QED BY <2>1, FS_Subset, FS_CardinalityType
<1>5. /\ e \in InUse(L) => Cardinality(InUse(L) \ {e}) = Cardinality(InUse(L)) - 1 /\ Cardinality(InUse(L)) > 0
      /\ e \in InUse(L)' => Cardinality(InUse(L)' \ {e}) = Cardinality(InUse(L)') - 1
  <2>1. e \in InUse(L) => Cardinality(InUse(L) \ {e}) = Cardinality(InUse(L)) - 1
    BY <1>4, FS_RemoveElement
  <2>2. e \in InUse(L)' => Cardinality(InUse(L)' \ {e}) = Cardinality(InUse(L)') - 1
    BY <1>4, FS_RemoveElement
  <2>3. e \in InUse(L) => Cardinality(InUse(L)) # 0
    BY <1>4, FS_EmptySet
  <2>4. QED BY <1>4, <2>1, <2>2, <2>3
<1>6. /\ e \notin InUse(L) => InUse(L) \ {e} = InUse(L)
      /\ e \notin InUse(L)' => InUse(L)' \ {e} = InUse(L)'
  OBVIOUS
<1>7. DEFINE old == Cardinality(InUse(L))
             new == Cardinality(InUse(L)')
             rest == Cardinality(InUse(L) \ {e})
<1>8. /\ old \in Nat /\ new \in Nat
      /\ e \in InUse(L) => rest = old - 1 /\ old > 0
      /\ e \notin InUse(L) => rest = old
      /\ e \in InUse(L)' => rest = new - 1
      /\ e \notin InUse(L)' => rest = new
  BY <1>3, <1>4, <1>5, <1>6
<1>9. new = old + (IF e \in InUse(L)' THEN 1 ELSE 0) - (IF e \in InUse(L) THEN 1 ELSE 0)
  <2> HIDE DEF old, new, rest
  <2>1. QED BY <1>8
<1>10. QED BY <1>1, <1>2, <1>8, <1>9

\* A trigger is inserted.
LEMMA TgInsertKeeps ==
  ASSUME TgInv, NEW w \in TgWorkers, NEW e \in Events, NEW k \in Kinds, AddInsert(w, e, k)
  PROVE  TgCore'
<1> USE TgKnown
<1>0. /\ TgTypes /\ InHand /\ Alone /\ Held /\ UrlKept /\ CronJobs /\ JobsTracked /\ HeardOf
      /\ kind \in [Events -> Kinds \cup {Unused}] /\ rec \in [Events -> TgRec]
      /\ jobs \in [JobIds -> Events \cup {NoEvent}]
      /\ tgev \in [TgWorkers -> Events \cup {NoEvent}]
      /\ tgcopy \in [TgWorkers -> TgRec]
      /\ tgpc \in [TgWorkers -> {"idle", "clear", "down"} \cup AddLabels \cup DelLabels]
      /\ tgfaults \in Nat /\ tgrestarts \in Nat /\ torn \subseteq Events
  BY TgParts
<1>1. /\ \A v \in TgWorkers \ {w} : /\ tgpc'[v] = tgpc[v] /\ tgev'[v] = tgev[v]
                                    /\ tgcopy'[v] = tgcopy[v]
      /\ tgpc[w] = "idle" /\ tgpc'[w] = "add_start" /\ tgev'[w] = e
      /\ tgcopy'[w] = [Gone EXCEPT !.there = TRUE] /\ kind[e] = Unused /\ kind'[e] = k /\ k # Unused
      /\ rec'[e] = [Gone EXCEPT !.there = TRUE]
      /\ \A f \in Events \ {e} : kind'[f] = kind[f] /\ rec'[f] = rec[f]
      /\ kind' \in [Events -> Kinds \cup {Unused}] /\ rec' \in [Events -> TgRec]
      /\ tgpc' \in [TgWorkers -> {"idle", "clear", "down"} \cup AddLabels \cup DelLabels]
      /\ tgev' \in [TgWorkers -> Events \cup {NoEvent}] /\ tgcopy' \in [TgWorkers -> TgRec]
      /\ \A v \in TgWorkers : tgev[v] # e /\ ~rec[e].there
  BY <1>0 DEF AddInsert, FreshId, InHand, Kinds, Unused, AddLabels
<1>2. UNCHANGED <<jobs, nextjob, listeners, notify, fngen, fnlive, url, tglist, cpc, cres, urlLate, torn, tgfaults, tgrestarts>>
  BY DEF AddInsert, recVars, hndVars, fnVars, reqVars, calVars, TgGoto, TgOk, Starts, UrlStart, CronStart, ListenStart, CallDone, Stop, CronStop
<1>3. \A v \in TgWorkers \ {w} : tgev[v] # NoEvent =>
        kind'[tgev[v]] = kind[tgev[v]] /\ rec'[tgev[v]] = rec[tgev[v]]
  BY <1>0, <1>1
<1>4. \A j \in JobIds : jobs[j] # NoEvent =>
        /\ jobs[j] \in Events \ {e} /\ kind'[jobs[j]] = kind[jobs[j]] /\ rec'[jobs[j]] = rec[jobs[j]]
  <2>1. ASSUME NEW j \in JobIds, jobs[j] # NoEvent PROVE jobs[j] \in Events \ {e}
    BY <1>0, <1>1, <2>1 DEF CronJobs, Unused
  <2>2. QED BY <1>0, <1>1, <2>1
<1>5. TgTypes'
  BY <1>0, <1>1, <1>2, <1>3, <1>4 DEF TgTypes, TgStateOK, AddLabels, DelLabels, TgRec
<1>6. InHand'
  <2>1. ASSUME NEW v \in TgWorkers
        PROVE  /\ tgpc'[v] \in {"idle", "clear", "down"} <=> tgev'[v] = NoEvent
               /\ tgev'[v] # NoEvent => kind'[tgev'[v]] # Unused /\ tgcopy'[v].there
               /\ tgpc'[v] = "add_start" => tgcopy'[v].job = NoJob
               /\ tgpc'[v] = "add_sub" => kind'[tgev'[v]] = "s3"
    <3>1. CASE v = w
      BY <1>1, <3>1
    <3>2. CASE v # w
      BY <1>0, <1>1, <1>3, <3>2 DEF InHand
    <3>3. QED BY <3>1, <3>2
  <2>2. \A f \in Events : rec'[f].there => kind'[f] # Unused
    BY <1>0, <1>1 DEF InHand
  <2>3. QED BY <2>1, <2>2 DEF InHand
<1>7. Alone'
  BY <1>0, <1>1, <1>2, <1>3, <1>4 DEF Alone
<1>8. Held'
  <2> DEFINE H(v) ==
                    /\ tgpc[v] \in AddLabels => rec[tgev[v]] = [Gone EXCEPT !.there = TRUE]
                    /\ tgpc[v] \in DelLabels /\ rec[tgev[v]].there => rec[tgev[v]].job = tgcopy[v].job
                    /\ tgpc[v] \in {"del_stop", "del_remove"} => rec[tgev[v]].there /\ ~rec[tgev[v]].key
                    /\ tgpc[v] = "del_remove" \/ (tgpc[v] = "del_key" /\ ~rec[tgev[v]].there) =>
                          \A j \in JobIds : jobs[j] # tgev[v]
  <2>1. tgev'[w] # NoEvent /\ tgev'[w] \notin torn' => H(w)'
    BY <1>0, <1>1, <1>2, <1>3, <1>4 DEF Held, AddLabels, DelLabels
  <2>2. ASSUME NEW v \in TgWorkers \ {w}, tgev'[v] # NoEvent, tgev'[v] \notin torn' PROVE H(v)'
    <3>1. tgev[v] # NoEvent /\ tgev[v] \notin torn
      BY <1>1, <1>2, <2>2
    <3>2. H(v)
      BY <1>0, <3>1 DEF Held
    <3>3. QED BY <1>0, <1>1, <1>2, <2>2, <3>1, <3>2, <1>3, <1>4 DEF Alone
  <2>3. ASSUME NEW v \in TgWorkers, tgev'[v] # NoEvent, tgev'[v] \notin torn' PROVE H(v)'
    <3>1. CASE v = w
      BY <2>1, <2>3, <3>1
    <3>2. CASE v # w
      BY <2>2, <2>3, <3>2
    <3>3. QED BY <3>1, <3>2
  <2>4. QED BY <2>3 DEF Held
<1>9. UrlKept'
  <2>1. UrlKeyed => UrlKeyed'
    BY <1>0, <1>1 DEF UrlKeyed, Unused
  <2>2. Cleaning => Cleaning'
    <3>1. ASSUME NEW v \in TgWorkers, tgpc[v] = "del_stop", kind[tgev[v]] = "url" PROVE Cleaning'
      <4>1. v # w /\ tgev[v] # NoEvent
        BY <1>0, <1>1, <3>1 DEF InHand
      <4>2. QED BY <1>1, <1>3, <3>1, <4>1 DEF Cleaning
    <3>2. QED BY <3>1 DEF Cleaning
  <2>3. QED BY <1>0, <1>2, <2>1, <2>2 DEF UrlKept, Looking
<1>10. CronJobs'
  BY <1>0, <1>1, <1>2, <1>3, <1>4 DEF CronJobs
<1>11. JobsTracked'
  <2>1. ASSUME NEW j \in JobIds, jobs[j] # NoEvent, jobs[j] \notin torn
        PROVE  \/ rec'[jobs[j]].there /\ rec'[jobs[j]].job = j
               \/ \E v \in TgWorkers : tgev'[v] = jobs[j] /\ tgcopy'[v].job = j
    <3>1. rec'[jobs[j]] = rec[jobs[j]]
      BY <1>4, <2>1
    <3>2. CASE rec[jobs[j]].there /\ rec[jobs[j]].job = j
      BY <3>1, <3>2
    <3>3. ASSUME NEW v \in TgWorkers, tgev[v] = jobs[j], tgcopy[v].job = j
          PROVE  \E u \in TgWorkers : tgev'[u] = jobs[j] /\ tgcopy'[u].job = j
      <4>1. v # w
        BY <1>0, <1>1, <2>1, <3>3 DEF InHand
      <4>2. QED BY <1>1, <3>3, <4>1
    <3>4. QED BY <1>0, <2>1, <3>2, <3>3 DEF JobsTracked
  <2>2. QED BY <1>2, <2>1 DEF JobsTracked
<1>12. HeardOf'
  <2>1. Clean' => Clean
    BY <1>0, <1>1, <1>2 DEF Clean
  <2>2. Clean' => Listening' = Listening /\ Subscribing' = Subscribing
    <3>1. ASSUME NEW L \in SUBSET {"add_sub", "add_save", "del_stop"}, NEW f \in Events
          PROVE  f \in InUse(L)' <=> f \in InUse(L)
      <4>1. CASE f = e
        <5>1. f \notin InUse(L)
          BY <1>1, <4>1 DEF InUse, Unused
        <5>2. ~rec'[f].key
          BY <1>1, <4>1, TgKnown
        <5>3. \A v \in TgWorkers : tgev'[v] = f => v = w
          BY <1>1, <4>1
        <5>4. tgpc'[w] \notin L
          BY <1>1
        <5>5. f \notin InUse(L)'
          BY <5>2, <5>3, <5>4 DEF InUse
        <5>6. QED BY <5>1, <5>5
      <4>2. CASE f # e
        <5>1. (\E v \in TgWorkers : tgev'[v] = f /\ tgpc'[v] \in L)
              <=> (\E v \in TgWorkers : tgev[v] = f /\ tgpc[v] \in L)
          BY <1>1, <4>2
        <5>2. QED BY <1>1, <4>2, <5>1 DEF InUse
      <4>3. QED BY <4>1, <4>2
    <3>2. \A L \in SUBSET {"add_sub", "add_save", "del_stop"} : InUse(L)' = InUse(L)
      BY <3>1 DEF InUse
    <3>3. QED BY <3>2 DEF Listening, Subscribing
  <2>3. \A f \in Events : (\E v \in TgWorkers : tgev[v] = f) => (\E v \in TgWorkers : tgev'[v] = f)
    BY <1>0, <1>1 DEF InHand
  <2>4. ASSUME Clean'
        PROVE  \A f \in Events :
                 kind'[f] = "s3" /\ rec'[f].there => rec'[f].key \/ \E v \in TgWorkers : tgev'[v] = f
    <3>1. tgev'[w] = e
      BY <1>1
    <3>2. QED BY <1>0, <1>1, <2>1, <2>3, <2>4, <3>1 DEF HeardOf
  <2>5. ASSUME Clean'
        PROVE  \A v \in TgWorkers :
              /\ tgpc'[v] # "add_undo"
              /\ tgev'[v] # NoEvent /\ kind'[tgev'[v]] = "s3" =>
                    /\ tgpc'[v] \in {"add_sub", "add_save"} => tgcopy'[v].key
                    /\ tgpc'[v] = "del_key" /\ rec'[tgev'[v]].there => rec'[tgev'[v]].key
    BY <1>0, <1>1, <1>3, <2>1, <2>5 DEF HeardOf
  <2>6. QED BY <1>0, <1>2, <2>1, <2>2, <2>4, <2>5 DEF HeardOf
<1>13. QED BY <1>5, <1>6, <1>7, <1>8, <1>9, <1>10, <1>11, <1>12 DEF TgCore

\* A Delete begins with a copy that knows the job, if there is a record.
LEMMA TgBeginKeeps ==
  ASSUME TgInv, NEW w \in TgWorkers, NEW e \in Events, NEW r \in TgRec, r.there,
         tgpc[w] \in {"idle", "clear"}, kind[e] # Unused,
         e \notin torn /\ rec[e].there => rec[e].job = r.job,
         DelBegin(w, e, r)
  PROVE  TgCore'
<1> USE TgKnown
<1>0. /\ TgTypes /\ InHand /\ Alone /\ Held /\ UrlKept /\ CronJobs /\ JobsTracked /\ HeardOf
      /\ kind \in [Events -> Kinds \cup {Unused}] /\ rec \in [Events -> TgRec]
      /\ jobs \in [JobIds -> Events \cup {NoEvent}]
      /\ tgev \in [TgWorkers -> Events \cup {NoEvent}]
      /\ tgcopy \in [TgWorkers -> TgRec]
      /\ tgpc \in [TgWorkers -> {"idle", "clear", "down"} \cup AddLabels \cup DelLabels]
      /\ tgfaults \in Nat /\ tgrestarts \in Nat /\ torn \subseteq Events
  BY TgParts
<1>1. /\ \A v \in TgWorkers \ {w} : /\ tgpc'[v] = tgpc[v] /\ tgev'[v] = tgev[v]
                                    /\ tgcopy'[v] = tgcopy[v]
      /\ tgpc[w] \in {"idle", "clear"} /\ tgpc'[w] = "del_key" /\ tgev'[w] = e /\ tgev[w] = NoEvent
      /\ tgcopy'[w] = r /\ kind[e] # Unused
      /\ tgpc' \in [TgWorkers -> {"idle", "clear", "down"} \cup AddLabels \cup DelLabels]
      /\ tgev' \in [TgWorkers -> Events \cup {NoEvent}] /\ tgcopy' \in [TgWorkers -> TgRec]
      /\ torn' \subseteq Events /\ torn \subseteq torn'
      /\ \A v \in TgWorkers : tgev[v] = e => e \in torn'
  <2>1. ASSUME NEW v \in TgWorkers, tgev[v] = e PROVE Adding(e) \/ Deleting(e)
    BY <1>0, <2>1 DEF InHand, Adding, Deleting, AddLabels, DelLabels
  <2>2. QED BY <1>0, <2>1 DEF DelBegin, InHand, DelLabels
<1>2. UNCHANGED <<kind, rec, jobs, nextjob, listeners, notify, fngen, fnlive, url, tglist, cpc, cres, urlLate, tgfaults, tgrestarts>>
  BY DEF DelBegin, recVars, hndVars, fnVars, reqVars, calVars, TgGoto, TgOk, Starts, UrlStart, CronStart, ListenStart, CallDone, Stop, CronStop
<1>3. TgTypes'
  BY <1>0, <1>1, <1>2 DEF TgTypes, TgStateOK, AddLabels, DelLabels, TgRec
<1>4. InHand'
  BY <1>0, <1>1, <1>2 DEF InHand
<1>5. Alone'
  BY <1>0, <1>1, <1>2 DEF Alone
<1>6. Held'
  <2> DEFINE H(v) ==
                    /\ tgpc[v] \in AddLabels => rec[tgev[v]] = [Gone EXCEPT !.there = TRUE]
                    /\ tgpc[v] \in DelLabels /\ rec[tgev[v]].there => rec[tgev[v]].job = tgcopy[v].job
                    /\ tgpc[v] \in {"del_stop", "del_remove"} => rec[tgev[v]].there /\ ~rec[tgev[v]].key
                    /\ tgpc[v] = "del_remove" \/ (tgpc[v] = "del_key" /\ ~rec[tgev[v]].there) =>
                          \A j \in JobIds : jobs[j] # tgev[v]
  <2>1. tgev'[w] # NoEvent /\ tgev'[w] \notin torn' => H(w)'
    <3>1. e \notin torn' /\ ~rec[e].there => \A j \in JobIds : jobs[j] # e
      BY <1>0, <1>1 DEF JobsTracked
    <3>2. QED BY <1>0, <1>1, <1>2, <3>1 DEF AddLabels, DelLabels
  <2>2. ASSUME NEW v \in TgWorkers \ {w}, tgev'[v] # NoEvent, tgev'[v] \notin torn' PROVE H(v)'
    <3>1. tgev[v] # NoEvent /\ tgev[v] \notin torn
      BY <1>1, <1>2, <2>2
    <3>2. H(v)
      BY <1>0, <3>1 DEF Held
    <3>3. QED BY <1>0, <1>1, <1>2, <2>2, <3>1, <3>2 DEF Alone
  <2>3. ASSUME NEW v \in TgWorkers, tgev'[v] # NoEvent, tgev'[v] \notin torn' PROVE H(v)'
    <3>1. CASE v = w
      BY <2>1, <2>3, <3>1
    <3>2. CASE v # w
      BY <2>2, <2>3, <3>2
    <3>3. QED BY <3>1, <3>2
  <2>4. QED BY <2>3 DEF Held
<1>7. UrlKept'
  BY <1>0, <1>1, <1>2 DEF UrlKept, UrlKeyed, Cleaning, Looking
<1>8. CronJobs'
  BY <1>0, <1>1, <1>2 DEF CronJobs
<1>9. JobsTracked'
  BY <1>0, <1>1, <1>2 DEF JobsTracked
<1>10. HeardOf'
  <2>1. Clean' => Clean
    BY <1>0, <1>1, <1>2 DEF Clean
  <2>2. Clean' => Listening' = Listening /\ Subscribing' = Subscribing
    BY <1>0, <1>1, <1>2, <2>1 DEF Listening, Subscribing, InUse
  <2>3. QED BY <1>0, <1>1, <1>2, <2>1, <2>2 DEF HeardOf, Clean
<1>11. QED BY <1>3, <1>4, <1>5, <1>6, <1>7, <1>8, <1>9, <1>10 DEF TgCore

\* DELETE begins with the record, a removal of the function with what it listed.
LEMMA TgFindKeeps ==
  ASSUME TgInv, NEW w \in TgWorkers, NEW e \in Events, DelFind(w, e)
  PROVE  TgCore'
<1>1. rec[e] \in TgRec /\ rec[e].there /\ kind[e] # Unused
  BY TgParts DEF DelFind, InHand
<1>2. QED BY <1>1, TgBeginKeeps DEF DelFind

LEMMA TgClearNextKeeps ==
  ASSUME TgInv, NEW w \in TgWorkers, NEW e \in Events, ClearNext(w, e)
  PROVE  TgCore'
<1>1. tglist[w][e] \in TgRec /\ tglist[w][e].there
  BY DEF ClearNext, TgInv, ListTypes
<1>2. kind[e] # Unused /\ (e \notin torn /\ rec[e].there => rec[e].job = tglist[w][e].job)
  BY <1>1 DEF TgInv, Listed
<1>3. QED BY <1>1, <1>2, TgBeginKeeps DEF ClearNext

\* A removal of the function lists its triggers.
LEMMA TgClearAllKeeps ==
  ASSUME TgInv, NEW w \in TgWorkers, ClearAll(w)
  PROVE  TgCore'
<1> USE TgKnown
<1>0. /\ TgTypes /\ InHand /\ Alone /\ Held /\ UrlKept /\ CronJobs /\ JobsTracked /\ HeardOf
      /\ kind \in [Events -> Kinds \cup {Unused}] /\ rec \in [Events -> TgRec]
      /\ jobs \in [JobIds -> Events \cup {NoEvent}]
      /\ tgev \in [TgWorkers -> Events \cup {NoEvent}]
      /\ tgcopy \in [TgWorkers -> TgRec]
      /\ tgpc \in [TgWorkers -> {"idle", "clear", "down"} \cup AddLabels \cup DelLabels]
      /\ tgfaults \in Nat /\ tgrestarts \in Nat /\ torn \subseteq Events
  BY TgParts
<1>1. /\ \A v \in TgWorkers \ {w} : /\ tgpc'[v] = tgpc[v] /\ tgev'[v] = tgev[v]
                                    /\ tgcopy'[v] = tgcopy[v]
      /\ tgpc[w] = "idle" /\ tgpc'[w] = "clear"
      /\ tgpc' \in [TgWorkers -> {"idle", "clear", "down"} \cup AddLabels \cup DelLabels]
      /\ torn' \subseteq Events /\ torn \subseteq torn'
  BY <1>0 DEF ClearAll
<1>2. UNCHANGED <<kind, rec, jobs, nextjob, listeners, notify, fngen, fnlive, url, tgev, tgcopy, cpc, cres, urlLate, tgfaults, tgrestarts>>
  BY DEF ClearAll, recVars, hndVars, fnVars, reqVars, calVars, TgGoto, TgOk, Starts, UrlStart, CronStart, ListenStart, CallDone, Stop, CronStop
<1>3. TgTypes'
  BY <1>0, <1>1, <1>2 DEF TgTypes, TgStateOK, AddLabels, DelLabels, TgRec
<1>4. InHand'
  BY <1>0, <1>1, <1>2 DEF InHand
<1>5. Alone'
  BY <1>0, <1>1, <1>2 DEF Alone
<1>6. Held'
  <2> DEFINE H(v) ==
                    /\ tgpc[v] \in AddLabels => rec[tgev[v]] = [Gone EXCEPT !.there = TRUE]
                    /\ tgpc[v] \in DelLabels /\ rec[tgev[v]].there => rec[tgev[v]].job = tgcopy[v].job
                    /\ tgpc[v] \in {"del_stop", "del_remove"} => rec[tgev[v]].there /\ ~rec[tgev[v]].key
                    /\ tgpc[v] = "del_remove" \/ (tgpc[v] = "del_key" /\ ~rec[tgev[v]].there) =>
                          \A j \in JobIds : jobs[j] # tgev[v]
  <2>1. tgev'[w] # NoEvent /\ tgev'[w] \notin torn' => H(w)'
    BY <1>0, <1>1, <1>2 DEF Held, AddLabels, DelLabels
  <2>2. ASSUME NEW v \in TgWorkers \ {w}, tgev'[v] # NoEvent, tgev'[v] \notin torn' PROVE H(v)'
    <3>1. tgev[v] # NoEvent /\ tgev[v] \notin torn
      BY <1>1, <1>2, <2>2
    <3>2. H(v)
      BY <1>0, <3>1 DEF Held
    <3>3. QED BY <1>0, <1>1, <1>2, <2>2, <3>1, <3>2 DEF Alone
  <2>3. ASSUME NEW v \in TgWorkers, tgev'[v] # NoEvent, tgev'[v] \notin torn' PROVE H(v)'
    <3>1. CASE v = w
      BY <2>1, <2>3, <3>1
    <3>2. CASE v # w
      BY <2>2, <2>3, <3>2
    <3>3. QED BY <3>1, <3>2
  <2>4. QED BY <2>3 DEF Held
<1>7. UrlKept'
  BY <1>0, <1>1, <1>2 DEF UrlKept, UrlKeyed, Cleaning, Looking
<1>8. CronJobs'
  BY <1>0, <1>1, <1>2 DEF CronJobs
<1>9. JobsTracked'
  BY <1>0, <1>1, <1>2 DEF JobsTracked
<1>10. HeardOf'
  <2>1. Clean' => Clean
    BY <1>0, <1>1, <1>2 DEF Clean
  <2>2. Clean' => Listening' = Listening /\ Subscribing' = Subscribing
    BY <1>0, <1>1, <1>2, <2>1 DEF Listening, Subscribing, InUse
  <2>3. QED BY <1>0, <1>1, <1>2, <2>1, <2>2 DEF HeardOf, Clean
<1>11. QED BY <1>3, <1>4, <1>5, <1>6, <1>7, <1>8, <1>9, <1>10 DEF TgCore

\* The function goes.
LEMMA TgFnRemoveKeeps ==
  ASSUME TgInv, NEW w \in TgWorkers, FnRemove(w)
  PROVE  TgCore'
<1> USE TgKnown
<1>0. /\ TgTypes /\ InHand /\ Alone /\ Held /\ UrlKept /\ CronJobs /\ JobsTracked /\ HeardOf
      /\ kind \in [Events -> Kinds \cup {Unused}] /\ rec \in [Events -> TgRec]
      /\ jobs \in [JobIds -> Events \cup {NoEvent}]
      /\ tgev \in [TgWorkers -> Events \cup {NoEvent}]
      /\ tgcopy \in [TgWorkers -> TgRec]
      /\ tgpc \in [TgWorkers -> {"idle", "clear", "down"} \cup AddLabels \cup DelLabels]
      /\ tgfaults \in Nat /\ tgrestarts \in Nat /\ torn \subseteq Events
  BY TgParts
<1>1. /\ \A v \in TgWorkers \ {w} : /\ tgpc'[v] = tgpc[v] /\ tgev'[v] = tgev[v]
                                    /\ tgcopy'[v] = tgcopy[v]
      /\ tgpc[w] = "clear" /\ tgpc'[w] = "idle" /\ tgev'[w] = NoEvent /\ tgev[w] = NoEvent /\ fnlive' \in BOOLEAN
      /\ tgpc' \in [TgWorkers -> {"idle", "clear", "down"} \cup AddLabels \cup DelLabels]
      /\ tgev' \in [TgWorkers -> Events \cup {NoEvent}] /\ tgcopy' \in [TgWorkers -> TgRec]
  <2>1. /\ tgpc' = [tgpc EXCEPT ![w] = "idle"] /\ tgev' = [tgev EXCEPT ![w] = NoEvent]
        /\ tgcopy' = [tgcopy EXCEPT ![w] = Gone] /\ tglist' = [tglist EXCEPT ![w] = NoneListed]
        /\ tgpc[w] = "clear" /\ fnlive' = FALSE
    BY DEF FnRemove, TgFailed
  <2>2. tgev[w] = NoEvent
    BY <1>0, <2>1 DEF InHand
  <2>3. /\ tgpc' \in [TgWorkers -> {"idle", "clear", "down"} \cup AddLabels \cup DelLabels]
        /\ tgev' \in [TgWorkers -> Events \cup {NoEvent}] /\ tgcopy' \in [TgWorkers -> TgRec]
      BY <1>0, <2>1
  <2>4. QED BY <1>0, <2>1, <2>2, <2>3
<1>2. UNCHANGED <<kind, rec, jobs, nextjob, listeners, notify, fngen, url, cpc, cres, urlLate, torn, tgfaults, tgrestarts>>
  BY DEF FnRemove, recVars, hndVars, fnVars, reqVars, calVars, TgGoto, TgOk, Starts, UrlStart, CronStart, ListenStart, CallDone, Stop, CronStop
<1>3. TgTypes'
  BY <1>0, <1>1, <1>2 DEF TgTypes, TgStateOK, AddLabels, DelLabels, TgRec
<1>4. InHand'
  BY <1>0, <1>1, <1>2 DEF InHand
<1>5. Alone'
  BY <1>0, <1>1, <1>2 DEF Alone
<1>6. Held'
  <2> DEFINE H(v) ==
                    /\ tgpc[v] \in AddLabels => rec[tgev[v]] = [Gone EXCEPT !.there = TRUE]
                    /\ tgpc[v] \in DelLabels /\ rec[tgev[v]].there => rec[tgev[v]].job = tgcopy[v].job
                    /\ tgpc[v] \in {"del_stop", "del_remove"} => rec[tgev[v]].there /\ ~rec[tgev[v]].key
                    /\ tgpc[v] = "del_remove" \/ (tgpc[v] = "del_key" /\ ~rec[tgev[v]].there) =>
                          \A j \in JobIds : jobs[j] # tgev[v]
  <2>1. tgev'[w] # NoEvent /\ tgev'[w] \notin torn' => H(w)'
    BY <1>0, <1>1, <1>2 DEF Held, AddLabels, DelLabels
  <2>2. ASSUME NEW v \in TgWorkers \ {w}, tgev'[v] # NoEvent, tgev'[v] \notin torn' PROVE H(v)'
    <3>1. tgev[v] # NoEvent /\ tgev[v] \notin torn
      BY <1>1, <1>2, <2>2
    <3>2. H(v)
      BY <1>0, <3>1 DEF Held
    <3>3. QED BY <1>0, <1>1, <1>2, <2>2, <3>1, <3>2 DEF Alone
  <2>3. ASSUME NEW v \in TgWorkers, tgev'[v] # NoEvent, tgev'[v] \notin torn' PROVE H(v)'
    <3>1. CASE v = w
      BY <2>1, <2>3, <3>1
    <3>2. CASE v # w
      BY <2>2, <2>3, <3>2
    <3>3. QED BY <3>1, <3>2
  <2>4. QED BY <2>3 DEF Held
<1>7. UrlKept'
  BY <1>0, <1>1, <1>2 DEF UrlKept, UrlKeyed, Cleaning, Looking
<1>8. CronJobs'
  BY <1>0, <1>1, <1>2 DEF CronJobs
<1>9. JobsTracked'
  BY <1>0, <1>1, <1>2 DEF JobsTracked
<1>10. HeardOf'
  <2>1. Clean' => Clean
    BY <1>0, <1>1, <1>2 DEF Clean
  <2>2. Clean' => Listening' = Listening /\ Subscribing' = Subscribing
    BY <1>0, <1>1, <1>2, <2>1 DEF Listening, Subscribing, InUse
  <2>3. QED BY <1>0, <1>1, <1>2, <2>1, <2>2 DEF HeardOf, Clean
<1>11. QED BY <1>3, <1>4, <1>5, <1>6, <1>7, <1>8, <1>9, <1>10 DEF TgCore

\* And is added anew.
LEMMA TgFnAddKeeps ==
  ASSUME TgInv, NEW w \in TgWorkers, FnAdd(w)
  PROVE  TgCore'
<1> USE TgKnown
<1>0. /\ TgTypes /\ InHand /\ Alone /\ Held /\ UrlKept /\ CronJobs /\ JobsTracked /\ HeardOf
      /\ kind \in [Events -> Kinds \cup {Unused}] /\ rec \in [Events -> TgRec]
      /\ jobs \in [JobIds -> Events \cup {NoEvent}]
      /\ tgev \in [TgWorkers -> Events \cup {NoEvent}]
      /\ tgcopy \in [TgWorkers -> TgRec]
      /\ tgpc \in [TgWorkers -> {"idle", "clear", "down"} \cup AddLabels \cup DelLabels]
      /\ tgfaults \in Nat /\ tgrestarts \in Nat /\ torn \subseteq Events
  BY TgParts
<1>1. fngen' \in Nat /\ fnlive' \in BOOLEAN
  BY <1>0 DEF FnAdd, TgTypes, TgStateOK
<1>2. UNCHANGED <<kind, rec, jobs, nextjob, listeners, notify, url, tgpc, tgev, tgcopy, tglist, cpc, cres, urlLate, torn, tgfaults, tgrestarts>>
  BY DEF FnAdd, recVars, hndVars, fnVars, reqVars, calVars, TgGoto, TgOk, Starts, UrlStart, CronStart, ListenStart, CallDone, Stop, CronStop
<1>3. TgTypes'
  BY <1>0, <1>1, <1>2 DEF TgTypes, TgStateOK, AddLabels, DelLabels, TgRec
<1>4. InHand'
  BY <1>0, <1>1, <1>2 DEF InHand
<1>5. Alone'
  BY <1>0, <1>1, <1>2 DEF Alone
<1>6. Held'
  BY <1>0, <1>1, <1>2 DEF Held, AddLabels, DelLabels
<1>7. UrlKept'
  BY <1>0, <1>1, <1>2 DEF UrlKept, UrlKeyed, Cleaning, Looking
<1>8. CronJobs'
  BY <1>0, <1>1, <1>2 DEF CronJobs
<1>9. JobsTracked'
  BY <1>0, <1>1, <1>2 DEF JobsTracked
<1>10. HeardOf'
  <2>1. Clean' => Clean
    BY <1>0, <1>1, <1>2 DEF Clean
  <2>2. Clean' => Listening' = Listening /\ Subscribing' = Subscribing
    BY <1>0, <1>1, <1>2, <2>1 DEF Listening, Subscribing, InUse
  <2>3. QED BY <1>0, <1>1, <1>2, <2>1, <2>2 DEF HeardOf, Clean
<1>11. QED BY <1>3, <1>4, <1>5, <1>6, <1>7, <1>8, <1>9, <1>10 DEF TgCore

\* A call looks its URL up.
LEMMA TgLookupKeeps ==
  ASSUME TgInv, NEW c \in TgCallers, UrlLookup(c)
  PROVE  TgCore'
<1> USE TgKnown
<1>0. /\ TgTypes /\ InHand /\ Alone /\ Held /\ UrlKept /\ CronJobs /\ JobsTracked /\ HeardOf
      /\ kind \in [Events -> Kinds \cup {Unused}] /\ rec \in [Events -> TgRec]
      /\ jobs \in [JobIds -> Events \cup {NoEvent}]
      /\ tgev \in [TgWorkers -> Events \cup {NoEvent}]
      /\ tgcopy \in [TgWorkers -> TgRec]
      /\ tgpc \in [TgWorkers -> {"idle", "clear", "down"} \cup AddLabels \cup DelLabels]
      /\ tgfaults \in Nat /\ tgrestarts \in Nat /\ torn \subseteq Events
  BY TgParts
<1>1. /\ UrlKeyed /\ cpc' \in [TgCallers -> {"idle", "memd", "store", "down"}]
  BY <1>0 DEF UrlLookup, UrlKeyed, TgTypes
<1>2. UNCHANGED <<kind, rec, jobs, nextjob, listeners, notify, fngen, fnlive, url, tgpc, tgev, tgcopy, tglist, cres, urlLate, torn, tgfaults, tgrestarts>>
  BY DEF UrlLookup, recVars, hndVars, fnVars, reqVars, calVars, TgGoto, TgOk, Starts, UrlStart, CronStart, ListenStart, CallDone, Stop, CronStop
<1>3. TgTypes'
  BY <1>0, <1>1, <1>2 DEF TgTypes, TgStateOK, AddLabels, DelLabels, TgRec
<1>4. InHand'
  BY <1>0, <1>1, <1>2 DEF InHand
<1>5. Alone'
  BY <1>0, <1>1, <1>2 DEF Alone
<1>6. Held'
  BY <1>0, <1>1, <1>2 DEF Held, AddLabels, DelLabels
<1>7. UrlKept'
  BY <1>0, <1>1, <1>2 DEF UrlKept, UrlKeyed, Cleaning, Looking
<1>8. CronJobs'
  BY <1>0, <1>1, <1>2 DEF CronJobs
<1>9. JobsTracked'
  BY <1>0, <1>1, <1>2 DEF JobsTracked
<1>10. HeardOf'
  <2>1. Clean' => Clean
    BY <1>0, <1>1, <1>2 DEF Clean
  <2>2. Clean' => Listening' = Listening /\ Subscribing' = Subscribing
    BY <1>0, <1>1, <1>2, <2>1 DEF Listening, Subscribing, InUse
  <2>3. QED BY <1>0, <1>1, <1>2, <2>1, <2>2 DEF HeardOf, Clean
<1>11. QED BY <1>3, <1>4, <1>5, <1>6, <1>7, <1>8, <1>9, <1>10 DEF TgCore

\* It gets the function's data.
LEMMA TgMemdKeeps ==
  ASSUME TgInv, NEW c \in TgCallers, UrlMemd(c)
  PROVE  TgCore'
<1> USE TgKnown
<1>0. /\ TgTypes /\ InHand /\ Alone /\ Held /\ UrlKept /\ CronJobs /\ JobsTracked /\ HeardOf
      /\ kind \in [Events -> Kinds \cup {Unused}] /\ rec \in [Events -> TgRec]
      /\ jobs \in [JobIds -> Events \cup {NoEvent}]
      /\ tgev \in [TgWorkers -> Events \cup {NoEvent}]
      /\ tgcopy \in [TgWorkers -> TgRec]
      /\ tgpc \in [TgWorkers -> {"idle", "clear", "down"} \cup AddLabels \cup DelLabels]
      /\ tgfaults \in Nat /\ tgrestarts \in Nat /\ torn \subseteq Events
  BY TgParts
<1>1. /\ Looking /\ cpc' \in [TgCallers -> {"idle", "memd", "store", "down"}]
      /\ cres' \in [TgCallers -> Nat \cup {Uncached}]
  BY <1>0 DEF UrlMemd, Looking, TgTypes, TgStateOK, NilFn
<1>2. UNCHANGED <<kind, rec, jobs, nextjob, listeners, notify, fngen, fnlive, url, tgpc, tgev, tgcopy, tglist, urlLate, torn, tgfaults, tgrestarts>>
  BY DEF UrlMemd, recVars, hndVars, fnVars, reqVars, calVars, TgGoto, TgOk, Starts, UrlStart, CronStart, ListenStart, CallDone, Stop, CronStop
<1>3. TgTypes'
  BY <1>0, <1>1, <1>2 DEF TgTypes, TgStateOK, AddLabels, DelLabels, TgRec
<1>4. InHand'
  BY <1>0, <1>1, <1>2 DEF InHand
<1>5. Alone'
  BY <1>0, <1>1, <1>2 DEF Alone
<1>6. Held'
  BY <1>0, <1>1, <1>2 DEF Held, AddLabels, DelLabels
<1>7. UrlKept'
  BY <1>0, <1>1, <1>2 DEF UrlKept, UrlKeyed, Cleaning, Looking
<1>8. CronJobs'
  BY <1>0, <1>1, <1>2 DEF CronJobs
<1>9. JobsTracked'
  BY <1>0, <1>1, <1>2 DEF JobsTracked
<1>10. HeardOf'
  <2>1. Clean' => Clean
    BY <1>0, <1>1, <1>2 DEF Clean
  <2>2. Clean' => Listening' = Listening /\ Subscribing' = Subscribing
    BY <1>0, <1>1, <1>2, <2>1 DEF Listening, Subscribing, InUse
  <2>3. QED BY <1>0, <1>1, <1>2, <2>1, <2>2 DEF HeardOf, Clean
<1>11. QED BY <1>3, <1>4, <1>5, <1>6, <1>7, <1>8, <1>9, <1>10 DEF TgCore

\* It caches the handler.
LEMMA TgStoreKeeps ==
  ASSUME TgInv, NEW c \in TgCallers, UrlStore(c)
  PROVE  TgCore'
<1> USE TgKnown
<1>0. /\ TgTypes /\ InHand /\ Alone /\ Held /\ UrlKept /\ CronJobs /\ JobsTracked /\ HeardOf
      /\ kind \in [Events -> Kinds \cup {Unused}] /\ rec \in [Events -> TgRec]
      /\ jobs \in [JobIds -> Events \cup {NoEvent}]
      /\ tgev \in [TgWorkers -> Events \cup {NoEvent}]
      /\ tgcopy \in [TgWorkers -> TgRec]
      /\ tgpc \in [TgWorkers -> {"idle", "clear", "down"} \cup AddLabels \cup DelLabels]
      /\ tgfaults \in Nat /\ tgrestarts \in Nat /\ torn \subseteq Events
  BY TgParts
<1>1. /\ Looking /\ cpc' \in [TgCallers -> {"idle", "memd", "store", "down"}] /\ url' \in Nat \cup {Uncached}
  BY <1>0 DEF UrlStore, CallDone, Looking, TgTypes, TgStateOK
<1>2. UNCHANGED <<kind, rec, jobs, nextjob, listeners, notify, fngen, fnlive, tgpc, tgev, tgcopy, tglist, cres, urlLate, torn, tgfaults, tgrestarts>>
  BY DEF UrlStore, recVars, hndVars, fnVars, reqVars, calVars, TgGoto, TgOk, Starts, UrlStart, CronStart, ListenStart, CallDone, Stop, CronStop
<1>3. TgTypes'
  BY <1>0, <1>1, <1>2 DEF TgTypes, TgStateOK, AddLabels, DelLabels, TgRec
<1>4. InHand'
  BY <1>0, <1>1, <1>2 DEF InHand
<1>5. Alone'
  BY <1>0, <1>1, <1>2 DEF Alone
<1>6. Held'
  BY <1>0, <1>1, <1>2 DEF Held, AddLabels, DelLabels
<1>7. UrlKept'
  BY <1>0, <1>1, <1>2 DEF UrlKept, UrlKeyed, Cleaning, Looking
<1>8. CronJobs'
  BY <1>0, <1>1, <1>2 DEF CronJobs
<1>9. JobsTracked'
  BY <1>0, <1>1, <1>2 DEF JobsTracked
<1>10. HeardOf'
  <2>1. Clean' => Clean
    BY <1>0, <1>1, <1>2 DEF Clean
  <2>2. Clean' => Listening' = Listening /\ Subscribing' = Subscribing
    BY <1>0, <1>1, <1>2, <2>1 DEF Listening, Subscribing, InUse
  <2>3. QED BY <1>0, <1>1, <1>2, <2>1, <2>2 DEF HeardOf, Clean
<1>11. QED BY <1>3, <1>4, <1>5, <1>6, <1>7, <1>8, <1>9, <1>10 DEF TgCore

\* The handler of a URL or a web socket starts.
LEMMA TgUrlStartKeeps ==
  ASSUME TgInv, NEW w \in TgWorkers, tgpc[w] = "add_start", UrlStart(w)
  PROVE  TgCore'
<1> USE TgKnown
<1>0. /\ TgTypes /\ InHand /\ Alone /\ Held /\ UrlKept /\ CronJobs /\ JobsTracked /\ HeardOf
      /\ kind \in [Events -> Kinds \cup {Unused}] /\ rec \in [Events -> TgRec]
      /\ jobs \in [JobIds -> Events \cup {NoEvent}]
      /\ tgev \in [TgWorkers -> Events \cup {NoEvent}]
      /\ tgcopy \in [TgWorkers -> TgRec]
      /\ tgpc \in [TgWorkers -> {"idle", "clear", "down"} \cup AddLabels \cup DelLabels]
      /\ tgfaults \in Nat /\ tgrestarts \in Nat /\ torn \subseteq Events
  BY TgParts
<1>1. /\ \A v \in TgWorkers \ {w} : /\ tgpc'[v] = tgpc[v] /\ tgev'[v] = tgev[v]
                                    /\ tgcopy'[v] = tgcopy[v]
      /\ tgpc' \in [TgWorkers -> {"idle", "clear", "down"} \cup AddLabels \cup DelLabels]
      /\ tgev' \in [TgWorkers -> Events \cup {NoEvent}] /\ tgcopy' \in [TgWorkers -> TgRec]
      /\ tgpc[w] = "add_start" /\ tgpc'[w] = "add_save" /\ tgev'[w] = tgev[w] /\ tgev[w] \in Events
      /\ tgcopy'[w].key /\ tgcopy'[w].there = tgcopy[w].there /\ tgcopy'[w].job = tgcopy[w].job
      /\ kind[tgev[w]] # "s3"
  <2>1. Keyed(w) \in TgRec /\ Keyed(w).key /\ Keyed(w).there = tgcopy[w].there /\ Keyed(w).job = tgcopy[w].job
    BY <1>0 DEF Keyed, TgRec
  <2>2. QED BY <1>0, <2>1 DEF UrlStart, Starts, InHand, AddLabels
<1>2. UNCHANGED <<kind, rec, jobs, nextjob, listeners, notify, fngen, fnlive, url, tgev, tglist, cpc, cres, urlLate, torn, tgfaults, tgrestarts>>
  BY DEF UrlStart, recVars, hndVars, fnVars, reqVars, calVars, TgGoto, TgOk, Starts, UrlStart, CronStart, ListenStart, CallDone, Stop, CronStop
<1>3. TgTypes'
  BY <1>0, <1>1, <1>2 DEF TgTypes, TgStateOK, AddLabels, DelLabels, TgRec
<1>4. InHand'
  BY <1>0, <1>1, <1>2 DEF InHand
<1>5. Alone'
  BY <1>0, <1>1, <1>2 DEF Alone
<1>6. Held'
  <2> DEFINE H(v) ==
                    /\ tgpc[v] \in AddLabels => rec[tgev[v]] = [Gone EXCEPT !.there = TRUE]
                    /\ tgpc[v] \in DelLabels /\ rec[tgev[v]].there => rec[tgev[v]].job = tgcopy[v].job
                    /\ tgpc[v] \in {"del_stop", "del_remove"} => rec[tgev[v]].there /\ ~rec[tgev[v]].key
                    /\ tgpc[v] = "del_remove" \/ (tgpc[v] = "del_key" /\ ~rec[tgev[v]].there) =>
                          \A j \in JobIds : jobs[j] # tgev[v]
  <2>1. tgev'[w] # NoEvent /\ tgev'[w] \notin torn' => H(w)'
    BY <1>0, <1>1, <1>2 DEF Held, AddLabels, DelLabels
  <2>2. ASSUME NEW v \in TgWorkers \ {w}, tgev'[v] # NoEvent, tgev'[v] \notin torn' PROVE H(v)'
    <3>1. tgev[v] # NoEvent /\ tgev[v] \notin torn
      BY <1>1, <1>2, <2>2
    <3>2. H(v)
      BY <1>0, <3>1 DEF Held
    <3>3. QED BY <1>0, <1>1, <1>2, <2>2, <3>1, <3>2 DEF Alone
  <2>3. ASSUME NEW v \in TgWorkers, tgev'[v] # NoEvent, tgev'[v] \notin torn' PROVE H(v)'
    <3>1. CASE v = w
      BY <2>1, <2>3, <3>1
    <3>2. CASE v # w
      BY <2>2, <2>3, <3>2
    <3>3. QED BY <3>1, <3>2
  <2>4. QED BY <2>3 DEF Held
<1>7. UrlKept'
  BY <1>0, <1>1, <1>2 DEF UrlKept, UrlKeyed, Cleaning, Looking
<1>8. CronJobs'
  BY <1>0, <1>1, <1>2 DEF CronJobs
<1>9. JobsTracked'
  BY <1>0, <1>1, <1>2 DEF JobsTracked
<1>10. HeardOf'
  <2>1. Clean' => Clean
    BY <1>0, <1>1, <1>2 DEF Clean
  <2>2. Clean' => Listening' = Listening /\ Subscribing' = Subscribing
    BY <1>0, <1>1, <1>2, <2>1 DEF Listening, Subscribing, InUse
  <2>3. QED BY <1>0, <1>1, <1>2, <2>1, <2>2 DEF HeardOf, Clean
<1>11. QED BY <1>3, <1>4, <1>5, <1>6, <1>7, <1>8, <1>9, <1>10 DEF TgCore

\* A job starts, or its tab does not parse.
LEMMA TgCronStartKeeps ==
  ASSUME TgInv, NEW w \in TgWorkers, tgpc[w] = "add_start", CronStart(w)
  PROVE  TgCore'
<1> USE TgKnown
<1>0. /\ TgTypes /\ InHand /\ Alone /\ Held /\ UrlKept /\ CronJobs /\ JobsTracked /\ HeardOf
      /\ kind \in [Events -> Kinds \cup {Unused}] /\ rec \in [Events -> TgRec]
      /\ jobs \in [JobIds -> Events \cup {NoEvent}]
      /\ tgev \in [TgWorkers -> Events \cup {NoEvent}]
      /\ tgcopy \in [TgWorkers -> TgRec]
      /\ tgpc \in [TgWorkers -> {"idle", "clear", "down"} \cup AddLabels \cup DelLabels]
      /\ tgfaults \in Nat /\ tgrestarts \in Nat /\ torn \subseteq Events
  BY TgParts
<1>1. /\ \A v \in TgWorkers \ {w} : /\ tgpc'[v] = tgpc[v] /\ tgev'[v] = tgev[v]
                                    /\ tgcopy'[v] = tgcopy[v]
      /\ tgpc' \in [TgWorkers -> {"idle", "clear", "down"} \cup AddLabels \cup DelLabels]
      /\ tgev' \in [TgWorkers -> Events \cup {NoEvent}] /\ tgcopy' \in [TgWorkers -> TgRec]
      /\ tgpc[w] = "add_start" /\ tgpc'[w] = "add_save" /\ tgev'[w] = tgev[w] /\ tgev[w] \in Events
      /\ tgcopy'[w].there = tgcopy[w].there /\ kind[tgev[w]] \in Crons
      /\ jobs' \in [JobIds -> Events \cup {NoEvent}] /\ nextjob' \in Nat /\ tgcopy[w].job = NoJob
      /\ \A j \in JobIds : jobs'[j] = jobs[j] \/ (jobs'[j] = tgev[w] /\ tgcopy'[w].job = j /\ kind[tgev[w]] = "cron")
  <2>1. \A j \in JobIds : /\ [tgcopy[w] EXCEPT !.job = j] \in TgRec
                          /\ [tgcopy[w] EXCEPT !.job = j].there = tgcopy[w].there
                          /\ [tgcopy[w] EXCEPT !.job = j].job = j
    BY <1>0 DEF TgRec
  <2>2. tgev[w] \in Events /\ tgcopy[w].job = NoJob /\ tglist' = tglist /\ tgev' = tgev
    BY <1>0 DEF InHand, AddLabels, CronStart, Starts
  <2>3. CASE /\ kind[tgev[w]] = "cron" /\ nextjob \in JobIds
             /\ jobs' = [jobs EXCEPT ![nextjob] = tgev[w]] /\ nextjob' = nextjob + 1
             /\ Starts(w, [tgcopy[w] EXCEPT !.job = nextjob], "add_save")
    BY <1>0, <2>1, <2>2, <2>3 DEF CronStart, Starts, AddLabels
  <2>4. CASE kind[tgev[w]] = "badtab" /\ Starts(w, tgcopy[w], "add_save") /\ UNCHANGED <<jobs, nextjob>>
    BY <1>0, <2>2, <2>4 DEF CronStart, Starts, AddLabels, TgTypes, TgStateOK
  <2>5. QED BY <2>3, <2>4 DEF CronStart
<1>2. UNCHANGED <<kind, rec, listeners, notify, fngen, fnlive, url, tgev, tglist, cpc, cres, urlLate, torn, tgfaults, tgrestarts>>
  BY DEF CronStart, recVars, hndVars, fnVars, reqVars, calVars, TgGoto, TgOk, Starts, UrlStart, CronStart, ListenStart, CallDone, Stop, CronStop
<1>3. TgTypes'
  BY <1>0, <1>1, <1>2 DEF TgTypes, TgStateOK, AddLabels, DelLabels, TgRec
<1>4. InHand'
  BY <1>0, <1>1, <1>2 DEF InHand, Crons
<1>5. Alone'
  BY <1>0, <1>1, <1>2 DEF Alone
<1>6. Held'
  <2> DEFINE H(v) ==
                    /\ tgpc[v] \in AddLabels => rec[tgev[v]] = [Gone EXCEPT !.there = TRUE]
                    /\ tgpc[v] \in DelLabels /\ rec[tgev[v]].there => rec[tgev[v]].job = tgcopy[v].job
                    /\ tgpc[v] \in {"del_stop", "del_remove"} => rec[tgev[v]].there /\ ~rec[tgev[v]].key
                    /\ tgpc[v] = "del_remove" \/ (tgpc[v] = "del_key" /\ ~rec[tgev[v]].there) =>
                          \A j \in JobIds : jobs[j] # tgev[v]
  <2>1. tgev'[w] # NoEvent /\ tgev'[w] \notin torn' => H(w)'
    BY <1>0, <1>1, <1>2 DEF Held, AddLabels, DelLabels
  <2>2. ASSUME NEW v \in TgWorkers \ {w}, tgev'[v] # NoEvent, tgev'[v] \notin torn' PROVE H(v)'
    <3>1. tgev[v] # NoEvent /\ tgev[v] \notin torn
      BY <1>1, <1>2, <2>2
    <3>2. H(v)
      BY <1>0, <3>1 DEF Held
    <3>3. QED BY <1>0, <1>1, <1>2, <2>2, <3>1, <3>2 DEF Alone
  <2>3. ASSUME NEW v \in TgWorkers, tgev'[v] # NoEvent, tgev'[v] \notin torn' PROVE H(v)'
    <3>1. CASE v = w
      BY <2>1, <2>3, <3>1
    <3>2. CASE v # w
      BY <2>2, <2>3, <3>2
    <3>3. QED BY <3>1, <3>2
  <2>4. QED BY <2>3 DEF Held
<1>7. UrlKept'
  BY <1>0, <1>1, <1>2 DEF UrlKept, UrlKeyed, Cleaning, Looking
<1>8. CronJobs'
  BY <1>0, <1>1, <1>2 DEF CronJobs
<1>9. JobsTracked'
  BY <1>0, <1>1, <1>2 DEF JobsTracked
<1>10. HeardOf'
  <2>1. Clean' => Clean
    BY <1>0, <1>1, <1>2 DEF Clean
  <2>2. Clean' => Listening' = Listening /\ Subscribing' = Subscribing
    BY <1>0, <1>1, <1>2, <2>1 DEF Listening, Subscribing, InUse, Crons
  <2>3. QED BY <1>0, <1>1, <1>2, <2>1, <2>2 DEF HeardOf, Clean, Crons
<1>11. QED BY <1>3, <1>4, <1>5, <1>6, <1>7, <1>8, <1>9, <1>10 DEF TgCore

\* The listener of an S3 trigger starts, or does not.
LEMMA TgListenStartKeeps ==
  ASSUME TgInv, NEW w \in TgWorkers, tgpc[w] = "add_start", ListenStart(w)
  PROVE  TgCore'
<1> USE TgKnown
<1>0. /\ TgTypes /\ InHand /\ Alone /\ Held /\ UrlKept /\ CronJobs /\ JobsTracked /\ HeardOf
      /\ kind \in [Events -> Kinds \cup {Unused}] /\ rec \in [Events -> TgRec]
      /\ jobs \in [JobIds -> Events \cup {NoEvent}]
      /\ tgev \in [TgWorkers -> Events \cup {NoEvent}]
      /\ tgcopy \in [TgWorkers -> TgRec]
      /\ tgpc \in [TgWorkers -> {"idle", "clear", "down"} \cup AddLabels \cup DelLabels]
      /\ tgfaults \in Nat /\ tgrestarts \in Nat /\ torn \subseteq Events
  BY TgParts
<1>1. /\ \A v \in TgWorkers \ {w} : /\ tgpc'[v] = tgpc[v] /\ tgev'[v] = tgev[v]
                                    /\ tgcopy'[v] = tgcopy[v]
      /\ tgpc' \in [TgWorkers -> {"idle", "clear", "down"} \cup AddLabels \cup DelLabels]
      /\ tgev' \in [TgWorkers -> Events \cup {NoEvent}] /\ tgcopy' \in [TgWorkers -> TgRec]
      /\ tgpc[w] = "add_start" /\ tgpc'[w] \in {"add_sub", "add_save"} /\ tgev'[w] = tgev[w] /\ tgev[w] \in Events
      /\ tgcopy'[w].key /\ tgcopy'[w].there = tgcopy[w].there /\ tgcopy'[w].job = tgcopy[w].job
      /\ kind[tgev[w]] = "s3" /\ listeners' \in Nat
      /\ \/ tgpc'[w] = "add_sub" /\ listeners' = listeners + 1 /\ tgfaults' = tgfaults
         \/ tgfaults' = tgfaults + 1
  <2>1. Keyed(w) \in TgRec /\ Keyed(w).key /\ Keyed(w).there = tgcopy[w].there /\ Keyed(w).job = tgcopy[w].job
    BY <1>0 DEF Keyed, TgRec
  <2>2. listeners \in Nat
    BY <1>0 DEF TgTypes, TgStateOK
  <2>3. QED BY <1>0, <2>1, <2>2 DEF ListenStart, Starts, InHand, AddLabels, TgOk, TgFault, StartListener
<1>2. UNCHANGED <<kind, rec, jobs, nextjob, notify, fngen, fnlive, url, tgev, tglist, cpc, cres, urlLate, torn, tgrestarts>>
  BY DEF ListenStart, recVars, hndVars, fnVars, reqVars, calVars, TgGoto, TgOk, Starts, UrlStart, CronStart, ListenStart, CallDone, Stop, CronStop
<1>3. TgTypes'
  BY <1>0, <1>1, <1>2 DEF TgTypes, TgStateOK, AddLabels, DelLabels, TgRec
<1>4. InHand'
  BY <1>0, <1>1, <1>2 DEF InHand
<1>5. Alone'
  BY <1>0, <1>1, <1>2 DEF Alone
<1>6. Held'
  <2> DEFINE H(v) ==
                    /\ tgpc[v] \in AddLabels => rec[tgev[v]] = [Gone EXCEPT !.there = TRUE]
                    /\ tgpc[v] \in DelLabels /\ rec[tgev[v]].there => rec[tgev[v]].job = tgcopy[v].job
                    /\ tgpc[v] \in {"del_stop", "del_remove"} => rec[tgev[v]].there /\ ~rec[tgev[v]].key
                    /\ tgpc[v] = "del_remove" \/ (tgpc[v] = "del_key" /\ ~rec[tgev[v]].there) =>
                          \A j \in JobIds : jobs[j] # tgev[v]
  <2>1. tgev'[w] # NoEvent /\ tgev'[w] \notin torn' => H(w)'
    BY <1>0, <1>1, <1>2 DEF Held, AddLabels, DelLabels
  <2>2. ASSUME NEW v \in TgWorkers \ {w}, tgev'[v] # NoEvent, tgev'[v] \notin torn' PROVE H(v)'
    <3>1. tgev[v] # NoEvent /\ tgev[v] \notin torn
      BY <1>1, <1>2, <2>2
    <3>2. H(v)
      BY <1>0, <3>1 DEF Held
    <3>3. QED BY <1>0, <1>1, <1>2, <2>2, <3>1, <3>2 DEF Alone
  <2>3. ASSUME NEW v \in TgWorkers, tgev'[v] # NoEvent, tgev'[v] \notin torn' PROVE H(v)'
    <3>1. CASE v = w
      BY <2>1, <2>3, <3>1
    <3>2. CASE v # w
      BY <2>2, <2>3, <3>2
    <3>3. QED BY <3>1, <3>2
  <2>4. QED BY <2>3 DEF Held
<1>7. UrlKept'
  BY <1>0, <1>1, <1>2 DEF UrlKept, UrlKeyed, Cleaning, Looking
<1>8. CronJobs'
  BY <1>0, <1>1, <1>2 DEF CronJobs
<1>9. JobsTracked'
  BY <1>0, <1>1, <1>2 DEF JobsTracked
<1>10. HeardOf'
  <2>1. Clean' => Clean
    BY <1>0, <1>1, <1>2 DEF Clean
  <2>2. ASSUME Clean'
        PROVE  /\ \A v \in TgWorkers : tgev[v] = tgev[w] => v = w
               /\ tgev[w] \in Events /\ Clean /\ tgpc[w] # "add_undo"
               /\ tgfaults' = 0 /\ tgfaults = 0
    BY <1>0, <1>1, <2>1, <2>2 DEF Alone, Clean, HeardOf
  <2>2a. ASSUME Clean'
         PROVE  /\ tgpc[w] \in AddLabels => ~rec[tgev[w]].key /\ rec[tgev[w]].there
                /\ tgpc[w] \in {"del_stop", "del_remove"} => rec[tgev[w]].there
                /\ tgpc[w] \in {"del_stop", "del_remove"} => ~rec[tgev[w]].key
                /\ kind[tgev[w]] = "s3" /\ tgpc[w] \in {"add_sub", "add_save"} => tgcopy[w].key
                /\ kind[tgev[w]] = "s3" /\ tgpc[w] = "del_key" /\ rec[tgev[w]].there => rec[tgev[w]].key
    <3>1. tgev[w] # NoEvent /\ tgev[w] \notin torn
      BY <2>2, <2>2a DEF Clean
    <3>2. /\ tgpc[w] \in AddLabels => ~rec[tgev[w]].key /\ rec[tgev[w]].there
          /\ tgpc[w] \in {"del_stop", "del_remove"} => rec[tgev[w]].there
          /\ tgpc[w] \in {"del_stop", "del_remove"} => ~rec[tgev[w]].key
      BY <1>0, <3>1 DEF Held
    <3>3. /\ kind[tgev[w]] = "s3" /\ tgpc[w] \in {"add_sub", "add_save"} => tgcopy[w].key
          /\ kind[tgev[w]] = "s3" /\ tgpc[w] = "del_key" /\ rec[tgev[w]].there => rec[tgev[w]].key
      BY <1>0, <2>2, <2>2a, <3>1 DEF HeardOf
    <3>4. QED BY <3>2, <3>3
  <2>2b. ASSUME Clean' PROVE tgpc'[w] = "add_sub" /\ listeners' = listeners + 1
    <3>1. tgfaults' = 0 /\ tgfaults = 0
      BY <2>2, <2>2b
    <3>2. /\ tgpc[w] \in {"add_start", "add_sub", "add_save"} => ~rec[tgev[w]].key /\ rec[tgev[w]].there
          /\ tgpc[w] \in {"del_stop", "del_remove"} => rec[tgev[w]].there
          /\ tgpc[w] \in {"del_stop", "del_remove"} => ~rec[tgev[w]].key
          /\ kind[tgev[w]] = "s3" /\ tgpc[w] \in {"add_sub", "add_save"} => tgcopy[w].key
          /\ kind[tgev[w]] = "s3" /\ tgpc[w] = "del_key" /\ rec[tgev[w]].there => rec[tgev[w]].key
      BY <2>2a, <2>2b DEF AddLabels, DelLabels
    <3>3. QED BY <1>1, <3>1, <3>2
  <2>3. ASSUME Clean'
        PROVE  listeners' = Cardinality(Listening)' /\ notify' = Cardinality(Subscribing)'
    <3>1. /\ tgev[w] \in Events /\ kind' = kind /\ tgev'[w] \in {tgev[w], NoEvent}
          /\ \A v \in TgWorkers \ {w} : tgpc'[v] = tgpc[v] /\ tgev'[v] = tgev[v]
          /\ \A f \in Events \ {tgev[w]} : rec'[f] = rec[f]
          /\ \A v \in TgWorkers : tgev[v] = tgev[w] => v = w
      BY <1>1, <1>2, <2>2, <2>3
    <3>2. listeners = Cardinality(Listening) /\ notify = Cardinality(Subscribing)
      BY <1>0, <1>1, <2>2, <2>3 DEF HeardOf
    <3>3. listeners \in Nat /\ notify \in Int /\ listeners' \in Nat /\ notify' \in Int
      BY <1>0, <1>1, <1>2 DEF TgTypes, TgStateOK
    <3>4. Cardinality(Listening)' = Cardinality(Listening) + (listeners' - listeners)
      <4> DEFINE L == {"add_sub", "add_save", "del_stop"}
      <4>1. /\ tgev[w] \in InUse(L) <=> kind[tgev[w]] = "s3" /\ (rec[tgev[w]].key \/ tgpc[w] \in L)
            /\ tgev[w] \in InUse(L)' <=> kind[tgev[w]] = "s3" /\ (rec'[tgev[w]].key \/ (tgev'[w] = tgev[w] /\ tgpc'[w] \in L))
        BY <3>1, InUseMoves
      <4>2. /\ Cardinality(InUse(L)) \in Nat /\ (tgev[w] \in InUse(L) => Cardinality(InUse(L)) > 0)
            /\ Cardinality(InUse(L)') = Cardinality(InUse(L)) + (IF tgev[w] \in InUse(L)' THEN 1 ELSE 0)
                                                         - (IF tgev[w] \in InUse(L) THEN 1 ELSE 0)
        BY <3>1, InUseMoves
      <4>3. tgfaults' = 0 /\ tgfaults = 0
        BY <2>2, <2>3
      <4>4. tgev[w] \notin InUse(L) /\ tgev[w] \in InUse(L)' /\ listeners' = listeners + 1
        BY <1>1, <1>2, <2>2, <2>2b, <2>3, <2>2a, <3>3, <4>1, <4>3 DEF AddLabels, DelLabels
      <4>5. listeners' - listeners = (IF tgev[w] \in InUse(L)' THEN 1 ELSE 0) - (IF tgev[w] \in InUse(L) THEN 1 ELSE 0)
        BY <3>3, <4>4
      <4>6. Listening = InUse(L) /\ Listening' = InUse(L)'
        BY DEF Listening
      <4>7. Cardinality(Listening)' = Cardinality(InUse(L)') /\ Cardinality(Listening) = Cardinality(InUse(L))
        BY <4>6
      <4>8. Cardinality(InUse(L)') = Cardinality(InUse(L)) + (listeners' - listeners) /\ Cardinality(InUse(L)) \in Nat
        BY <3>3, <4>2, <4>5
      <4>9. QED BY <3>3, <4>7, <4>8
    <3>5. Cardinality(Subscribing)' = Cardinality(Subscribing) + (notify' - notify)
      <4> DEFINE L == {"add_save", "del_stop"}
      <4>1. /\ tgev[w] \in InUse(L) <=> kind[tgev[w]] = "s3" /\ (rec[tgev[w]].key \/ tgpc[w] \in L)
            /\ tgev[w] \in InUse(L)' <=> kind[tgev[w]] = "s3" /\ (rec'[tgev[w]].key \/ (tgev'[w] = tgev[w] /\ tgpc'[w] \in L))
        BY <3>1, InUseMoves
      <4>2. /\ Cardinality(InUse(L)) \in Nat /\ (tgev[w] \in InUse(L) => Cardinality(InUse(L)) > 0)
            /\ Cardinality(InUse(L)') = Cardinality(InUse(L)) + (IF tgev[w] \in InUse(L)' THEN 1 ELSE 0)
                                                         - (IF tgev[w] \in InUse(L) THEN 1 ELSE 0)
        BY <3>1, InUseMoves
      <4>3. tgfaults' = 0 /\ tgfaults = 0
        BY <2>2, <2>3
      <4>4. tgev[w] \notin InUse(L) /\ tgev[w] \notin InUse(L)' /\ notify' = notify
        BY <1>1, <1>2, <2>2, <2>2b, <2>3, <2>2a, <3>3, <4>1, <4>3 DEF AddLabels, DelLabels
      <4>5. notify' - notify = (IF tgev[w] \in InUse(L)' THEN 1 ELSE 0) - (IF tgev[w] \in InUse(L) THEN 1 ELSE 0)
        BY <3>3, <4>4
      <4>6. Subscribing = InUse(L) /\ Subscribing' = InUse(L)'
        BY DEF Subscribing
      <4>7. Cardinality(Subscribing)' = Cardinality(InUse(L)') /\ Cardinality(Subscribing) = Cardinality(InUse(L))
        BY <4>6
      <4>8. Cardinality(InUse(L)') = Cardinality(InUse(L)) + (notify' - notify) /\ Cardinality(InUse(L)) \in Nat
        BY <3>3, <4>2, <4>5
      <4>9. QED BY <3>3, <4>7, <4>8
    <3>6. QED BY <3>2, <3>3, <3>4, <3>5
  <2>4. ASSUME Clean'
        PROVE  \A f \in Events : kind'[f] = "s3" /\ rec'[f].there => rec'[f].key \/ \E v \in TgWorkers : tgev'[v] = f
    BY <1>0, <1>1, <1>2, <2>2, <2>2b, <2>4 DEF HeardOf, Held, AddLabels, DelLabels, Clean
  <2>5. ASSUME Clean'
        PROVE  \A v \in TgWorkers :
              /\ tgpc'[v] # "add_undo"
              /\ tgev'[v] # NoEvent /\ kind'[tgev'[v]] = "s3" =>
                    /\ tgpc'[v] \in {"add_sub", "add_save"} => tgcopy'[v].key
                    /\ tgpc'[v] = "del_key" /\ rec'[tgev'[v]].there => rec'[tgev'[v]].key
    BY <1>0, <1>1, <1>2, <2>2, <2>2b, <2>5 DEF HeardOf, Held, AddLabels, DelLabels, Clean, InHand
  <2>6. QED BY <2>3, <2>4, <2>5 DEF HeardOf
<1>11. QED BY <1>3, <1>4, <1>5, <1>6, <1>7, <1>8, <1>9, <1>10 DEF TgCore

\* The bucket is subscribed.
LEMMA TgAddSubscribeKeeps ==
  ASSUME TgInv, NEW w \in TgWorkers, AddSubscribe(w)
  PROVE  TgCore'
<1> USE TgKnown
<1>0. /\ TgTypes /\ InHand /\ Alone /\ Held /\ UrlKept /\ CronJobs /\ JobsTracked /\ HeardOf
      /\ kind \in [Events -> Kinds \cup {Unused}] /\ rec \in [Events -> TgRec]
      /\ jobs \in [JobIds -> Events \cup {NoEvent}]
      /\ tgev \in [TgWorkers -> Events \cup {NoEvent}]
      /\ tgcopy \in [TgWorkers -> TgRec]
      /\ tgpc \in [TgWorkers -> {"idle", "clear", "down"} \cup AddLabels \cup DelLabels]
      /\ tgfaults \in Nat /\ tgrestarts \in Nat /\ torn \subseteq Events
  BY TgParts
<1>1. /\ \A v \in TgWorkers \ {w} : /\ tgpc'[v] = tgpc[v] /\ tgev'[v] = tgev[v]
                                    /\ tgcopy'[v] = tgcopy[v]
      /\ tgpc' \in [TgWorkers -> {"idle", "clear", "down"} \cup AddLabels \cup DelLabels]
      /\ tgev' \in [TgWorkers -> Events \cup {NoEvent}] /\ tgcopy' \in [TgWorkers -> TgRec]
      /\ tgev[w] \in Events /\ tgfaults' \in Nat
      /\ tgpc[w] = "add_sub" /\ tgpc'[w] = "add_save" /\ tgev' = tgev /\ tgcopy' = tgcopy
      /\ kind[tgev[w]] = "s3" /\ listeners' \in Nat /\ notify' \in Int
      /\ \/ notify' = notify + 1 /\ listeners' = listeners /\ tgfaults' = tgfaults
         \/ tgfaults' = tgfaults + 1
  <2>1. listeners \in Nat /\ notify \in Int
    BY <1>0 DEF TgTypes, TgStateOK
  <2>2. StopListener(listeners) \in Nat
    BY <2>1 DEF StopListener
  <2>3. QED BY <1>0, <2>1, <2>2 DEF AddSubscribe, InHand, AddLabels, TgOk, TgFault, TgGoto, Subscribed
<1>2. UNCHANGED <<kind, rec, jobs, nextjob, fngen, fnlive, url, tgev, tgcopy, tglist, cpc, cres, urlLate, torn, tgrestarts>>
  BY DEF AddSubscribe, recVars, hndVars, fnVars, reqVars, calVars, TgGoto, TgOk, Starts, UrlStart, CronStart, ListenStart, CallDone, Stop, CronStop
<1>3. TgTypes'
  BY <1>0, <1>1, <1>2 DEF TgTypes, TgStateOK, AddLabels, DelLabels, TgRec
<1>4. InHand'
  BY <1>0, <1>1, <1>2 DEF InHand
<1>5. Alone'
  BY <1>0, <1>1, <1>2 DEF Alone
<1>6. Held'
  <2> DEFINE H(v) ==
                    /\ tgpc[v] \in AddLabels => rec[tgev[v]] = [Gone EXCEPT !.there = TRUE]
                    /\ tgpc[v] \in DelLabels /\ rec[tgev[v]].there => rec[tgev[v]].job = tgcopy[v].job
                    /\ tgpc[v] \in {"del_stop", "del_remove"} => rec[tgev[v]].there /\ ~rec[tgev[v]].key
                    /\ tgpc[v] = "del_remove" \/ (tgpc[v] = "del_key" /\ ~rec[tgev[v]].there) =>
                          \A j \in JobIds : jobs[j] # tgev[v]
  <2>1. tgev'[w] # NoEvent /\ tgev'[w] \notin torn' => H(w)'
    BY <1>0, <1>1, <1>2 DEF Held, AddLabels, DelLabels
  <2>2. ASSUME NEW v \in TgWorkers \ {w}, tgev'[v] # NoEvent, tgev'[v] \notin torn' PROVE H(v)'
    <3>1. tgev[v] # NoEvent /\ tgev[v] \notin torn
      BY <1>1, <1>2, <2>2
    <3>2. H(v)
      BY <1>0, <3>1 DEF Held
    <3>3. QED BY <1>0, <1>1, <1>2, <2>2, <3>1, <3>2 DEF Alone
  <2>3. ASSUME NEW v \in TgWorkers, tgev'[v] # NoEvent, tgev'[v] \notin torn' PROVE H(v)'
    <3>1. CASE v = w
      BY <2>1, <2>3, <3>1
    <3>2. CASE v # w
      BY <2>2, <2>3, <3>2
    <3>3. QED BY <3>1, <3>2
  <2>4. QED BY <2>3 DEF Held
<1>7. UrlKept'
  BY <1>0, <1>1, <1>2 DEF UrlKept, UrlKeyed, Cleaning, Looking
<1>8. CronJobs'
  BY <1>0, <1>1, <1>2 DEF CronJobs
<1>9. JobsTracked'
  BY <1>0, <1>1, <1>2 DEF JobsTracked
<1>10. HeardOf'
  <2>1. Clean' => Clean
    BY <1>0, <1>1, <1>2 DEF Clean
  <2>2. ASSUME Clean'
        PROVE  /\ \A v \in TgWorkers : tgev[v] = tgev[w] => v = w
               /\ tgev[w] \in Events /\ Clean /\ tgpc[w] # "add_undo"
               /\ tgfaults' = 0 /\ tgfaults = 0
    BY <1>0, <1>1, <2>1, <2>2 DEF Alone, Clean, HeardOf
  <2>2a. ASSUME Clean'
         PROVE  /\ tgpc[w] \in AddLabels => ~rec[tgev[w]].key /\ rec[tgev[w]].there
                /\ tgpc[w] \in {"del_stop", "del_remove"} => rec[tgev[w]].there
                /\ tgpc[w] \in {"del_stop", "del_remove"} => ~rec[tgev[w]].key
                /\ kind[tgev[w]] = "s3" /\ tgpc[w] \in {"add_sub", "add_save"} => tgcopy[w].key
                /\ kind[tgev[w]] = "s3" /\ tgpc[w] = "del_key" /\ rec[tgev[w]].there => rec[tgev[w]].key
    <3>1. tgev[w] # NoEvent /\ tgev[w] \notin torn
      BY <2>2, <2>2a DEF Clean
    <3>2. /\ tgpc[w] \in AddLabels => ~rec[tgev[w]].key /\ rec[tgev[w]].there
          /\ tgpc[w] \in {"del_stop", "del_remove"} => rec[tgev[w]].there
          /\ tgpc[w] \in {"del_stop", "del_remove"} => ~rec[tgev[w]].key
      BY <1>0, <3>1 DEF Held
    <3>3. /\ kind[tgev[w]] = "s3" /\ tgpc[w] \in {"add_sub", "add_save"} => tgcopy[w].key
          /\ kind[tgev[w]] = "s3" /\ tgpc[w] = "del_key" /\ rec[tgev[w]].there => rec[tgev[w]].key
      BY <1>0, <2>2, <2>2a, <3>1 DEF HeardOf
    <3>4. QED BY <3>2, <3>3
  <2>2b. ASSUME Clean' PROVE notify' = notify + 1 /\ listeners' = listeners
    <3>1. tgfaults' = 0 /\ tgfaults = 0
      BY <2>2, <2>2b
    <3>2. /\ tgpc[w] \in {"add_start", "add_sub", "add_save"} => ~rec[tgev[w]].key /\ rec[tgev[w]].there
          /\ tgpc[w] \in {"del_stop", "del_remove"} => rec[tgev[w]].there
          /\ tgpc[w] \in {"del_stop", "del_remove"} => ~rec[tgev[w]].key
          /\ kind[tgev[w]] = "s3" /\ tgpc[w] \in {"add_sub", "add_save"} => tgcopy[w].key
          /\ kind[tgev[w]] = "s3" /\ tgpc[w] = "del_key" /\ rec[tgev[w]].there => rec[tgev[w]].key
      BY <2>2a, <2>2b DEF AddLabels, DelLabels
    <3>3. QED BY <1>1, <3>1, <3>2
  <2>3. ASSUME Clean'
        PROVE  listeners' = Cardinality(Listening)' /\ notify' = Cardinality(Subscribing)'
    <3>1. /\ tgev[w] \in Events /\ kind' = kind /\ tgev'[w] \in {tgev[w], NoEvent}
          /\ \A v \in TgWorkers \ {w} : tgpc'[v] = tgpc[v] /\ tgev'[v] = tgev[v]
          /\ \A f \in Events \ {tgev[w]} : rec'[f] = rec[f]
          /\ \A v \in TgWorkers : tgev[v] = tgev[w] => v = w
      BY <1>1, <1>2, <2>2, <2>3
    <3>2. listeners = Cardinality(Listening) /\ notify = Cardinality(Subscribing)
      BY <1>0, <1>1, <2>2, <2>3 DEF HeardOf
    <3>3. listeners \in Nat /\ notify \in Int /\ listeners' \in Nat /\ notify' \in Int
      BY <1>0, <1>1, <1>2 DEF TgTypes, TgStateOK
    <3>4. Cardinality(Listening)' = Cardinality(Listening) + (listeners' - listeners)
      <4> DEFINE L == {"add_sub", "add_save", "del_stop"}
      <4>1. /\ tgev[w] \in InUse(L) <=> kind[tgev[w]] = "s3" /\ (rec[tgev[w]].key \/ tgpc[w] \in L)
            /\ tgev[w] \in InUse(L)' <=> kind[tgev[w]] = "s3" /\ (rec'[tgev[w]].key \/ (tgev'[w] = tgev[w] /\ tgpc'[w] \in L))
        BY <3>1, InUseMoves
      <4>2. /\ Cardinality(InUse(L)) \in Nat /\ (tgev[w] \in InUse(L) => Cardinality(InUse(L)) > 0)
            /\ Cardinality(InUse(L)') = Cardinality(InUse(L)) + (IF tgev[w] \in InUse(L)' THEN 1 ELSE 0)
                                                         - (IF tgev[w] \in InUse(L) THEN 1 ELSE 0)
        BY <3>1, InUseMoves
      <4>3. tgfaults' = 0 /\ tgfaults = 0
        BY <2>2, <2>3
      <4>4. tgev[w] \in InUse(L) /\ tgev[w] \in InUse(L)' /\ listeners' = listeners
        BY <1>1, <1>2, <2>2, <2>2b, <2>3, <2>2a, <3>3, <4>1, <4>3 DEF AddLabels, DelLabels
      <4>5. listeners' - listeners = (IF tgev[w] \in InUse(L)' THEN 1 ELSE 0) - (IF tgev[w] \in InUse(L) THEN 1 ELSE 0)
        BY <3>3, <4>4
      <4>6. Listening = InUse(L) /\ Listening' = InUse(L)'
        BY DEF Listening
      <4>7. Cardinality(Listening)' = Cardinality(InUse(L)') /\ Cardinality(Listening) = Cardinality(InUse(L))
        BY <4>6
      <4>8. Cardinality(InUse(L)') = Cardinality(InUse(L)) + (listeners' - listeners) /\ Cardinality(InUse(L)) \in Nat
        BY <3>3, <4>2, <4>5
      <4>9. QED BY <3>3, <4>7, <4>8
    <3>5. Cardinality(Subscribing)' = Cardinality(Subscribing) + (notify' - notify)
      <4> DEFINE L == {"add_save", "del_stop"}
      <4>1. /\ tgev[w] \in InUse(L) <=> kind[tgev[w]] = "s3" /\ (rec[tgev[w]].key \/ tgpc[w] \in L)
            /\ tgev[w] \in InUse(L)' <=> kind[tgev[w]] = "s3" /\ (rec'[tgev[w]].key \/ (tgev'[w] = tgev[w] /\ tgpc'[w] \in L))
        BY <3>1, InUseMoves
      <4>2. /\ Cardinality(InUse(L)) \in Nat /\ (tgev[w] \in InUse(L) => Cardinality(InUse(L)) > 0)
            /\ Cardinality(InUse(L)') = Cardinality(InUse(L)) + (IF tgev[w] \in InUse(L)' THEN 1 ELSE 0)
                                                         - (IF tgev[w] \in InUse(L) THEN 1 ELSE 0)
        BY <3>1, InUseMoves
      <4>3. tgfaults' = 0 /\ tgfaults = 0
        BY <2>2, <2>3
      <4>4. tgev[w] \notin InUse(L) /\ tgev[w] \in InUse(L)' /\ notify' = notify + 1
        BY <1>1, <1>2, <2>2, <2>2b, <2>3, <2>2a, <3>3, <4>1, <4>3 DEF AddLabels, DelLabels
      <4>5. notify' - notify = (IF tgev[w] \in InUse(L)' THEN 1 ELSE 0) - (IF tgev[w] \in InUse(L) THEN 1 ELSE 0)
        BY <3>3, <4>4
      <4>6. Subscribing = InUse(L) /\ Subscribing' = InUse(L)'
        BY DEF Subscribing
      <4>7. Cardinality(Subscribing)' = Cardinality(InUse(L)') /\ Cardinality(Subscribing) = Cardinality(InUse(L))
        BY <4>6
      <4>8. Cardinality(InUse(L)') = Cardinality(InUse(L)) + (notify' - notify) /\ Cardinality(InUse(L)) \in Nat
        BY <3>3, <4>2, <4>5
      <4>9. QED BY <3>3, <4>7, <4>8
    <3>6. QED BY <3>2, <3>3, <3>4, <3>5
  <2>4. ASSUME Clean'
        PROVE  \A f \in Events : kind'[f] = "s3" /\ rec'[f].there => rec'[f].key \/ \E v \in TgWorkers : tgev'[v] = f
    BY <1>0, <1>1, <1>2, <2>2, <2>2b, <2>4 DEF HeardOf, Held, AddLabels, DelLabels, Clean
  <2>5. ASSUME Clean'
        PROVE  \A v \in TgWorkers :
              /\ tgpc'[v] # "add_undo"
              /\ tgev'[v] # NoEvent /\ kind'[tgev'[v]] = "s3" =>
                    /\ tgpc'[v] \in {"add_sub", "add_save"} => tgcopy'[v].key
                    /\ tgpc'[v] = "del_key" /\ rec'[tgev'[v]].there => rec'[tgev'[v]].key
    BY <1>0, <1>1, <1>2, <2>2, <2>2b, <2>5 DEF HeardOf, Held, AddLabels, DelLabels, Clean, InHand
  <2>6. QED BY <2>3, <2>4, <2>5 DEF HeardOf
<1>11. QED BY <1>3, <1>4, <1>5, <1>6, <1>7, <1>8, <1>9, <1>10 DEF TgCore

\* The record is saved, or it is not.
LEMMA TgAddSaveKeeps ==
  ASSUME TgInv, NEW w \in TgWorkers, AddSave(w)
  PROVE  TgCore'
<1> USE TgKnown
<1>0. /\ TgTypes /\ InHand /\ Alone /\ Held /\ UrlKept /\ CronJobs /\ JobsTracked /\ HeardOf
      /\ kind \in [Events -> Kinds \cup {Unused}] /\ rec \in [Events -> TgRec]
      /\ jobs \in [JobIds -> Events \cup {NoEvent}]
      /\ tgev \in [TgWorkers -> Events \cup {NoEvent}]
      /\ tgcopy \in [TgWorkers -> TgRec]
      /\ tgpc \in [TgWorkers -> {"idle", "clear", "down"} \cup AddLabels \cup DelLabels]
      /\ tgfaults \in Nat /\ tgrestarts \in Nat /\ torn \subseteq Events
  BY TgParts
<1>1. /\ \A v \in TgWorkers \ {w} : /\ tgpc'[v] = tgpc[v] /\ tgev'[v] = tgev[v]
                                    /\ tgcopy'[v] = tgcopy[v]
      /\ tgpc' \in [TgWorkers -> {"idle", "clear", "down"} \cup AddLabels \cup DelLabels]
      /\ tgev' \in [TgWorkers -> Events \cup {NoEvent}] /\ tgcopy' \in [TgWorkers -> TgRec]
      /\ tgcopy' \in [TgWorkers -> TgRec] /\ tgpc[w] = "add_save"
      /\ tgev[w] \in Events /\ \A f \in Events \ {tgev[w]} : rec'[f] = rec[f]
      /\ rec' \in [Events -> TgRec] /\ tgfaults' \in Nat /\ tgfaults' >= tgfaults
      /\ \/ /\ rec[tgev[w]].there /\ rec'[tgev[w]] = tgcopy[w]
            /\ tgpc'[w] = "idle" /\ tgev'[w] = NoEvent /\ tgcopy'[w] = Gone /\ tgfaults' = tgfaults
         \/ /\ tgpc'[w] = "add_undo" /\ tgev'[w] = tgev[w] /\ tgcopy'[w] = tgcopy[w] /\ rec' = rec
            /\ (~rec[tgev[w]].there /\ tgfaults' = tgfaults) \/ tgfaults' = tgfaults + 1
  <2>1. tgev[w] \in Events /\ tgpc[w] = "add_save"
    BY <1>0 DEF AddSave, InHand
  <2>2. CASE /\ rec[tgev[w]].there /\ rec' = [rec EXCEPT ![tgev[w]] = tgcopy[w]]
             /\ TgFailed(w) /\ TgOk
    BY <1>0, <2>1, <2>2 DEF TgFailed, TgOk
  <2>3. CASE /\ (~rec[tgev[w]].there /\ TgOk) \/ TgFault
             /\ TgGoto(w, "add_undo") /\ UNCHANGED rec
    BY <1>0, <2>1, <2>3 DEF TgGoto, TgOk, TgFault, AddLabels
  <2>4. QED BY <2>2, <2>3 DEF AddSave
<1>2. UNCHANGED <<kind, jobs, nextjob, listeners, notify, fngen, fnlive, url, cpc, cres, urlLate, torn, tgrestarts>>
  BY DEF AddSave, recVars, hndVars, fnVars, reqVars, calVars, TgGoto, TgOk, Starts, UrlStart, CronStart, ListenStart, CallDone, Stop, CronStop
<1>3. TgTypes'
  BY <1>0, <1>1, <1>2 DEF TgTypes, TgStateOK, AddLabels, DelLabels, TgRec
<1>4. InHand'
  BY <1>0, <1>1, <1>2 DEF InHand
<1>5. Alone'
  BY <1>0, <1>1, <1>2 DEF Alone
<1>6. Held'
  <2> DEFINE H(v) ==
                    /\ tgpc[v] \in AddLabels => rec[tgev[v]] = [Gone EXCEPT !.there = TRUE]
                    /\ tgpc[v] \in DelLabels /\ rec[tgev[v]].there => rec[tgev[v]].job = tgcopy[v].job
                    /\ tgpc[v] \in {"del_stop", "del_remove"} => rec[tgev[v]].there /\ ~rec[tgev[v]].key
                    /\ tgpc[v] = "del_remove" \/ (tgpc[v] = "del_key" /\ ~rec[tgev[v]].there) =>
                          \A j \in JobIds : jobs[j] # tgev[v]
  <2>1. tgev'[w] # NoEvent /\ tgev'[w] \notin torn' => H(w)'
    <3>1. SUFFICES ASSUME tgev'[w] # NoEvent, tgev'[w] \notin torn' PROVE H(w)'
      OBVIOUS
    <3>2. tgpc'[w] = "add_undo" /\ tgev'[w] = tgev[w] /\ rec' = rec
      BY <1>1, <3>1
    <3>3. tgev[w] # NoEvent /\ tgev[w] \notin torn /\ tgpc[w] \in AddLabels
      BY <1>1, <1>2, <3>1, <3>2 DEF AddLabels
    <3>4. rec[tgev[w]] = [Gone EXCEPT !.there = TRUE]
      BY <1>0, <3>3 DEF Held
    <3>5. tgpc'[w] \notin DelLabels /\ tgpc'[w] \notin {"del_stop", "del_remove"}
      BY <3>2 DEF DelLabels
    <3>6. QED BY <3>2, <3>4, <3>5
  <2>2. ASSUME NEW v \in TgWorkers \ {w}, tgev'[v] # NoEvent, tgev'[v] \notin torn' PROVE H(v)'
    <3>1. tgev[v] # NoEvent /\ tgev[v] \notin torn
      BY <1>1, <1>2, <2>2
    <3>2. H(v)
      BY <1>0, <3>1 DEF Held
    <3>3. QED BY <1>0, <1>1, <1>2, <2>2, <3>1, <3>2 DEF Alone
  <2>3. ASSUME NEW v \in TgWorkers, tgev'[v] # NoEvent, tgev'[v] \notin torn' PROVE H(v)'
    <3>1. CASE v = w
      BY <2>1, <2>3, <3>1
    <3>2. CASE v # w
      BY <2>2, <2>3, <3>2
    <3>3. QED BY <3>1, <3>2
  <2>4. QED BY <2>3 DEF Held
<1>7. UrlKept'
  <2>1. ASSUME torn = {}
        PROVE  /\ tgev[w] # NoEvent /\ \A v \in TgWorkers : tgev[v] = tgev[w] => v = w
               /\ tgpc[w] \in AddLabels => ~rec[tgev[w]].key
               /\ tgpc[w] \in {"del_stop", "del_remove"} => ~rec[tgev[w]].key
    <3>1. tgev[w] # NoEvent /\ tgev[w] \notin torn
      BY <1>1, <2>1
    <3>2. \A v \in TgWorkers : tgev[v] = tgev[w] => v = w
      BY <1>0, <3>1 DEF Alone
    <3>3. QED BY <1>0, <3>1, <3>2 DEF Held
  <2>2. torn = {} /\ UrlKeyed => UrlKeyed'
    BY <1>0, <1>1, <1>2, <2>1 DEF UrlKeyed, AddLabels
  <2>3. torn = {} /\ Cleaning => Cleaning'
    BY <1>0, <1>1, <1>2, <2>1 DEF Cleaning
  <2>4. QED BY <1>0, <1>2, <2>2, <2>3 DEF UrlKept, Looking
<1>8. CronJobs'
  BY <1>0, <1>1, <1>2 DEF CronJobs
<1>9. JobsTracked'
  <2>1. ASSUME NEW j \in JobIds, jobs'[j] # NoEvent, jobs'[j] \notin torn
        PROVE  \/ rec'[jobs'[j]].there /\ rec'[jobs'[j]].job = j
               \/ \E v \in TgWorkers : tgev'[v] = jobs'[j] /\ tgcopy'[v].job = j
    <3>1. /\ jobs'[j] = jobs[j] /\ jobs[j] \in Events /\ kind[jobs[j]] = "cron"
          /\ \/ rec[jobs[j]].there /\ rec[jobs[j]].job = j
             \/ \E v \in TgWorkers : tgev[v] = jobs[j] /\ tgcopy[v].job = j
      BY <1>0, <1>1, <1>2, <2>1 DEF JobsTracked, CronJobs
    <3>2. CASE jobs[j] # tgev[w]
      <4>1. rec'[jobs[j]] = rec[jobs[j]]
        BY <1>1, <1>2, <3>1, <3>2
      <4>2. ASSUME NEW v \in TgWorkers, tgev[v] = jobs[j], tgcopy[v].job = j
            PROVE  \E u \in TgWorkers : tgev'[u] = jobs[j] /\ tgcopy'[u].job = j
        <5>1. v # w
          BY <3>2, <4>2
        <5>2. QED BY <1>1, <1>2, <4>2, <5>1
      <4>3. QED BY <3>1, <4>1, <4>2
    <3>3. CASE jobs[j] = tgev[w]
      <4>1. tgev[w] # NoEvent /\ tgev[w] \notin torn /\ \A v \in TgWorkers : tgev[v] = tgev[w] => v = w
        BY <1>0, <2>1, <3>1, <3>3 DEF Alone
      <4>2. /\ tgpc[w] \in AddLabels => rec[tgev[w]] = [Gone EXCEPT !.there = TRUE]
            /\ tgpc[w] \in DelLabels /\ rec[tgev[w]].there => rec[tgev[w]].job = tgcopy[w].job
            /\ tgpc[w] = "del_remove" => \A i \in JobIds : jobs[i] # tgev[w]
        BY <1>0, <4>1 DEF Held
      <4>3. tgcopy[w].job = j /\ tgcopy[w].there /\ rec[tgev[w]] \in TgRec
        <5>1. tgpc[w] \in AddLabels \/ tgpc[w] \in DelLabels
          BY <1>1 DEF AddLabels, DelLabels
        <5>2. tgcopy[w].job = j \/ (rec[tgev[w]].there /\ rec[tgev[w]].job = j)
          BY <3>1, <3>3, <4>1
        <5>3. tgcopy[w].job = j
          BY <4>2, <5>1, <5>2
        <5>4. QED BY <1>0, <1>1, <4>1, <5>3 DEF InHand
      <4>4. QED BY <1>0, <1>1, <1>2, <2>1, <3>1, <3>3, <4>2, <4>3 DEF AddLabels, DelLabels
    <3>4. QED BY <3>2, <3>3
  <2>2. QED BY <1>2, <2>1 DEF JobsTracked
<1>10. HeardOf'
  <2>1. Clean' => Clean
    BY <1>0, <1>1, <1>2 DEF Clean
  <2>2. ASSUME Clean'
        PROVE  /\ \A v \in TgWorkers : tgev[v] = tgev[w] => v = w
               /\ tgev[w] \in Events /\ Clean /\ tgpc[w] # "add_undo"
               /\ tgfaults' = 0 /\ tgfaults = 0
    BY <1>0, <1>1, <2>1, <2>2 DEF Alone, Clean, HeardOf
  <2>2a. ASSUME Clean'
         PROVE  /\ tgpc[w] \in AddLabels => ~rec[tgev[w]].key /\ rec[tgev[w]].there
                /\ tgpc[w] \in {"del_stop", "del_remove"} => rec[tgev[w]].there
                /\ tgpc[w] \in {"del_stop", "del_remove"} => ~rec[tgev[w]].key
                /\ kind[tgev[w]] = "s3" /\ tgpc[w] \in {"add_sub", "add_save"} => tgcopy[w].key
                /\ kind[tgev[w]] = "s3" /\ tgpc[w] = "del_key" /\ rec[tgev[w]].there => rec[tgev[w]].key
    <3>1. tgev[w] # NoEvent /\ tgev[w] \notin torn
      BY <2>2, <2>2a DEF Clean
    <3>2. /\ tgpc[w] \in AddLabels => ~rec[tgev[w]].key /\ rec[tgev[w]].there
          /\ tgpc[w] \in {"del_stop", "del_remove"} => rec[tgev[w]].there
          /\ tgpc[w] \in {"del_stop", "del_remove"} => ~rec[tgev[w]].key
      BY <1>0, <3>1 DEF Held
    <3>3. /\ kind[tgev[w]] = "s3" /\ tgpc[w] \in {"add_sub", "add_save"} => tgcopy[w].key
          /\ kind[tgev[w]] = "s3" /\ tgpc[w] = "del_key" /\ rec[tgev[w]].there => rec[tgev[w]].key
      BY <1>0, <2>2, <2>2a, <3>1 DEF HeardOf
    <3>4. QED BY <3>2, <3>3
  <2>2b. ASSUME Clean' PROVE rec[tgev[w]].there /\ rec'[tgev[w]] = tgcopy[w] /\ tgpc'[w] = "idle" /\ tgev'[w] = NoEvent /\ (kind[tgev[w]] = "s3" => rec'[tgev[w]].key)
    <3>1. tgfaults' = 0 /\ tgfaults = 0
      BY <2>2, <2>2b
    <3>2. /\ tgpc[w] \in {"add_start", "add_sub", "add_save"} => ~rec[tgev[w]].key /\ rec[tgev[w]].there
          /\ tgpc[w] \in {"del_stop", "del_remove"} => rec[tgev[w]].there
          /\ tgpc[w] \in {"del_stop", "del_remove"} => ~rec[tgev[w]].key
          /\ kind[tgev[w]] = "s3" /\ tgpc[w] \in {"add_sub", "add_save"} => tgcopy[w].key
          /\ kind[tgev[w]] = "s3" /\ tgpc[w] = "del_key" /\ rec[tgev[w]].there => rec[tgev[w]].key
      BY <2>2a, <2>2b DEF AddLabels, DelLabels
    <3>3. tgfaults' # tgfaults + 1 /\ rec[tgev[w]].there
      BY <1>1, <3>1, <3>2
    <3>4. rec'[tgev[w]] = tgcopy[w] /\ tgpc'[w] = "idle" /\ tgev'[w] = NoEvent
      BY <1>1, <3>3
    <3>5. tgcopy[w].key => rec'[tgev[w]].key
      BY <3>4
    <3>6. tgpc[w] = "add_save"
      BY <1>1
    <3>7. QED BY <3>2, <3>3, <3>4, <3>5, <3>6
  <2>3. ASSUME Clean'
        PROVE  listeners' = Cardinality(Listening)' /\ notify' = Cardinality(Subscribing)'
    <3>1. /\ tgev[w] \in Events /\ kind' = kind /\ tgev'[w] \in {tgev[w], NoEvent}
          /\ \A v \in TgWorkers \ {w} : tgpc'[v] = tgpc[v] /\ tgev'[v] = tgev[v]
          /\ \A f \in Events \ {tgev[w]} : rec'[f] = rec[f]
          /\ \A v \in TgWorkers : tgev[v] = tgev[w] => v = w
      BY <1>1, <1>2, <2>2, <2>3
    <3>2. listeners = Cardinality(Listening) /\ notify = Cardinality(Subscribing)
      BY <1>0, <1>1, <2>2, <2>3 DEF HeardOf
    <3>3. listeners \in Nat /\ notify \in Int /\ listeners' \in Nat /\ notify' \in Int
      BY <1>0, <1>1, <1>2 DEF TgTypes, TgStateOK
    <3>4. Cardinality(Listening)' = Cardinality(Listening) + (listeners' - listeners)
      <4> DEFINE L == {"add_sub", "add_save", "del_stop"}
      <4>1. /\ tgev[w] \in InUse(L) <=> kind[tgev[w]] = "s3" /\ (rec[tgev[w]].key \/ tgpc[w] \in L)
            /\ tgev[w] \in InUse(L)' <=> kind[tgev[w]] = "s3" /\ (rec'[tgev[w]].key \/ (tgev'[w] = tgev[w] /\ tgpc'[w] \in L))
        BY <3>1, InUseMoves
      <4>2. /\ Cardinality(InUse(L)) \in Nat /\ (tgev[w] \in InUse(L) => Cardinality(InUse(L)) > 0)
            /\ Cardinality(InUse(L)') = Cardinality(InUse(L)) + (IF tgev[w] \in InUse(L)' THEN 1 ELSE 0)
                                                         - (IF tgev[w] \in InUse(L) THEN 1 ELSE 0)
        BY <3>1, InUseMoves
      <4>3. tgfaults' = 0 /\ tgfaults = 0
        BY <2>2, <2>3
      <4>4. (tgev[w] \in InUse(L) <=> tgev[w] \in InUse(L)') /\ listeners' = listeners
        BY <1>1, <1>2, <2>2, <2>2b, <2>3, <2>2a, <3>3, <4>1, <4>3 DEF AddLabels, DelLabels
      <4>5. listeners' - listeners = (IF tgev[w] \in InUse(L)' THEN 1 ELSE 0) - (IF tgev[w] \in InUse(L) THEN 1 ELSE 0)
        BY <3>3, <4>4
      <4>6. Listening = InUse(L) /\ Listening' = InUse(L)'
        BY DEF Listening
      <4>7. Cardinality(Listening)' = Cardinality(InUse(L)') /\ Cardinality(Listening) = Cardinality(InUse(L))
        BY <4>6
      <4>8. Cardinality(InUse(L)') = Cardinality(InUse(L)) + (listeners' - listeners) /\ Cardinality(InUse(L)) \in Nat
        BY <3>3, <4>2, <4>5
      <4>9. QED BY <3>3, <4>7, <4>8
    <3>5. Cardinality(Subscribing)' = Cardinality(Subscribing) + (notify' - notify)
      <4> DEFINE L == {"add_save", "del_stop"}
      <4>1. /\ tgev[w] \in InUse(L) <=> kind[tgev[w]] = "s3" /\ (rec[tgev[w]].key \/ tgpc[w] \in L)
            /\ tgev[w] \in InUse(L)' <=> kind[tgev[w]] = "s3" /\ (rec'[tgev[w]].key \/ (tgev'[w] = tgev[w] /\ tgpc'[w] \in L))
        BY <3>1, InUseMoves
      <4>2. /\ Cardinality(InUse(L)) \in Nat /\ (tgev[w] \in InUse(L) => Cardinality(InUse(L)) > 0)
            /\ Cardinality(InUse(L)') = Cardinality(InUse(L)) + (IF tgev[w] \in InUse(L)' THEN 1 ELSE 0)
                                                         - (IF tgev[w] \in InUse(L) THEN 1 ELSE 0)
        BY <3>1, InUseMoves
      <4>3. tgfaults' = 0 /\ tgfaults = 0
        BY <2>2, <2>3
      <4>4. (tgev[w] \in InUse(L) <=> tgev[w] \in InUse(L)') /\ notify' = notify
        BY <1>1, <1>2, <2>2, <2>2b, <2>3, <2>2a, <3>3, <4>1, <4>3 DEF AddLabels, DelLabels
      <4>5. notify' - notify = (IF tgev[w] \in InUse(L)' THEN 1 ELSE 0) - (IF tgev[w] \in InUse(L) THEN 1 ELSE 0)
        BY <3>3, <4>4
      <4>6. Subscribing = InUse(L) /\ Subscribing' = InUse(L)'
        BY DEF Subscribing
      <4>7. Cardinality(Subscribing)' = Cardinality(InUse(L)') /\ Cardinality(Subscribing) = Cardinality(InUse(L))
        BY <4>6
      <4>8. Cardinality(InUse(L)') = Cardinality(InUse(L)) + (notify' - notify) /\ Cardinality(InUse(L)) \in Nat
        BY <3>3, <4>2, <4>5
      <4>9. QED BY <3>3, <4>7, <4>8
    <3>6. QED BY <3>2, <3>3, <3>4, <3>5
  <2>4. ASSUME Clean'
        PROVE  \A f \in Events : kind'[f] = "s3" /\ rec'[f].there => rec'[f].key \/ \E v \in TgWorkers : tgev'[v] = f
    BY <1>0, <1>1, <1>2, <2>2, <2>2b, <2>4 DEF HeardOf, Held, AddLabels, DelLabels, Clean
  <2>5. ASSUME Clean'
        PROVE  \A v \in TgWorkers :
              /\ tgpc'[v] # "add_undo"
              /\ tgev'[v] # NoEvent /\ kind'[tgev'[v]] = "s3" =>
                    /\ tgpc'[v] \in {"add_sub", "add_save"} => tgcopy'[v].key
                    /\ tgpc'[v] = "del_key" /\ rec'[tgev'[v]].there => rec'[tgev'[v]].key
    BY <1>0, <1>1, <1>2, <2>2, <2>2b, <2>5 DEF HeardOf, Held, AddLabels, DelLabels, Clean, InHand
  <2>6. QED BY <2>3, <2>4, <2>5 DEF HeardOf
<1>11. QED BY <1>3, <1>4, <1>5, <1>6, <1>7, <1>8, <1>9, <1>10 DEF TgCore

\* A trigger that could not be saved is stopped.
LEMMA TgAddUndoKeeps ==
  ASSUME TgInv, NEW w \in TgWorkers, AddUndo(w)
  PROVE  TgCore'
<1> USE TgKnown
<1>0. /\ TgTypes /\ InHand /\ Alone /\ Held /\ UrlKept /\ CronJobs /\ JobsTracked /\ HeardOf
      /\ kind \in [Events -> Kinds \cup {Unused}] /\ rec \in [Events -> TgRec]
      /\ jobs \in [JobIds -> Events \cup {NoEvent}]
      /\ tgev \in [TgWorkers -> Events \cup {NoEvent}]
      /\ tgcopy \in [TgWorkers -> TgRec]
      /\ tgpc \in [TgWorkers -> {"idle", "clear", "down"} \cup AddLabels \cup DelLabels]
      /\ tgfaults \in Nat /\ tgrestarts \in Nat /\ torn \subseteq Events
  BY TgParts
<1>1. /\ \A v \in TgWorkers \ {w} : /\ tgpc'[v] = tgpc[v] /\ tgev'[v] = tgev[v]
                                    /\ tgcopy'[v] = tgcopy[v]
      /\ tgpc' \in [TgWorkers -> {"idle", "clear", "down"} \cup AddLabels \cup DelLabels]
      /\ tgev' \in [TgWorkers -> Events \cup {NoEvent}] /\ tgcopy' \in [TgWorkers -> TgRec]
      /\ tgcopy' \in [TgWorkers -> TgRec]
      /\ tgpc[w] = "add_undo" /\ tgpc'[w] = "idle" /\ tgev'[w] = NoEvent /\ tgcopy'[w] = Gone
      /\ tgev[w] \in Events /\ \A f \in Events \ {tgev[w]} : rec'[f] = rec[f]
      /\ rec' \in [Events -> TgRec] /\ tgfaults' \in Nat /\ tgfaults' >= tgfaults
      /\ rec'[tgev[w]] = Gone \/ rec'[tgev[w]] = rec[tgev[w]]
      /\ jobs' \in [JobIds -> Events \cup {NoEvent}] /\ listeners' \in Nat /\ notify' \in Int
      /\ url' = Uncached \/ url' = url
      /\ \A j \in JobIds : /\ jobs'[j] # NoEvent => jobs'[j] = jobs[j]
                           /\ kind[tgev[w]] = "cron" /\ tgcopy[w].job = j => jobs'[j] = NoEvent
  <2>1. tgev[w] \in Events /\ tgcopy[w] \in TgRec /\ listeners \in Nat /\ notify \in Int
    BY <1>0 DEF AddUndo, InHand, TgTypes, TgStateOK
  <2>2. Stop(tgev[w], tgcopy[w]) =>
        /\ jobs' \in [JobIds -> Events \cup {NoEvent}] /\ nextjob' = nextjob
        /\ listeners' \in Nat /\ notify' \in Int
        /\ url' = (IF kind[tgev[w]] = "url" THEN Uncached ELSE url)
        /\ notify' = (IF kind[tgev[w]] = "s3" THEN notify - 1 ELSE notify)
        /\ listeners' = (IF kind[tgev[w]] = "s3" THEN StopListener(listeners) ELSE listeners)
        /\ \A j \in JobIds : /\ jobs'[j] # NoEvent => jobs'[j] = jobs[j]
                             /\ kind[tgev[w]] = "cron" /\ tgcopy[w].job = j => jobs'[j] = NoEvent
    <3>1. tgcopy[w].job \in JobIds \cup {NoJob}
      BY <2>1 DEF TgRec
    <3>2. QED BY <1>0, <2>1, <3>1 DEF Stop, UrlStop, CronStop, S3Stop, StopListener, Unsubscribed
  <2>3. CASE rec' = [rec EXCEPT ![tgev[w]] = Gone] /\ TgOk
    BY <1>0, <2>1, <2>2, <2>3 DEF AddUndo, TgFailed, TgOk
  <2>4. CASE TgFault /\ UNCHANGED rec
    BY <1>0, <2>1, <2>2, <2>4 DEF AddUndo, TgFailed, TgFault
  <2>5. QED BY <2>3, <2>4 DEF AddUndo
<1>2. UNCHANGED <<kind, nextjob, fngen, fnlive, cpc, cres, urlLate, torn, tgrestarts>>
  BY DEF AddUndo, recVars, hndVars, fnVars, reqVars, calVars, TgGoto, TgOk, Starts, UrlStart, CronStart, ListenStart, CallDone, Stop, CronStop
<1>3. TgTypes'
  BY <1>0, <1>1, <1>2 DEF TgTypes, TgStateOK, AddLabels, DelLabels, TgRec
<1>4. InHand'
  BY <1>0, <1>1, <1>2 DEF InHand
<1>5. Alone'
  BY <1>0, <1>1, <1>2 DEF Alone
<1>6. Held'
  <2> DEFINE H(v) ==
                    /\ tgpc[v] \in AddLabels => rec[tgev[v]] = [Gone EXCEPT !.there = TRUE]
                    /\ tgpc[v] \in DelLabels /\ rec[tgev[v]].there => rec[tgev[v]].job = tgcopy[v].job
                    /\ tgpc[v] \in {"del_stop", "del_remove"} => rec[tgev[v]].there /\ ~rec[tgev[v]].key
                    /\ tgpc[v] = "del_remove" \/ (tgpc[v] = "del_key" /\ ~rec[tgev[v]].there) =>
                          \A j \in JobIds : jobs[j] # tgev[v]
  <2>1. tgev'[w] # NoEvent /\ tgev'[w] \notin torn' => H(w)'
    BY <1>0, <1>1, <1>2 DEF Held, AddLabels, DelLabels
  <2>2. ASSUME NEW v \in TgWorkers \ {w}, tgev'[v] # NoEvent, tgev'[v] \notin torn' PROVE H(v)'
    <3>1. tgev[v] # NoEvent /\ tgev[v] \notin torn
      BY <1>1, <1>2, <2>2
    <3>2. H(v)
      BY <1>0, <3>1 DEF Held
    <3>3. QED BY <1>0, <1>1, <1>2, <2>2, <3>1, <3>2 DEF Alone
  <2>3. ASSUME NEW v \in TgWorkers, tgev'[v] # NoEvent, tgev'[v] \notin torn' PROVE H(v)'
    <3>1. CASE v = w
      BY <2>1, <2>3, <3>1
    <3>2. CASE v # w
      BY <2>2, <2>3, <3>2
    <3>3. QED BY <3>1, <3>2
  <2>4. QED BY <2>3 DEF Held
<1>7. UrlKept'
  <2>1. ASSUME torn = {}
        PROVE  /\ tgev[w] # NoEvent /\ \A v \in TgWorkers : tgev[v] = tgev[w] => v = w
               /\ tgpc[w] \in AddLabels => ~rec[tgev[w]].key
               /\ tgpc[w] \in {"del_stop", "del_remove"} => ~rec[tgev[w]].key
    <3>1. tgev[w] # NoEvent /\ tgev[w] \notin torn
      BY <1>1, <2>1
    <3>2. \A v \in TgWorkers : tgev[v] = tgev[w] => v = w
      BY <1>0, <3>1 DEF Alone
    <3>3. QED BY <1>0, <3>1, <3>2 DEF Held
  <2>2. torn = {} /\ UrlKeyed => UrlKeyed'
    BY <1>0, <1>1, <1>2, <2>1 DEF UrlKeyed, AddLabels
  <2>3. torn = {} /\ Cleaning => Cleaning'
    BY <1>0, <1>1, <1>2, <2>1 DEF Cleaning
  <2>4. QED BY <1>0, <1>1, <1>2, <2>2, <2>3 DEF UrlKept, Looking
<1>8. CronJobs'
  BY <1>0, <1>1, <1>2 DEF CronJobs
<1>9. JobsTracked'
  <2>1. ASSUME NEW j \in JobIds, jobs'[j] # NoEvent, jobs'[j] \notin torn
        PROVE  \/ rec'[jobs'[j]].there /\ rec'[jobs'[j]].job = j
               \/ \E v \in TgWorkers : tgev'[v] = jobs'[j] /\ tgcopy'[v].job = j
    <3>1. /\ jobs'[j] = jobs[j] /\ jobs[j] \in Events /\ kind[jobs[j]] = "cron"
          /\ \/ rec[jobs[j]].there /\ rec[jobs[j]].job = j
             \/ \E v \in TgWorkers : tgev[v] = jobs[j] /\ tgcopy[v].job = j
      BY <1>0, <1>1, <1>2, <2>1 DEF JobsTracked, CronJobs
    <3>2. CASE jobs[j] # tgev[w]
      <4>1. rec'[jobs[j]] = rec[jobs[j]]
        BY <1>1, <1>2, <3>1, <3>2
      <4>2. ASSUME NEW v \in TgWorkers, tgev[v] = jobs[j], tgcopy[v].job = j
            PROVE  \E u \in TgWorkers : tgev'[u] = jobs[j] /\ tgcopy'[u].job = j
        <5>1. v # w
          BY <3>2, <4>2
        <5>2. QED BY <1>1, <1>2, <4>2, <5>1
      <4>3. QED BY <3>1, <4>1, <4>2
    <3>3. CASE jobs[j] = tgev[w]
      <4>1. tgev[w] # NoEvent /\ tgev[w] \notin torn /\ \A v \in TgWorkers : tgev[v] = tgev[w] => v = w
        BY <1>0, <2>1, <3>1, <3>3 DEF Alone
      <4>2. /\ tgpc[w] \in AddLabels => rec[tgev[w]] = [Gone EXCEPT !.there = TRUE]
            /\ tgpc[w] \in DelLabels /\ rec[tgev[w]].there => rec[tgev[w]].job = tgcopy[w].job
            /\ tgpc[w] = "del_remove" => \A i \in JobIds : jobs[i] # tgev[w]
        BY <1>0, <4>1 DEF Held
      <4>3. tgcopy[w].job = j /\ tgcopy[w].there /\ rec[tgev[w]] \in TgRec
        <5>1. tgpc[w] \in AddLabels \/ tgpc[w] \in DelLabels
          BY <1>1 DEF AddLabels, DelLabels
        <5>2. tgcopy[w].job = j \/ (rec[tgev[w]].there /\ rec[tgev[w]].job = j)
          BY <3>1, <3>3, <4>1
        <5>3. tgcopy[w].job = j
          BY <4>2, <5>1, <5>2
        <5>4. QED BY <1>0, <1>1, <4>1, <5>3 DEF InHand
      <4>4. QED BY <1>0, <1>1, <1>2, <2>1, <3>1, <3>3, <4>2, <4>3 DEF AddLabels, DelLabels
    <3>4. QED BY <3>2, <3>3
  <2>2. QED BY <1>2, <2>1 DEF JobsTracked
<1>10. HeardOf'
  <2>1. Clean' => Clean
    BY <1>0, <1>1, <1>2 DEF Clean
  <2>2. Clean => tgpc[w] # "add_undo"
    BY <1>0 DEF HeardOf
  <2>3. QED BY <1>1, <2>1, <2>2 DEF HeardOf
<1>11. QED BY <1>3, <1>4, <1>5, <1>6, <1>7, <1>8, <1>9, <1>10 DEF TgCore

\* The key is dropped.
LEMMA TgDelKeyKeeps ==
  ASSUME TgInv, NEW w \in TgWorkers, DelKey(w)
  PROVE  TgCore'
<1> USE TgKnown
<1>0. /\ TgTypes /\ InHand /\ Alone /\ Held /\ UrlKept /\ CronJobs /\ JobsTracked /\ HeardOf
      /\ kind \in [Events -> Kinds \cup {Unused}] /\ rec \in [Events -> TgRec]
      /\ jobs \in [JobIds -> Events \cup {NoEvent}]
      /\ tgev \in [TgWorkers -> Events \cup {NoEvent}]
      /\ tgcopy \in [TgWorkers -> TgRec]
      /\ tgpc \in [TgWorkers -> {"idle", "clear", "down"} \cup AddLabels \cup DelLabels]
      /\ tgfaults \in Nat /\ tgrestarts \in Nat /\ torn \subseteq Events
  BY TgParts
<1>1. /\ \A v \in TgWorkers \ {w} : /\ tgpc'[v] = tgpc[v] /\ tgev'[v] = tgev[v]
                                    /\ tgcopy'[v] = tgcopy[v]
      /\ tgpc' \in [TgWorkers -> {"idle", "clear", "down"} \cup AddLabels \cup DelLabels]
      /\ tgev' \in [TgWorkers -> Events \cup {NoEvent}] /\ tgcopy' \in [TgWorkers -> TgRec]
      /\ tgcopy' \in [TgWorkers -> TgRec]
      /\ tgpc[w] = "del_key"
      /\ tgev[w] \in Events /\ \A f \in Events \ {tgev[w]} : rec'[f] = rec[f]
      /\ rec' \in [Events -> TgRec] /\ tgfaults' \in Nat /\ tgfaults' >= tgfaults
      /\ \/ /\ rec[tgev[w]].there /\ rec'[tgev[w]].there /\ ~rec'[tgev[w]].key
            /\ rec'[tgev[w]].job = rec[tgev[w]].job
            /\ tgpc'[w] = "del_stop" /\ tgev'[w] = tgev[w] /\ tgcopy'[w] = tgcopy[w] /\ tgfaults' = tgfaults
         \/ /\ tgpc'[w] = "idle" /\ tgev'[w] = NoEvent /\ tgcopy'[w] = Gone /\ rec' = rec
            /\ (~rec[tgev[w]].there /\ tgfaults' = tgfaults) \/ tgfaults' = tgfaults + 1
  <2>1. tgev[w] \in Events /\ tgpc[w] = "del_key" /\ rec[tgev[w]] \in TgRec
    BY <1>0 DEF DelKey, InHand
  <2>2. CASE /\ rec[tgev[w]].there /\ rec' = [rec EXCEPT ![tgev[w]].key = FALSE]
             /\ TgGoto(w, "del_stop") /\ TgOk
    <3>1. rec' = [rec EXCEPT ![tgev[w]] = [rec[tgev[w]] EXCEPT !.key = FALSE]]
      BY <2>2
    <3>2. /\ [rec[tgev[w]] EXCEPT !.key = FALSE] \in TgRec /\ [rec[tgev[w]] EXCEPT !.key = FALSE].there = rec[tgev[w]].there
          /\ [rec[tgev[w]] EXCEPT !.key = FALSE].job = rec[tgev[w]].job /\ ~[rec[tgev[w]] EXCEPT !.key = FALSE].key
      BY <2>1 DEF TgRec
    <3>3. QED BY <1>0, <2>1, <2>2, <3>1, <3>2 DEF TgGoto, TgOk, DelLabels
  <2>3. CASE /\ (~rec[tgev[w]].there /\ TgOk) \/ TgFault
             /\ TgFailed(w) /\ UNCHANGED rec
    BY <1>0, <2>1, <2>3 DEF TgFailed, TgOk, TgFault
  <2>4. QED BY <2>2, <2>3 DEF DelKey
<1>2. UNCHANGED <<kind, jobs, nextjob, listeners, notify, fngen, fnlive, url, cpc, cres, urlLate, torn, tgrestarts>>
  BY DEF DelKey, recVars, hndVars, fnVars, reqVars, calVars, TgGoto, TgOk, Starts, UrlStart, CronStart, ListenStart, CallDone, Stop, CronStop
<1>3. TgTypes'
  BY <1>0, <1>1, <1>2 DEF TgTypes, TgStateOK, AddLabels, DelLabels, TgRec
<1>4. InHand'
  BY <1>0, <1>1, <1>2 DEF InHand
<1>5. Alone'
  BY <1>0, <1>1, <1>2 DEF Alone
<1>6. Held'
  <2> DEFINE H(v) ==
                    /\ tgpc[v] \in AddLabels => rec[tgev[v]] = [Gone EXCEPT !.there = TRUE]
                    /\ tgpc[v] \in DelLabels /\ rec[tgev[v]].there => rec[tgev[v]].job = tgcopy[v].job
                    /\ tgpc[v] \in {"del_stop", "del_remove"} => rec[tgev[v]].there /\ ~rec[tgev[v]].key
                    /\ tgpc[v] = "del_remove" \/ (tgpc[v] = "del_key" /\ ~rec[tgev[v]].there) =>
                          \A j \in JobIds : jobs[j] # tgev[v]
  <2>1. tgev'[w] # NoEvent /\ tgev'[w] \notin torn' => H(w)'
    BY <1>0, <1>1, <1>2 DEF Held, AddLabels, DelLabels
  <2>2. ASSUME NEW v \in TgWorkers \ {w}, tgev'[v] # NoEvent, tgev'[v] \notin torn' PROVE H(v)'
    <3>1. tgev[v] # NoEvent /\ tgev[v] \notin torn
      BY <1>1, <1>2, <2>2
    <3>2. H(v)
      BY <1>0, <3>1 DEF Held
    <3>3. QED BY <1>0, <1>1, <1>2, <2>2, <3>1, <3>2 DEF Alone
  <2>3. ASSUME NEW v \in TgWorkers, tgev'[v] # NoEvent, tgev'[v] \notin torn' PROVE H(v)'
    <3>1. CASE v = w
      BY <2>1, <2>3, <3>1
    <3>2. CASE v # w
      BY <2>2, <2>3, <3>2
    <3>3. QED BY <3>1, <3>2
  <2>4. QED BY <2>3 DEF Held
<1>7. UrlKept'
  <2>1. UrlKeyed \/ Cleaning => UrlKeyed' \/ Cleaning'
    <3>1. Cleaning => Cleaning'
      BY <1>0, <1>1, <1>2 DEF Cleaning
    <3>2. ASSUME NEW e \in Events, kind[e] = "url", rec[e].key PROVE UrlKeyed' \/ Cleaning'
      <4>1. CASE e = tgev[w]
        BY <1>0, <1>1, <1>2, <3>2, <4>1 DEF Cleaning, UrlKeyed
      <4>2. CASE e # tgev[w]
        BY <1>1, <1>2, <3>2, <4>2 DEF UrlKeyed
      <4>3. QED BY <4>1, <4>2
    <3>3. QED BY <3>1, <3>2 DEF UrlKeyed
  <2>2. QED BY <1>0, <1>2, <2>1 DEF UrlKept, Looking
<1>8. CronJobs'
  BY <1>0, <1>1, <1>2 DEF CronJobs
<1>9. JobsTracked'
  <2>1. ASSUME NEW j \in JobIds, jobs'[j] # NoEvent, jobs'[j] \notin torn
        PROVE  \/ rec'[jobs'[j]].there /\ rec'[jobs'[j]].job = j
               \/ \E v \in TgWorkers : tgev'[v] = jobs'[j] /\ tgcopy'[v].job = j
    <3>1. /\ jobs'[j] = jobs[j] /\ jobs[j] \in Events /\ kind[jobs[j]] = "cron"
          /\ \/ rec[jobs[j]].there /\ rec[jobs[j]].job = j
             \/ \E v \in TgWorkers : tgev[v] = jobs[j] /\ tgcopy[v].job = j
      BY <1>0, <1>1, <1>2, <2>1 DEF JobsTracked, CronJobs
    <3>2. CASE jobs[j] # tgev[w]
      <4>1. rec'[jobs[j]] = rec[jobs[j]]
        BY <1>1, <1>2, <3>1, <3>2
      <4>2. ASSUME NEW v \in TgWorkers, tgev[v] = jobs[j], tgcopy[v].job = j
            PROVE  \E u \in TgWorkers : tgev'[u] = jobs[j] /\ tgcopy'[u].job = j
        <5>1. v # w
          BY <3>2, <4>2
        <5>2. QED BY <1>1, <1>2, <4>2, <5>1
      <4>3. QED BY <3>1, <4>1, <4>2
    <3>3. CASE jobs[j] = tgev[w]
      <4>1. tgev[w] # NoEvent /\ tgev[w] \notin torn /\ \A v \in TgWorkers : tgev[v] = tgev[w] => v = w
        BY <1>0, <2>1, <3>1, <3>3 DEF Alone
      <4>2. /\ tgpc[w] \in AddLabels => rec[tgev[w]] = [Gone EXCEPT !.there = TRUE]
            /\ tgpc[w] \in DelLabels /\ rec[tgev[w]].there => rec[tgev[w]].job = tgcopy[w].job
            /\ tgpc[w] = "del_remove" => \A i \in JobIds : jobs[i] # tgev[w]
        BY <1>0, <4>1 DEF Held
      <4>3. tgcopy[w].job = j /\ tgcopy[w].there /\ rec[tgev[w]] \in TgRec
        <5>1. tgpc[w] \in AddLabels \/ tgpc[w] \in DelLabels
          BY <1>1 DEF AddLabels, DelLabels
        <5>2. tgcopy[w].job = j \/ (rec[tgev[w]].there /\ rec[tgev[w]].job = j)
          BY <3>1, <3>3, <4>1
        <5>3. tgcopy[w].job = j
          BY <4>2, <5>1, <5>2
        <5>4. QED BY <1>0, <1>1, <4>1, <5>3 DEF InHand
      <4>4. rec[tgev[w]].there
        <5>1. tgpc[w] = "del_key" /\ ~rec[tgev[w]].there => \A i \in JobIds : jobs[i] # tgev[w]
          BY <1>0, <4>1 DEF Held
        <5>2. QED BY <1>1, <3>3, <5>1
      <4>5. rec[tgev[w]].job = j
        BY <1>1, <4>2, <4>3, <4>4 DEF DelLabels
      <4>6. rec'[tgev[w]].there /\ rec'[tgev[w]].job = j
        BY <1>1, <4>4, <4>5
      <4>7. QED BY <1>2, <3>1, <3>3, <4>6
    <3>4. QED BY <3>2, <3>3
  <2>2. QED BY <1>2, <2>1 DEF JobsTracked
<1>10. HeardOf'
  <2>1. Clean' => Clean
    BY <1>0, <1>1, <1>2 DEF Clean
  <2>2. ASSUME Clean'
        PROVE  /\ \A v \in TgWorkers : tgev[v] = tgev[w] => v = w
               /\ tgev[w] \in Events /\ Clean /\ tgpc[w] # "add_undo"
               /\ tgfaults' = 0 /\ tgfaults = 0
    BY <1>0, <1>1, <2>1, <2>2 DEF Alone, Clean, HeardOf
  <2>2a. ASSUME Clean'
         PROVE  /\ tgpc[w] \in AddLabels => ~rec[tgev[w]].key /\ rec[tgev[w]].there
                /\ tgpc[w] \in {"del_stop", "del_remove"} => rec[tgev[w]].there
                /\ tgpc[w] \in {"del_stop", "del_remove"} => ~rec[tgev[w]].key
                /\ kind[tgev[w]] = "s3" /\ tgpc[w] \in {"add_sub", "add_save"} => tgcopy[w].key
                /\ kind[tgev[w]] = "s3" /\ tgpc[w] = "del_key" /\ rec[tgev[w]].there => rec[tgev[w]].key
    <3>1. tgev[w] # NoEvent /\ tgev[w] \notin torn
      BY <2>2, <2>2a DEF Clean
    <3>2. /\ tgpc[w] \in AddLabels => ~rec[tgev[w]].key /\ rec[tgev[w]].there
          /\ tgpc[w] \in {"del_stop", "del_remove"} => rec[tgev[w]].there
          /\ tgpc[w] \in {"del_stop", "del_remove"} => ~rec[tgev[w]].key
      BY <1>0, <3>1 DEF Held
    <3>3. /\ kind[tgev[w]] = "s3" /\ tgpc[w] \in {"add_sub", "add_save"} => tgcopy[w].key
          /\ kind[tgev[w]] = "s3" /\ tgpc[w] = "del_key" /\ rec[tgev[w]].there => rec[tgev[w]].key
      BY <1>0, <2>2, <2>2a, <3>1 DEF HeardOf
    <3>4. QED BY <3>2, <3>3
  <2>2b. ASSUME Clean'
         PROVE  \/ /\ rec[tgev[w]].there /\ tgpc'[w] = "del_stop" /\ tgev'[w] = tgev[w]
                   /\ kind[tgev[w]] = "s3" => rec[tgev[w]].key
                \/ /\ ~rec[tgev[w]].there /\ rec' = rec /\ tgev'[w] = NoEvent /\ tgpc'[w] = "idle"
    <3>1. tgfaults' # tgfaults + 1
      BY <2>2, <2>2b
    <3>2. kind[tgev[w]] = "s3" /\ rec[tgev[w]].there => rec[tgev[w]].key
      BY <1>1, <2>2a, <2>2b
    <3>3. QED BY <1>1, <3>1, <3>2
  <2>3. ASSUME Clean'
        PROVE  listeners' = Cardinality(Listening)' /\ notify' = Cardinality(Subscribing)'
    <3>1. /\ tgev[w] \in Events /\ kind' = kind /\ tgev'[w] \in {tgev[w], NoEvent}
          /\ \A v \in TgWorkers \ {w} : tgpc'[v] = tgpc[v] /\ tgev'[v] = tgev[v]
          /\ \A f \in Events \ {tgev[w]} : rec'[f] = rec[f]
          /\ \A v \in TgWorkers : tgev[v] = tgev[w] => v = w
      BY <1>1, <1>2, <2>2, <2>3
    <3>2. listeners = Cardinality(Listening) /\ notify = Cardinality(Subscribing)
      BY <1>0, <1>1, <2>2, <2>3 DEF HeardOf
    <3>3. listeners \in Nat /\ notify \in Int /\ listeners' \in Nat /\ notify' \in Int
      BY <1>0, <1>1, <1>2 DEF TgTypes, TgStateOK
    <3>4. Cardinality(Listening)' = Cardinality(Listening) + (listeners' - listeners)
      <4> DEFINE L == {"add_sub", "add_save", "del_stop"}
      <4>1. /\ tgev[w] \in InUse(L) <=> kind[tgev[w]] = "s3" /\ (rec[tgev[w]].key \/ tgpc[w] \in L)
            /\ tgev[w] \in InUse(L)' <=> kind[tgev[w]] = "s3" /\ (rec'[tgev[w]].key \/ (tgev'[w] = tgev[w] /\ tgpc'[w] \in L))
        BY <3>1, InUseMoves
      <4>2. /\ Cardinality(InUse(L)) \in Nat /\ (tgev[w] \in InUse(L) => Cardinality(InUse(L)) > 0)
            /\ Cardinality(InUse(L)') = Cardinality(InUse(L)) + (IF tgev[w] \in InUse(L)' THEN 1 ELSE 0)
                                                         - (IF tgev[w] \in InUse(L) THEN 1 ELSE 0)
        BY <3>1, InUseMoves
      <4>3. tgfaults' = 0 /\ tgfaults = 0
        BY <2>2, <2>3
      <4>4. (tgev[w] \in InUse(L) <=> tgev[w] \in InUse(L)') /\ listeners' = listeners
        <5>1. listeners' = listeners /\ notify' = notify /\ tgpc[w] \notin L /\ tgev[w] # NoEvent
          BY <1>1, <1>2, <2>2, <2>3
        <5>2. CASE rec[tgev[w]].there
          BY <2>2b, <2>3, <4>1, <5>1, <5>2
        <5>3. CASE ~rec[tgev[w]].there
          BY <2>2b, <2>3, <4>1, <5>1, <5>3
        <5>4. QED BY <5>1, <5>2, <5>3
      <4>5. listeners' - listeners = (IF tgev[w] \in InUse(L)' THEN 1 ELSE 0) - (IF tgev[w] \in InUse(L) THEN 1 ELSE 0)
        BY <3>3, <4>4
      <4>6. Listening = InUse(L) /\ Listening' = InUse(L)'
        BY DEF Listening
      <4>7. Cardinality(Listening)' = Cardinality(InUse(L)') /\ Cardinality(Listening) = Cardinality(InUse(L))
        BY <4>6
      <4>8. Cardinality(InUse(L)') = Cardinality(InUse(L)) + (listeners' - listeners) /\ Cardinality(InUse(L)) \in Nat
        BY <3>3, <4>2, <4>5
      <4>9. QED BY <3>3, <4>7, <4>8
    <3>5. Cardinality(Subscribing)' = Cardinality(Subscribing) + (notify' - notify)
      <4> DEFINE L == {"add_save", "del_stop"}
      <4>1. /\ tgev[w] \in InUse(L) <=> kind[tgev[w]] = "s3" /\ (rec[tgev[w]].key \/ tgpc[w] \in L)
            /\ tgev[w] \in InUse(L)' <=> kind[tgev[w]] = "s3" /\ (rec'[tgev[w]].key \/ (tgev'[w] = tgev[w] /\ tgpc'[w] \in L))
        BY <3>1, InUseMoves
      <4>2. /\ Cardinality(InUse(L)) \in Nat /\ (tgev[w] \in InUse(L) => Cardinality(InUse(L)) > 0)
            /\ Cardinality(InUse(L)') = Cardinality(InUse(L)) + (IF tgev[w] \in InUse(L)' THEN 1 ELSE 0)
                                                         - (IF tgev[w] \in InUse(L) THEN 1 ELSE 0)
        BY <3>1, InUseMoves
      <4>3. tgfaults' = 0 /\ tgfaults = 0
        BY <2>2, <2>3
      <4>4. (tgev[w] \in InUse(L) <=> tgev[w] \in InUse(L)') /\ notify' = notify
        <5>1. listeners' = listeners /\ notify' = notify /\ tgpc[w] \notin L /\ tgev[w] # NoEvent
          BY <1>1, <1>2, <2>2, <2>3
        <5>2. CASE rec[tgev[w]].there
          BY <2>2b, <2>3, <4>1, <5>1, <5>2
        <5>3. CASE ~rec[tgev[w]].there
          BY <2>2b, <2>3, <4>1, <5>1, <5>3
        <5>4. QED BY <5>1, <5>2, <5>3
      <4>5. notify' - notify = (IF tgev[w] \in InUse(L)' THEN 1 ELSE 0) - (IF tgev[w] \in InUse(L) THEN 1 ELSE 0)
        BY <3>3, <4>4
      <4>6. Subscribing = InUse(L) /\ Subscribing' = InUse(L)'
        BY DEF Subscribing
      <4>7. Cardinality(Subscribing)' = Cardinality(InUse(L)') /\ Cardinality(Subscribing) = Cardinality(InUse(L))
        BY <4>6
      <4>8. Cardinality(InUse(L)') = Cardinality(InUse(L)) + (notify' - notify) /\ Cardinality(InUse(L)) \in Nat
        BY <3>3, <4>2, <4>5
      <4>9. QED BY <3>3, <4>7, <4>8
    <3>6. QED BY <3>2, <3>3, <3>4, <3>5
  <2>4. ASSUME Clean'
        PROVE  \A f \in Events : kind'[f] = "s3" /\ rec'[f].there => rec'[f].key \/ \E v \in TgWorkers : tgev'[v] = f
    BY <1>0, <1>1, <1>2, <2>2, <2>2b, <2>4 DEF HeardOf, Held, AddLabels, DelLabels, Clean
  <2>5. ASSUME Clean'
        PROVE  \A v \in TgWorkers :
              /\ tgpc'[v] # "add_undo"
              /\ tgev'[v] # NoEvent /\ kind'[tgev'[v]] = "s3" =>
                    /\ tgpc'[v] \in {"add_sub", "add_save"} => tgcopy'[v].key
                    /\ tgpc'[v] = "del_key" /\ rec'[tgev'[v]].there => rec'[tgev'[v]].key
    BY <1>0, <1>1, <1>2, <2>2, <2>2b, <2>5 DEF HeardOf, Held, AddLabels, DelLabels, Clean, InHand
  <2>6. QED BY <2>3, <2>4, <2>5 DEF HeardOf
<1>11. QED BY <1>3, <1>4, <1>5, <1>6, <1>7, <1>8, <1>9, <1>10 DEF TgCore

\* The handler is stopped.
LEMMA TgDelStopKeeps ==
  ASSUME TgInv, NEW w \in TgWorkers, DelStop(w)
  PROVE  TgCore'
<1> USE TgKnown
<1>0. /\ TgTypes /\ InHand /\ Alone /\ Held /\ UrlKept /\ CronJobs /\ JobsTracked /\ HeardOf
      /\ kind \in [Events -> Kinds \cup {Unused}] /\ rec \in [Events -> TgRec]
      /\ jobs \in [JobIds -> Events \cup {NoEvent}]
      /\ tgev \in [TgWorkers -> Events \cup {NoEvent}]
      /\ tgcopy \in [TgWorkers -> TgRec]
      /\ tgpc \in [TgWorkers -> {"idle", "clear", "down"} \cup AddLabels \cup DelLabels]
      /\ tgfaults \in Nat /\ tgrestarts \in Nat /\ torn \subseteq Events
  BY TgParts
<1>1. /\ \A v \in TgWorkers \ {w} : /\ tgpc'[v] = tgpc[v] /\ tgev'[v] = tgev[v]
                                    /\ tgcopy'[v] = tgcopy[v]
      /\ tgpc' \in [TgWorkers -> {"idle", "clear", "down"} \cup AddLabels \cup DelLabels]
      /\ tgev' \in [TgWorkers -> Events \cup {NoEvent}] /\ tgcopy' \in [TgWorkers -> TgRec]
      /\ tgcopy' \in [TgWorkers -> TgRec]
      /\ tgpc[w] = "del_stop" /\ tgev[w] \in Events /\ tgfaults' \in Nat /\ tgfaults' >= tgfaults
      /\ jobs' \in [JobIds -> Events \cup {NoEvent}] /\ listeners' \in Nat /\ notify' \in Int
      /\ urlLate' \in BOOLEAN /\ urlLate \in BOOLEAN /\ url' \in Nat \cup {Uncached}
      /\ \A j \in JobIds : jobs'[j] # NoEvent => jobs'[j] = jobs[j]
      /\ \/ /\ tgpc'[w] = "del_remove" /\ tgev'[w] = tgev[w] /\ tgcopy'[w] = tgcopy[w] /\ tgfaults' = tgfaults
            /\ url' = (IF kind[tgev[w]] = "url" THEN Uncached ELSE url)
            /\ urlLate' = (urlLate \/ (kind[tgev[w]] = "url" /\ Looking))
            /\ notify' = (IF kind[tgev[w]] = "s3" THEN notify - 1 ELSE notify)
            /\ listeners' = (IF kind[tgev[w]] = "s3" THEN StopListener(listeners) ELSE listeners)
            /\ \A j \in JobIds : kind[tgev[w]] = "cron" /\ tgcopy[w].job = j => jobs'[j] = NoEvent
         \/ /\ tgpc'[w] = "idle" /\ tgev'[w] = NoEvent /\ tgcopy'[w] = Gone
            /\ tgfaults' = tgfaults + 1 /\ kind[tgev[w]] = "s3"
            /\ jobs' = jobs /\ listeners' = listeners /\ notify' = notify /\ url' = url /\ urlLate' = urlLate
  <2>1. tgev[w] \in Events /\ tgcopy[w] \in TgRec /\ listeners \in Nat /\ notify \in Int
    BY <1>0 DEF DelStop, InHand, TgTypes, TgStateOK
  <2>2. Stop(tgev[w], tgcopy[w]) =>
        /\ jobs' \in [JobIds -> Events \cup {NoEvent}] /\ nextjob' = nextjob
        /\ listeners' \in Nat /\ notify' \in Int
        /\ url' = (IF kind[tgev[w]] = "url" THEN Uncached ELSE url)
        /\ notify' = (IF kind[tgev[w]] = "s3" THEN notify - 1 ELSE notify)
        /\ listeners' = (IF kind[tgev[w]] = "s3" THEN StopListener(listeners) ELSE listeners)
        /\ \A j \in JobIds : /\ jobs'[j] # NoEvent => jobs'[j] = jobs[j]
                             /\ kind[tgev[w]] = "cron" /\ tgcopy[w].job = j => jobs'[j] = NoEvent
    <3>1. tgcopy[w].job \in JobIds \cup {NoJob}
      BY <2>1 DEF TgRec
    <3>2. QED BY <1>0, <2>1, <3>1 DEF Stop, UrlStop, CronStop, S3Stop, StopListener, Unsubscribed
  <2>3. CASE /\ Stop(tgev[w], tgcopy[w])
             /\ urlLate' = (urlLate \/ (kind[tgev[w]] = "url" /\ \E c \in TgCallers : cpc[c] \in {"memd", "store"}))
             /\ TgGoto(w, "del_remove") /\ TgOk
    <3>1. Looking <=> \E c \in TgCallers : cpc[c] \in {"memd", "store"}
      BY <1>0 DEF Looking, TgTypes
    <3>2. /\ jobs' \in [JobIds -> Events \cup {NoEvent}] /\ listeners' \in Nat /\ notify' \in Int
          /\ url' = (IF kind[tgev[w]] = "url" THEN Uncached ELSE url)
          /\ notify' = (IF kind[tgev[w]] = "s3" THEN notify - 1 ELSE notify)
          /\ listeners' = (IF kind[tgev[w]] = "s3" THEN StopListener(listeners) ELSE listeners)
          /\ \A j \in JobIds : /\ jobs'[j] # NoEvent => jobs'[j] = jobs[j]
                               /\ kind[tgev[w]] = "cron" /\ tgcopy[w].job = j => jobs'[j] = NoEvent
      BY <2>2, <2>3
    <3>3. url \in Nat \cup {Uncached} /\ urlLate \in BOOLEAN /\ tgpc[w] = "del_stop"
      BY <1>0 DEF TgTypes, TgStateOK, DelStop
    <3>4. /\ url' \in Nat \cup {Uncached}
          /\ urlLate' = (urlLate \/ (kind[tgev[w]] = "url" /\ Looking)) /\ urlLate' \in BOOLEAN
      BY <2>3, <3>1, <3>2, <3>3
    <3>5. /\ \A v \in TgWorkers \ {w} : /\ tgpc'[v] = tgpc[v] /\ tgev'[v] = tgev[v]
                                        /\ tgcopy'[v] = tgcopy[v]
          /\ tgpc'[w] = "del_remove" /\ tgev' = tgev /\ tgcopy' = tgcopy /\ tglist' = tglist
          /\ tgpc' \in [TgWorkers -> {"idle", "clear", "down"} \cup AddLabels \cup DelLabels]
          /\ tgfaults' = tgfaults
      BY <1>0, <2>3 DEF TgGoto, TgOk, DelLabels
    <3>6. QED BY <1>0, <2>1, <3>2, <3>3, <3>4, <3>5
  <2>4. CASE /\ kind[tgev[w]] = "s3" /\ TgFault
             /\ TgFailed(w) /\ UNCHANGED <<hndVars, url, urlLate>>
    BY <1>0, <2>1, <2>4 DEF DelStop, TgFailed, TgFault, hndVars, TgTypes, TgStateOK
  <2>5. QED BY <2>3, <2>4 DEF DelStop
<1>2. UNCHANGED <<kind, rec, nextjob, fngen, fnlive, cpc, cres, torn, tgrestarts>>
  BY DEF DelStop, recVars, hndVars, fnVars, reqVars, calVars, TgGoto, TgOk, Starts, UrlStart, CronStart, ListenStart, CallDone, Stop, CronStop
<1>3. tgev[w] \notin torn /\ tgpc'[w] = "del_remove" => \A j \in JobIds : jobs'[j] # tgev[w]
  <2>1. ASSUME tgev[w] \notin torn, tgpc'[w] = "del_remove", NEW j \in JobIds, jobs'[j] = tgev[w] PROVE FALSE
    <3>1. jobs[j] = tgev[w] /\ kind[tgev[w]] = "cron" /\ tgev[w] # NoEvent
      BY <1>0, <1>1, <2>1 DEF CronJobs
    <3>2. rec[tgev[w]].job = tgcopy[w].job /\ \A v \in TgWorkers : tgev[v] = tgev[w] => v = w
      <4>1. tgpc[w] \in DelLabels
        BY <1>1 DEF DelLabels
      <4>2. rec[tgev[w]].there
        BY <1>0, <1>1, <2>1, <3>1 DEF Held
      <4>3. QED BY <1>0, <2>1, <3>1, <4>1, <4>2 DEF Held, Alone
    <3>3. tgcopy[w].job = j
      BY <1>0, <2>1, <3>1, <3>2 DEF JobsTracked
    <3>4. QED BY <1>1, <2>1, <3>1, <3>3
  <2>2. QED BY <2>1
<1>4. TgTypes'
  BY <1>0, <1>1, <1>2, <1>3 DEF TgTypes, TgStateOK, AddLabels, DelLabels, TgRec
<1>5. InHand'
  BY <1>0, <1>1, <1>2, <1>3 DEF InHand
<1>6. Alone'
  BY <1>0, <1>1, <1>2, <1>3 DEF Alone
<1>7. Held'
  <2> DEFINE H(v) ==
                    /\ tgpc[v] \in AddLabels => rec[tgev[v]] = [Gone EXCEPT !.there = TRUE]
                    /\ tgpc[v] \in DelLabels /\ rec[tgev[v]].there => rec[tgev[v]].job = tgcopy[v].job
                    /\ tgpc[v] \in {"del_stop", "del_remove"} => rec[tgev[v]].there /\ ~rec[tgev[v]].key
                    /\ tgpc[v] = "del_remove" \/ (tgpc[v] = "del_key" /\ ~rec[tgev[v]].there) =>
                          \A j \in JobIds : jobs[j] # tgev[v]
  <2>1. tgev'[w] # NoEvent /\ tgev'[w] \notin torn' => H(w)'
    BY <1>0, <1>1, <1>2, <1>3 DEF Held, AddLabels, DelLabels
  <2>2. ASSUME NEW v \in TgWorkers \ {w}, tgev'[v] # NoEvent, tgev'[v] \notin torn' PROVE H(v)'
    <3>1. tgev[v] # NoEvent /\ tgev[v] \notin torn
      BY <1>1, <1>2, <2>2
    <3>2. H(v)
      BY <1>0, <3>1 DEF Held
    <3>3. QED BY <1>0, <1>1, <1>2, <2>2, <3>1, <3>2, <1>3 DEF Alone
  <2>3. ASSUME NEW v \in TgWorkers, tgev'[v] # NoEvent, tgev'[v] \notin torn' PROVE H(v)'
    <3>1. CASE v = w
      BY <2>1, <2>3, <3>1
    <3>2. CASE v # w
      BY <2>2, <2>3, <3>2
    <3>3. QED BY <3>1, <3>2
  <2>4. QED BY <2>3 DEF Held
<1>8. UrlKept'
  <2>1. kind[tgev[w]] # "url" /\ Cleaning => Cleaning'
    BY <1>0, <1>1, <1>2 DEF Cleaning
  <2>2. UrlKeyed' <=> UrlKeyed
    BY <1>2 DEF UrlKeyed
  <2>3. Looking' <=> Looking
    BY <1>2 DEF Looking
  <2>4. CASE kind[tgev[w]] = "url"
    BY <1>1, <2>3, <2>4 DEF UrlKept
  <2>5. CASE kind[tgev[w]] # "url"
    <3>1. url' = url /\ (urlLate' <=> urlLate)
      BY <1>1, <2>5
    <3>2. QED BY <1>0, <1>2, <2>1, <2>2, <2>3, <2>5, <3>1 DEF UrlKept
  <2>6. QED BY <2>4, <2>5
<1>9. CronJobs'
  BY <1>0, <1>1, <1>2, <1>3 DEF CronJobs
<1>10. JobsTracked'
  <2>1. ASSUME NEW j \in JobIds, jobs'[j] # NoEvent, jobs'[j] \notin torn
        PROVE  \/ rec'[jobs'[j]].there /\ rec'[jobs'[j]].job = j
               \/ \E v \in TgWorkers : tgev'[v] = jobs'[j] /\ tgcopy'[v].job = j
    <3>1. /\ jobs'[j] = jobs[j] /\ jobs[j] \in Events /\ kind[jobs[j]] = "cron"
          /\ \/ rec[jobs[j]].there /\ rec[jobs[j]].job = j
             \/ \E v \in TgWorkers : tgev[v] = jobs[j] /\ tgcopy[v].job = j
      BY <1>0, <1>1, <1>2, <2>1 DEF JobsTracked, CronJobs
    <3>2. CASE jobs[j] # tgev[w]
      <4>1. rec'[jobs[j]] = rec[jobs[j]]
        BY <1>1, <1>2, <3>1, <3>2
      <4>2. ASSUME NEW v \in TgWorkers, tgev[v] = jobs[j], tgcopy[v].job = j
            PROVE  \E u \in TgWorkers : tgev'[u] = jobs[j] /\ tgcopy'[u].job = j
        <5>1. v # w
          BY <3>2, <4>2
        <5>2. QED BY <1>1, <1>2, <4>2, <5>1
      <4>3. QED BY <3>1, <4>1, <4>2
    <3>3. CASE jobs[j] = tgev[w]
      <4>1. tgev[w] # NoEvent /\ tgev[w] \notin torn /\ \A v \in TgWorkers : tgev[v] = tgev[w] => v = w
        BY <1>0, <2>1, <3>1, <3>3 DEF Alone
      <4>2. /\ tgpc[w] \in AddLabels => rec[tgev[w]] = [Gone EXCEPT !.there = TRUE]
            /\ tgpc[w] \in DelLabels /\ rec[tgev[w]].there => rec[tgev[w]].job = tgcopy[w].job
            /\ tgpc[w] = "del_remove" => \A i \in JobIds : jobs[i] # tgev[w]
        BY <1>0, <4>1 DEF Held
      <4>3. tgcopy[w].job = j /\ tgcopy[w].there /\ rec[tgev[w]] \in TgRec
        <5>1. tgpc[w] \in AddLabels \/ tgpc[w] \in DelLabels
          BY <1>1 DEF AddLabels, DelLabels
        <5>2. tgcopy[w].job = j \/ (rec[tgev[w]].there /\ rec[tgev[w]].job = j)
          BY <3>1, <3>3, <4>1
        <5>3. tgcopy[w].job = j
          BY <4>2, <5>1, <5>2
        <5>4. QED BY <1>0, <1>1, <4>1, <5>3 DEF InHand
      <4>4. QED BY <1>0, <1>1, <1>2, <2>1, <3>1, <3>3, <4>2, <4>3 DEF AddLabels, DelLabels
    <3>4. QED BY <3>2, <3>3
  <2>2. QED BY <1>2, <2>1 DEF JobsTracked
<1>11. HeardOf'
  <2>1. Clean' => Clean
    BY <1>0, <1>1, <1>2 DEF Clean
  <2>2. ASSUME Clean'
        PROVE  /\ \A v \in TgWorkers : tgev[v] = tgev[w] => v = w
               /\ tgev[w] \in Events /\ Clean /\ tgpc[w] # "add_undo"
               /\ tgfaults' = 0 /\ tgfaults = 0
    BY <1>0, <1>1, <2>1, <2>2 DEF Alone, Clean, HeardOf
  <2>2a. ASSUME Clean'
         PROVE  /\ tgpc[w] \in AddLabels => ~rec[tgev[w]].key /\ rec[tgev[w]].there
                /\ tgpc[w] \in {"del_stop", "del_remove"} => rec[tgev[w]].there
                /\ tgpc[w] \in {"del_stop", "del_remove"} => ~rec[tgev[w]].key
                /\ kind[tgev[w]] = "s3" /\ tgpc[w] \in {"add_sub", "add_save"} => tgcopy[w].key
                /\ kind[tgev[w]] = "s3" /\ tgpc[w] = "del_key" /\ rec[tgev[w]].there => rec[tgev[w]].key
    <3>1. tgev[w] # NoEvent /\ tgev[w] \notin torn
      BY <2>2, <2>2a DEF Clean
    <3>2. /\ tgpc[w] \in AddLabels => ~rec[tgev[w]].key /\ rec[tgev[w]].there
          /\ tgpc[w] \in {"del_stop", "del_remove"} => rec[tgev[w]].there
          /\ tgpc[w] \in {"del_stop", "del_remove"} => ~rec[tgev[w]].key
      BY <1>0, <3>1 DEF Held
    <3>3. /\ kind[tgev[w]] = "s3" /\ tgpc[w] \in {"add_sub", "add_save"} => tgcopy[w].key
          /\ kind[tgev[w]] = "s3" /\ tgpc[w] = "del_key" /\ rec[tgev[w]].there => rec[tgev[w]].key
      BY <1>0, <2>2, <2>2a, <3>1 DEF HeardOf
    <3>4. QED BY <3>2, <3>3
  <2>2b. ASSUME Clean' PROVE tgpc'[w] = "del_remove" /\ tgev'[w] = tgev[w] /\ ~rec[tgev[w]].key
    <3>1. tgfaults' = 0 /\ tgfaults = 0
      BY <2>2, <2>2b
    <3>2. /\ tgpc[w] \in {"add_start", "add_sub", "add_save"} => ~rec[tgev[w]].key /\ rec[tgev[w]].there
          /\ tgpc[w] \in {"del_stop", "del_remove"} => rec[tgev[w]].there
          /\ tgpc[w] \in {"del_stop", "del_remove"} => ~rec[tgev[w]].key
          /\ kind[tgev[w]] = "s3" /\ tgpc[w] \in {"add_sub", "add_save"} => tgcopy[w].key
          /\ kind[tgev[w]] = "s3" /\ tgpc[w] = "del_key" /\ rec[tgev[w]].there => rec[tgev[w]].key
      BY <2>2a, <2>2b DEF AddLabels, DelLabels
    <3>3. tgfaults' # tgfaults + 1
      BY <1>1, <3>1, <3>2
    <3>4. QED BY <1>1, <3>2, <3>3
  <2>3. ASSUME Clean'
        PROVE  listeners' = Cardinality(Listening)' /\ notify' = Cardinality(Subscribing)'
    <3>1. /\ tgev[w] \in Events /\ kind' = kind /\ tgev'[w] \in {tgev[w], NoEvent}
          /\ \A v \in TgWorkers \ {w} : tgpc'[v] = tgpc[v] /\ tgev'[v] = tgev[v]
          /\ \A f \in Events \ {tgev[w]} : rec'[f] = rec[f]
          /\ \A v \in TgWorkers : tgev[v] = tgev[w] => v = w
      BY <1>1, <1>2, <2>2, <2>3
    <3>2. listeners = Cardinality(Listening) /\ notify = Cardinality(Subscribing)
      BY <1>0, <1>1, <2>2, <2>3 DEF HeardOf
    <3>3. listeners \in Nat /\ notify \in Int /\ listeners' \in Nat /\ notify' \in Int
      BY <1>0, <1>1, <1>2 DEF TgTypes, TgStateOK
    <3>4. Cardinality(Listening)' = Cardinality(Listening) + (listeners' - listeners)
      <4> DEFINE L == {"add_sub", "add_save", "del_stop"}
      <4>1. /\ tgev[w] \in InUse(L) <=> kind[tgev[w]] = "s3" /\ (rec[tgev[w]].key \/ tgpc[w] \in L)
            /\ tgev[w] \in InUse(L)' <=> kind[tgev[w]] = "s3" /\ (rec'[tgev[w]].key \/ (tgev'[w] = tgev[w] /\ tgpc'[w] \in L))
        BY <3>1, InUseMoves
      <4>2. /\ Cardinality(InUse(L)) \in Nat /\ (tgev[w] \in InUse(L) => Cardinality(InUse(L)) > 0)
            /\ Cardinality(InUse(L)') = Cardinality(InUse(L)) + (IF tgev[w] \in InUse(L)' THEN 1 ELSE 0)
                                                         - (IF tgev[w] \in InUse(L) THEN 1 ELSE 0)
        BY <3>1, InUseMoves
      <4>3. tgfaults' = 0 /\ tgfaults = 0
        BY <2>2, <2>3
      <4>4. (tgev[w] \in InUse(L) <=> kind[tgev[w]] = "s3") /\ tgev[w] \notin InUse(L)' /\ listeners' = (IF kind[tgev[w]] = "s3" THEN listeners - 1 ELSE listeners)
        BY <1>1, <1>2, <2>2, <2>2b, <2>3, <2>2a, <3>3, <4>1, <4>3, <3>2, <4>2 DEF AddLabels, DelLabels, Listening, StopListener
      <4>5. listeners' - listeners = (IF tgev[w] \in InUse(L)' THEN 1 ELSE 0) - (IF tgev[w] \in InUse(L) THEN 1 ELSE 0)
        BY <3>3, <4>4
      <4>6. Listening = InUse(L) /\ Listening' = InUse(L)'
        BY DEF Listening
      <4>7. Cardinality(Listening)' = Cardinality(InUse(L)') /\ Cardinality(Listening) = Cardinality(InUse(L))
        BY <4>6
      <4>8. Cardinality(InUse(L)') = Cardinality(InUse(L)) + (listeners' - listeners) /\ Cardinality(InUse(L)) \in Nat
        BY <3>3, <4>2, <4>5
      <4>9. QED BY <3>3, <4>7, <4>8
    <3>5. Cardinality(Subscribing)' = Cardinality(Subscribing) + (notify' - notify)
      <4> DEFINE L == {"add_save", "del_stop"}
      <4>1. /\ tgev[w] \in InUse(L) <=> kind[tgev[w]] = "s3" /\ (rec[tgev[w]].key \/ tgpc[w] \in L)
            /\ tgev[w] \in InUse(L)' <=> kind[tgev[w]] = "s3" /\ (rec'[tgev[w]].key \/ (tgev'[w] = tgev[w] /\ tgpc'[w] \in L))
        BY <3>1, InUseMoves
      <4>2. /\ Cardinality(InUse(L)) \in Nat /\ (tgev[w] \in InUse(L) => Cardinality(InUse(L)) > 0)
            /\ Cardinality(InUse(L)') = Cardinality(InUse(L)) + (IF tgev[w] \in InUse(L)' THEN 1 ELSE 0)
                                                         - (IF tgev[w] \in InUse(L) THEN 1 ELSE 0)
        BY <3>1, InUseMoves
      <4>3. tgfaults' = 0 /\ tgfaults = 0
        BY <2>2, <2>3
      <4>4. (tgev[w] \in InUse(L) <=> kind[tgev[w]] = "s3") /\ tgev[w] \notin InUse(L)' /\ notify' = (IF kind[tgev[w]] = "s3" THEN notify - 1 ELSE notify)
        BY <1>1, <1>2, <2>2, <2>2b, <2>3, <2>2a, <3>3, <4>1, <4>3, <3>2, <4>2 DEF AddLabels, DelLabels, Listening, StopListener
      <4>5. notify' - notify = (IF tgev[w] \in InUse(L)' THEN 1 ELSE 0) - (IF tgev[w] \in InUse(L) THEN 1 ELSE 0)
        BY <3>3, <4>4
      <4>6. Subscribing = InUse(L) /\ Subscribing' = InUse(L)'
        BY DEF Subscribing
      <4>7. Cardinality(Subscribing)' = Cardinality(InUse(L)') /\ Cardinality(Subscribing) = Cardinality(InUse(L))
        BY <4>6
      <4>8. Cardinality(InUse(L)') = Cardinality(InUse(L)) + (notify' - notify) /\ Cardinality(InUse(L)) \in Nat
        BY <3>3, <4>2, <4>5
      <4>9. QED BY <3>3, <4>7, <4>8
    <3>6. QED BY <3>2, <3>3, <3>4, <3>5
  <2>4. ASSUME Clean'
        PROVE  \A f \in Events : kind'[f] = "s3" /\ rec'[f].there => rec'[f].key \/ \E v \in TgWorkers : tgev'[v] = f
    BY <1>0, <1>1, <1>2, <2>2, <2>2b, <2>4 DEF HeardOf, Held, AddLabels, DelLabels, Clean
  <2>5. ASSUME Clean'
        PROVE  \A v \in TgWorkers :
              /\ tgpc'[v] # "add_undo"
              /\ tgev'[v] # NoEvent /\ kind'[tgev'[v]] = "s3" =>
                    /\ tgpc'[v] \in {"add_sub", "add_save"} => tgcopy'[v].key
                    /\ tgpc'[v] = "del_key" /\ rec'[tgev'[v]].there => rec'[tgev'[v]].key
    BY <1>0, <1>1, <1>2, <2>2, <2>2b, <2>5 DEF HeardOf, Held, AddLabels, DelLabels, Clean, InHand
  <2>6. QED BY <2>3, <2>4, <2>5 DEF HeardOf
<1>12. QED BY <1>4, <1>5, <1>6, <1>7, <1>8, <1>9, <1>10, <1>11 DEF TgCore

\* The record goes.
LEMMA TgDelRemoveKeeps ==
  ASSUME TgInv, NEW w \in TgWorkers, DelRemove(w)
  PROVE  TgCore'
<1> USE TgKnown
<1>0. /\ TgTypes /\ InHand /\ Alone /\ Held /\ UrlKept /\ CronJobs /\ JobsTracked /\ HeardOf
      /\ kind \in [Events -> Kinds \cup {Unused}] /\ rec \in [Events -> TgRec]
      /\ jobs \in [JobIds -> Events \cup {NoEvent}]
      /\ tgev \in [TgWorkers -> Events \cup {NoEvent}]
      /\ tgcopy \in [TgWorkers -> TgRec]
      /\ tgpc \in [TgWorkers -> {"idle", "clear", "down"} \cup AddLabels \cup DelLabels]
      /\ tgfaults \in Nat /\ tgrestarts \in Nat /\ torn \subseteq Events
  BY TgParts
<1>1. /\ \A v \in TgWorkers \ {w} : /\ tgpc'[v] = tgpc[v] /\ tgev'[v] = tgev[v]
                                    /\ tgcopy'[v] = tgcopy[v]
      /\ tgpc' \in [TgWorkers -> {"idle", "clear", "down"} \cup AddLabels \cup DelLabels]
      /\ tgev' \in [TgWorkers -> Events \cup {NoEvent}] /\ tgcopy' \in [TgWorkers -> TgRec]
      /\ tgcopy' \in [TgWorkers -> TgRec]
      /\ tgpc[w] = "del_remove" /\ tgpc'[w] \in {"idle", "clear"} /\ tgev'[w] = NoEvent /\ tgcopy'[w] = Gone
      /\ tgev[w] \in Events /\ \A f \in Events \ {tgev[w]} : rec'[f] = rec[f]
      /\ rec' \in [Events -> TgRec] /\ tgfaults' \in Nat /\ tgfaults' >= tgfaults
      /\ rec'[tgev[w]] = Gone \/ (rec'[tgev[w]] = rec[tgev[w]] /\ (~rec[tgev[w]].there \/ tgfaults' = tgfaults + 1))
  <2>1. tgev[w] \in Events /\ tgpc[w] = "del_remove"
    BY <1>0 DEF DelRemove, InHand
  <2>2. CASE /\ rec' = [rec EXCEPT ![tgev[w]] = Gone]
             /\ TgDone(w) /\ TgOk
    <3>1. /\ tgpc'[w] \in {"idle", "clear"} /\ tgev'[w] = NoEvent /\ tgcopy'[w] = Gone
          /\ tgpc' = [tgpc EXCEPT ![w] = tgpc'[w]]
          /\ tgev' = [tgev EXCEPT ![w] = NoEvent] /\ tgcopy' = [tgcopy EXCEPT ![w] = Gone]
      BY <1>0, <2>1, <2>2 DEF TgDone
    <3>2. QED BY <1>0, <2>1, <2>2, <3>1 DEF TgOk
  <2>3. CASE /\ (~rec[tgev[w]].there /\ TgOk) \/ TgFault
             /\ TgFailed(w) /\ UNCHANGED rec
    BY <1>0, <2>1, <2>3 DEF TgFailed, TgOk, TgFault
  <2>4. QED BY <2>2, <2>3 DEF DelRemove
<1>2. UNCHANGED <<kind, jobs, nextjob, listeners, notify, fngen, fnlive, url, cpc, cres, urlLate, torn, tgrestarts>>
  BY DEF DelRemove, recVars, hndVars, fnVars, reqVars, calVars, TgGoto, TgOk, Starts, UrlStart, CronStart, ListenStart, CallDone, Stop, CronStop
<1>3. TgTypes'
  BY <1>0, <1>1, <1>2 DEF TgTypes, TgStateOK, AddLabels, DelLabels, TgRec
<1>4. InHand'
  BY <1>0, <1>1, <1>2 DEF InHand
<1>5. Alone'
  BY <1>0, <1>1, <1>2 DEF Alone
<1>6. Held'
  <2> DEFINE H(v) ==
                    /\ tgpc[v] \in AddLabels => rec[tgev[v]] = [Gone EXCEPT !.there = TRUE]
                    /\ tgpc[v] \in DelLabels /\ rec[tgev[v]].there => rec[tgev[v]].job = tgcopy[v].job
                    /\ tgpc[v] \in {"del_stop", "del_remove"} => rec[tgev[v]].there /\ ~rec[tgev[v]].key
                    /\ tgpc[v] = "del_remove" \/ (tgpc[v] = "del_key" /\ ~rec[tgev[v]].there) =>
                          \A j \in JobIds : jobs[j] # tgev[v]
  <2>1. tgev'[w] # NoEvent /\ tgev'[w] \notin torn' => H(w)'
    BY <1>0, <1>1, <1>2 DEF Held, AddLabels, DelLabels
  <2>2. ASSUME NEW v \in TgWorkers \ {w}, tgev'[v] # NoEvent, tgev'[v] \notin torn' PROVE H(v)'
    <3>1. tgev[v] # NoEvent /\ tgev[v] \notin torn
      BY <1>1, <1>2, <2>2
    <3>2. H(v)
      BY <1>0, <3>1 DEF Held
    <3>3. QED BY <1>0, <1>1, <1>2, <2>2, <3>1, <3>2 DEF Alone
  <2>3. ASSUME NEW v \in TgWorkers, tgev'[v] # NoEvent, tgev'[v] \notin torn' PROVE H(v)'
    <3>1. CASE v = w
      BY <2>1, <2>3, <3>1
    <3>2. CASE v # w
      BY <2>2, <2>3, <3>2
    <3>3. QED BY <3>1, <3>2
  <2>4. QED BY <2>3 DEF Held
<1>7. UrlKept'
  <2>1. ASSUME torn = {}
        PROVE  /\ tgev[w] # NoEvent /\ \A v \in TgWorkers : tgev[v] = tgev[w] => v = w
               /\ tgpc[w] \in AddLabels => ~rec[tgev[w]].key
               /\ tgpc[w] \in {"del_stop", "del_remove"} => ~rec[tgev[w]].key
    <3>1. tgev[w] # NoEvent /\ tgev[w] \notin torn
      BY <1>1, <2>1
    <3>2. \A v \in TgWorkers : tgev[v] = tgev[w] => v = w
      BY <1>0, <3>1 DEF Alone
    <3>3. QED BY <1>0, <3>1, <3>2 DEF Held
  <2>2. torn = {} /\ UrlKeyed => UrlKeyed'
    BY <1>0, <1>1, <1>2, <2>1 DEF UrlKeyed, AddLabels
  <2>3. torn = {} /\ Cleaning => Cleaning'
    BY <1>0, <1>1, <1>2, <2>1 DEF Cleaning
  <2>4. QED BY <1>0, <1>1, <1>2, <2>2, <2>3 DEF UrlKept, Looking
<1>8. CronJobs'
  BY <1>0, <1>1, <1>2 DEF CronJobs
<1>9. JobsTracked'
  <2>1. ASSUME NEW j \in JobIds, jobs'[j] # NoEvent, jobs'[j] \notin torn
        PROVE  \/ rec'[jobs'[j]].there /\ rec'[jobs'[j]].job = j
               \/ \E v \in TgWorkers : tgev'[v] = jobs'[j] /\ tgcopy'[v].job = j
    <3>1. /\ jobs'[j] = jobs[j] /\ jobs[j] \in Events /\ kind[jobs[j]] = "cron"
          /\ \/ rec[jobs[j]].there /\ rec[jobs[j]].job = j
             \/ \E v \in TgWorkers : tgev[v] = jobs[j] /\ tgcopy[v].job = j
      BY <1>0, <1>1, <1>2, <2>1 DEF JobsTracked, CronJobs
    <3>2. CASE jobs[j] # tgev[w]
      <4>1. rec'[jobs[j]] = rec[jobs[j]]
        BY <1>1, <1>2, <3>1, <3>2
      <4>2. ASSUME NEW v \in TgWorkers, tgev[v] = jobs[j], tgcopy[v].job = j
            PROVE  \E u \in TgWorkers : tgev'[u] = jobs[j] /\ tgcopy'[u].job = j
        <5>1. v # w
          BY <3>2, <4>2
        <5>2. QED BY <1>1, <1>2, <4>2, <5>1
      <4>3. QED BY <3>1, <4>1, <4>2
    <3>3. CASE jobs[j] = tgev[w]
      <4>1. tgev[w] # NoEvent /\ tgev[w] \notin torn /\ \A v \in TgWorkers : tgev[v] = tgev[w] => v = w
        BY <1>0, <2>1, <3>1, <3>3 DEF Alone
      <4>2. /\ tgpc[w] \in AddLabels => rec[tgev[w]] = [Gone EXCEPT !.there = TRUE]
            /\ tgpc[w] \in DelLabels /\ rec[tgev[w]].there => rec[tgev[w]].job = tgcopy[w].job
            /\ tgpc[w] = "del_remove" => \A i \in JobIds : jobs[i] # tgev[w]
        BY <1>0, <4>1 DEF Held
      <4>3. tgcopy[w].job = j /\ tgcopy[w].there /\ rec[tgev[w]] \in TgRec
        <5>1. tgpc[w] \in AddLabels \/ tgpc[w] \in DelLabels
          BY <1>1 DEF AddLabels, DelLabels
        <5>2. tgcopy[w].job = j \/ (rec[tgev[w]].there /\ rec[tgev[w]].job = j)
          BY <3>1, <3>3, <4>1
        <5>3. tgcopy[w].job = j
          BY <4>2, <5>1, <5>2
        <5>4. QED BY <1>0, <1>1, <4>1, <5>3 DEF InHand
      <4>4. QED BY <1>0, <1>1, <1>2, <2>1, <3>1, <3>3, <4>2, <4>3 DEF AddLabels, DelLabels
    <3>4. QED BY <3>2, <3>3
  <2>2. QED BY <1>2, <2>1 DEF JobsTracked
<1>10. HeardOf'
  <2>1. Clean' => Clean
    BY <1>0, <1>1, <1>2 DEF Clean
  <2>2. ASSUME Clean'
        PROVE  /\ \A v \in TgWorkers : tgev[v] = tgev[w] => v = w
               /\ tgev[w] \in Events /\ Clean /\ tgpc[w] # "add_undo"
               /\ tgfaults' = 0 /\ tgfaults = 0
    BY <1>0, <1>1, <2>1, <2>2 DEF Alone, Clean, HeardOf
  <2>2a. ASSUME Clean'
         PROVE  /\ tgpc[w] \in AddLabels => ~rec[tgev[w]].key /\ rec[tgev[w]].there
                /\ tgpc[w] \in {"del_stop", "del_remove"} => rec[tgev[w]].there
                /\ tgpc[w] \in {"del_stop", "del_remove"} => ~rec[tgev[w]].key
                /\ kind[tgev[w]] = "s3" /\ tgpc[w] \in {"add_sub", "add_save"} => tgcopy[w].key
                /\ kind[tgev[w]] = "s3" /\ tgpc[w] = "del_key" /\ rec[tgev[w]].there => rec[tgev[w]].key
    <3>1. tgev[w] # NoEvent /\ tgev[w] \notin torn
      BY <2>2, <2>2a DEF Clean
    <3>2. /\ tgpc[w] \in AddLabels => ~rec[tgev[w]].key /\ rec[tgev[w]].there
          /\ tgpc[w] \in {"del_stop", "del_remove"} => rec[tgev[w]].there
          /\ tgpc[w] \in {"del_stop", "del_remove"} => ~rec[tgev[w]].key
      BY <1>0, <3>1 DEF Held
    <3>3. /\ kind[tgev[w]] = "s3" /\ tgpc[w] \in {"add_sub", "add_save"} => tgcopy[w].key
          /\ kind[tgev[w]] = "s3" /\ tgpc[w] = "del_key" /\ rec[tgev[w]].there => rec[tgev[w]].key
      BY <1>0, <2>2, <2>2a, <3>1 DEF HeardOf
    <3>4. QED BY <3>2, <3>3
  <2>2b. ASSUME Clean' PROVE rec'[tgev[w]] = Gone /\ ~rec[tgev[w]].key /\ ~rec'[tgev[w]].key
    <3>1. tgfaults' = 0 /\ tgfaults = 0
      BY <2>2, <2>2b
    <3>2. /\ tgpc[w] \in {"add_start", "add_sub", "add_save"} => ~rec[tgev[w]].key /\ rec[tgev[w]].there
          /\ tgpc[w] \in {"del_stop", "del_remove"} => rec[tgev[w]].there
          /\ tgpc[w] \in {"del_stop", "del_remove"} => ~rec[tgev[w]].key
          /\ kind[tgev[w]] = "s3" /\ tgpc[w] \in {"add_sub", "add_save"} => tgcopy[w].key
          /\ kind[tgev[w]] = "s3" /\ tgpc[w] = "del_key" /\ rec[tgev[w]].there => rec[tgev[w]].key
      BY <2>2a, <2>2b DEF AddLabels, DelLabels
    <3>3. tgfaults' # tgfaults + 1 /\ rec[tgev[w]].there
      BY <1>1, <3>1, <3>2
    <3>4. QED BY <1>1, <3>2, <3>3
  <2>3. ASSUME Clean'
        PROVE  listeners' = Cardinality(Listening)' /\ notify' = Cardinality(Subscribing)'
    <3>1. /\ tgev[w] \in Events /\ kind' = kind /\ tgev'[w] \in {tgev[w], NoEvent}
          /\ \A v \in TgWorkers \ {w} : tgpc'[v] = tgpc[v] /\ tgev'[v] = tgev[v]
          /\ \A f \in Events \ {tgev[w]} : rec'[f] = rec[f]
          /\ \A v \in TgWorkers : tgev[v] = tgev[w] => v = w
      BY <1>1, <1>2, <2>2, <2>3
    <3>2. listeners = Cardinality(Listening) /\ notify = Cardinality(Subscribing)
      BY <1>0, <1>1, <2>2, <2>3 DEF HeardOf
    <3>3. listeners \in Nat /\ notify \in Int /\ listeners' \in Nat /\ notify' \in Int
      BY <1>0, <1>1, <1>2 DEF TgTypes, TgStateOK
    <3>4. Cardinality(Listening)' = Cardinality(Listening) + (listeners' - listeners)
      <4> DEFINE L == {"add_sub", "add_save", "del_stop"}
      <4>1. /\ tgev[w] \in InUse(L) <=> kind[tgev[w]] = "s3" /\ (rec[tgev[w]].key \/ tgpc[w] \in L)
            /\ tgev[w] \in InUse(L)' <=> kind[tgev[w]] = "s3" /\ (rec'[tgev[w]].key \/ (tgev'[w] = tgev[w] /\ tgpc'[w] \in L))
        BY <3>1, InUseMoves
      <4>2. /\ Cardinality(InUse(L)) \in Nat /\ (tgev[w] \in InUse(L) => Cardinality(InUse(L)) > 0)
            /\ Cardinality(InUse(L)') = Cardinality(InUse(L)) + (IF tgev[w] \in InUse(L)' THEN 1 ELSE 0)
                                                         - (IF tgev[w] \in InUse(L) THEN 1 ELSE 0)
        BY <3>1, InUseMoves
      <4>3. tgfaults' = 0 /\ tgfaults = 0
        BY <2>2, <2>3
      <4>4. tgev[w] \notin InUse(L) /\ tgev[w] \notin InUse(L)' /\ listeners' = listeners
        BY <1>1, <1>2, <2>2, <2>2b, <2>3, <2>2a, <3>3, <4>1, <4>3 DEF AddLabels, DelLabels
      <4>5. listeners' - listeners = (IF tgev[w] \in InUse(L)' THEN 1 ELSE 0) - (IF tgev[w] \in InUse(L) THEN 1 ELSE 0)
        BY <3>3, <4>4
      <4>6. Listening = InUse(L) /\ Listening' = InUse(L)'
        BY DEF Listening
      <4>7. Cardinality(Listening)' = Cardinality(InUse(L)') /\ Cardinality(Listening) = Cardinality(InUse(L))
        BY <4>6
      <4>8. Cardinality(InUse(L)') = Cardinality(InUse(L)) + (listeners' - listeners) /\ Cardinality(InUse(L)) \in Nat
        BY <3>3, <4>2, <4>5
      <4>9. QED BY <3>3, <4>7, <4>8
    <3>5. Cardinality(Subscribing)' = Cardinality(Subscribing) + (notify' - notify)
      <4> DEFINE L == {"add_save", "del_stop"}
      <4>1. /\ tgev[w] \in InUse(L) <=> kind[tgev[w]] = "s3" /\ (rec[tgev[w]].key \/ tgpc[w] \in L)
            /\ tgev[w] \in InUse(L)' <=> kind[tgev[w]] = "s3" /\ (rec'[tgev[w]].key \/ (tgev'[w] = tgev[w] /\ tgpc'[w] \in L))
        BY <3>1, InUseMoves
      <4>2. /\ Cardinality(InUse(L)) \in Nat /\ (tgev[w] \in InUse(L) => Cardinality(InUse(L)) > 0)
            /\ Cardinality(InUse(L)') = Cardinality(InUse(L)) + (IF tgev[w] \in InUse(L)' THEN 1 ELSE 0)
                                                         - (IF tgev[w] \in InUse(L) THEN 1 ELSE 0)
        BY <3>1, InUseMoves
      <4>3. tgfaults' = 0 /\ tgfaults = 0
        BY <2>2, <2>3
      <4>4. tgev[w] \notin InUse(L) /\ tgev[w] \notin InUse(L)' /\ notify' = notify
        BY <1>1, <1>2, <2>2, <2>2b, <2>3, <2>2a, <3>3, <4>1, <4>3 DEF AddLabels, DelLabels
      <4>5. notify' - notify = (IF tgev[w] \in InUse(L)' THEN 1 ELSE 0) - (IF tgev[w] \in InUse(L) THEN 1 ELSE 0)
        BY <3>3, <4>4
      <4>6. Subscribing = InUse(L) /\ Subscribing' = InUse(L)'
        BY DEF Subscribing
      <4>7. Cardinality(Subscribing)' = Cardinality(InUse(L)') /\ Cardinality(Subscribing) = Cardinality(InUse(L))
        BY <4>6
      <4>8. Cardinality(InUse(L)') = Cardinality(InUse(L)) + (notify' - notify) /\ Cardinality(InUse(L)) \in Nat
        BY <3>3, <4>2, <4>5
      <4>9. QED BY <3>3, <4>7, <4>8
    <3>6. QED BY <3>2, <3>3, <3>4, <3>5
  <2>4. ASSUME Clean'
        PROVE  \A f \in Events : kind'[f] = "s3" /\ rec'[f].there => rec'[f].key \/ \E v \in TgWorkers : tgev'[v] = f
    BY <1>0, <1>1, <1>2, <2>2, <2>2b, <2>4 DEF HeardOf, Held, AddLabels, DelLabels, Clean
  <2>5. ASSUME Clean'
        PROVE  \A v \in TgWorkers :
              /\ tgpc'[v] # "add_undo"
              /\ tgev'[v] # NoEvent /\ kind'[tgev'[v]] = "s3" =>
                    /\ tgpc'[v] \in {"add_sub", "add_save"} => tgcopy'[v].key
                    /\ tgpc'[v] = "del_key" /\ rec'[tgev'[v]].there => rec'[tgev'[v]].key
    BY <1>0, <1>1, <1>2, <2>2, <2>2b, <2>5 DEF HeardOf, Held, AddLabels, DelLabels, Clean, InHand
  <2>6. QED BY <2>3, <2>4, <2>5 DEF HeardOf
<1>11. QED BY <1>3, <1>4, <1>5, <1>6, <1>7, <1>8, <1>9, <1>10 DEF TgCore
\* There are ids of jobs for as many triggers as there can be.
LEMMA JobsForAll ==
  ASSUME NEW n \in Nat, NEW c \in Nat, NEW m \in Nat, n <= c
  PROVE  1..n \subseteq 1..(c * (m + 1))
<1>1. c <= c * (m + 1) /\ c * (m + 1) \in Nat
  OBVIOUS
<1>2. PICK top \in Nat : top = c * (m + 1) /\ c <= top
  BY <1>1
<1>3. 1..n \subseteq 1..top
  BY <1>2
<1>4. QED BY <1>2, <1>3

\* The gate dies.
LEMMA TgDiesKeeps ==
  ASSUME TgInv, GateDies
  PROVE  TgCore'
<1> USE TgKnown
<1>0. /\ TgTypes /\ InHand /\ kind \in [Events -> Kinds \cup {Unused}] /\ rec \in [Events -> TgRec]
      /\ tgfaults \in Nat /\ tgrestarts \in Nat
  BY TgParts
<1>1. /\ nextjob' = 1 /\ listeners' = 0 /\ url' = Uncached /\ jobs' = [j \in JobIds |-> NoEvent]
      /\ tgpc' = [w \in TgWorkers |-> "down"] /\ tgev' = [w \in TgWorkers |-> NoEvent]
      /\ tgcopy' = [w \in TgWorkers |-> Gone] /\ tglist' = [w \in TgWorkers |-> NoneListed]
      /\ cpc' = [c \in TgCallers |-> "down"] /\ cres' = [c \in TgCallers |-> Uncached]
      /\ urlLate' = FALSE /\ torn' = {} /\ tgrestarts' = tgrestarts + 1
      /\ kind' = kind /\ rec' = rec /\ notify' = notify /\ fngen' = fngen /\ fnlive' = fnlive
      /\ tgfaults' = tgfaults
  BY DEF GateDies, MemoryLost, NoCron, Everybody, fnVars, recVars
<1>2. TgTypes'
  <2>1. notify \in Int /\ fngen \in Nat /\ fnlive \in BOOLEAN
    BY <1>0 DEF TgTypes, TgStateOK
  <2>2. /\ kind' \in [Events -> Kinds \cup {Unused}] /\ notify' \in Int /\ fngen' \in Nat /\ fnlive' \in BOOLEAN
        /\ listeners' \in Nat /\ url' \in Nat \cup {Uncached} /\ nextjob' \in Nat
    BY <1>0, <1>1, <2>1
  <2>2a. urlLate' \in BOOLEAN /\ torn' \subseteq Events
    BY <1>1
  <2>2b. tgfaults' \in Nat /\ tgrestarts' \in Nat
    BY <1>0, <1>1
  <2>3. /\ tgev' \in [TgWorkers -> Events \cup {NoEvent}]
        /\ tgpc' \in [TgWorkers -> {"idle", "clear", "down"} \cup AddLabels \cup DelLabels]
        /\ tgcopy' \in [TgWorkers -> TgRec]
        /\ cpc' \in [TgCallers -> {"idle", "memd", "store", "down"}] /\ cres' \in [TgCallers -> Nat \cup {Uncached}]
    BY <1>1 DEF NoneListed
  <2>4. jobs' \in [JobIds -> Events \cup {NoEvent}] /\ rec' \in [Events -> TgRec]
    BY <1>0, <1>1
  <2>5. QED BY <2>2, <2>2a, <2>2b, <2>3, <2>4 DEF TgTypes, TgStateOK, TgRec
<1>3. InHand' /\ Alone' /\ Held'
  BY <1>0, <1>1 DEF InHand, Alone, Held
<1>4. UrlKept' /\ CronJobs' /\ JobsTracked'
  BY <1>1 DEF UrlKept, Looking, CronJobs, JobsTracked
<1>5. HeardOf'
  BY <1>0, <1>1 DEF HeardOf, Clean
<1>6. QED BY <1>2, <1>3, <1>4, <1>5 DEF TgCore

\* It starts, or dies with some of the triggers done.
LEMMA TgStartKeeps ==
  ASSUME TgInv, GateStart
  PROVE  TgCore'
<1> USE TgKnown
<1>0. /\ TgTypes /\ InHand /\ kind \in [Events -> Kinds \cup {Unused}] /\ rec \in [Events -> TgRec]
      /\ tgfaults \in Nat /\ tgrestarts \in Nat
  BY TgParts
<1> DEFINE crons == {e \in Events : rec[e].there /\ kind[e] \in Crons}
           loaded(d, o) == [e \in Events |-> IF e \in d THEN [rec[e] EXCEPT !.job = o[e]] ELSE rec[e]]
           running(d, o) == [j \in JobIds |-> IF \E e \in d : o[e] = j
                                               THEN CHOOSE e \in d : o[e] = j ELSE NoEvent]
<1>f. PICK done \in SUBSET {e \in crons : kind[e] = "cron"} : \E ord \in [done -> 1..Cardinality(done)] :
          /\ rec' = loaded(done, ord)
          /\ \/ Everybody("idle") /\ jobs' = running(done, ord) /\ nextjob' = Cardinality(done) + 1
             \/ Everybody("down") /\ NoCron
  BY DEF GateStart
<1>a. PICK ord \in [done -> 1..Cardinality(done)] :
          /\ rec' = loaded(done, ord)
          /\ \/ Everybody("idle") /\ jobs' = running(done, ord) /\ nextjob' = Cardinality(done) + 1
             \/ Everybody("down") /\ NoCron
  BY <1>f
<1>b. /\ listeners' = 0 /\ url' = Uncached
      /\ tgev' = [w \in TgWorkers |-> NoEvent]
      /\ tgcopy' = [w \in TgWorkers |-> Gone] /\ tglist' = [w \in TgWorkers |-> NoneListed]
      /\ cres' = [c \in TgCallers |-> Uncached]
      /\ urlLate' = FALSE /\ torn' = {} /\ tgrestarts' = tgrestarts
      /\ kind' = kind /\ notify' = notify /\ fngen' = fngen /\ fnlive' = fnlive /\ tgfaults' = tgfaults
  BY DEF GateStart, MemoryLost, fnVars
<1>c. tgrestarts > 0
  BY DEF GateStart, TgInv, DownAfter
<1>d. \/ tgpc' = [w \in TgWorkers |-> "idle"] /\ cpc' = [c \in TgCallers |-> "idle"]
      \/ tgpc' = [w \in TgWorkers |-> "down"] /\ cpc' = [c \in TgCallers |-> "down"]
  BY <1>a DEF Everybody
<1>e. \/ jobs' = running(done, ord) /\ nextjob' = Cardinality(done) + 1
      \/ jobs' = [j \in JobIds |-> NoEvent] /\ nextjob' = 1
  BY <1>a DEF NoCron
<1>3. /\ Cardinality(done) \in Nat /\ 1..Cardinality(done) \subseteq JobIds
      /\ \A e \in done : e \in Events /\ kind[e] = "cron" /\ rec[e].there
  <2>1. done \subseteq Events /\ \A e \in done : e \in Events /\ kind[e] = "cron" /\ rec[e].there
    OBVIOUS
  <2>2. Cardinality(done) \in Nat /\ Cardinality(done) <= Cardinality(Events)
    BY <2>1, FS_Subset, FS_CardinalityType
  <2>3. \A n \in Nat : n <= Cardinality(Events) => 1..n \subseteq JobIds
    BY TgAssumption, JobsForAll DEF JobIds
  <2>4. QED BY <2>1, <2>2, <2>3
<1>4. ASSUME NEW e \in Events
      PROVE  rec'[e] \in TgRec /\ rec'[e].there = rec[e].there /\ (e \in done => rec'[e].job = ord[e])
  <2>1. CASE e \in done
    <3>1. ord[e] \in JobIds /\ rec[e] \in TgRec /\ rec'[e] = [rec[e] EXCEPT !.job = ord[e]]
      BY <1>0, <1>a, <1>3, <2>1
    <3>2. /\ [rec[e] EXCEPT !.job = ord[e]] \in TgRec /\ [rec[e] EXCEPT !.job = ord[e]].there = rec[e].there
          /\ [rec[e] EXCEPT !.job = ord[e]].job = ord[e]
      BY <3>1 DEF TgRec
    <3>3. QED BY <3>1, <3>2
  <2>2. CASE e \notin done
    BY <1>0, <1>a, <2>2
  <2>3. QED BY <2>1, <2>2
<1>5. ASSUME NEW j \in JobIds
      PROVE  jobs'[j] = NoEvent \/ (jobs'[j] \in done /\ ord[jobs'[j]] = j)
  <2>1. CASE jobs' = [i \in JobIds |-> NoEvent]
    BY <2>1
  <2>2. CASE jobs' = running(done, ord)
    <3>1. CASE \E e \in done : ord[e] = j
      <4>1. jobs'[j] = CHOOSE e \in done : ord[e] = j
        BY <2>2, <3>1
      <4>2. (CHOOSE e \in done : ord[e] = j) \in done /\ ord[CHOOSE e \in done : ord[e] = j] = j
        BY <3>1
      <4>3. QED BY <4>1, <4>2
    <3>2. CASE ~\E e \in done : ord[e] = j
      BY <2>2, <3>2
    <3>3. QED BY <3>1, <3>2
  <2>3. QED BY <1>e, <2>1, <2>2
<1>6. jobs' \in [JobIds -> Events \cup {NoEvent}] /\ rec' \in [Events -> TgRec] /\ nextjob' \in Nat
  <2>1. jobs' = [j \in JobIds |-> jobs'[j]] /\ rec' = [e \in Events |-> rec'[e]]
    BY <1>a, <1>e
  <2>2. \A j \in JobIds : jobs'[j] \in Events \cup {NoEvent}
    BY <1>3, <1>5
  <2>3. \A e \in Events : rec'[e] \in TgRec
    BY <1>4
  <2>4. nextjob' \in Nat
    BY <1>3, <1>e
  <2>5. QED BY <2>1, <2>2, <2>3, <2>4
<1>7. TgTypes'
  <2>1. notify \in Int /\ fngen \in Nat /\ fnlive \in BOOLEAN
    BY <1>0 DEF TgTypes, TgStateOK
  <2>2. /\ kind' \in [Events -> Kinds \cup {Unused}] /\ notify' \in Int /\ fngen' \in Nat /\ fnlive' \in BOOLEAN
        /\ listeners' \in Nat /\ url' \in Nat \cup {Uncached}
        /\ urlLate' \in BOOLEAN /\ torn' \subseteq Events /\ tgfaults' \in Nat /\ tgrestarts' \in Nat
    BY <1>0, <1>b, <2>1
  <2>3. /\ tgev' \in [TgWorkers -> Events \cup {NoEvent}]
        /\ tgpc' \in [TgWorkers -> {"idle", "clear", "down"} \cup AddLabels \cup DelLabels]
        /\ tgcopy' \in [TgWorkers -> TgRec]
        /\ cpc' \in [TgCallers -> {"idle", "memd", "store", "down"}] /\ cres' \in [TgCallers -> Nat \cup {Uncached}]
    BY <1>b, <1>d DEF NoneListed
  <2>4. QED BY <1>6, <2>2, <2>3 DEF TgTypes, TgStateOK, TgRec
<1>8. InHand'
  BY <1>0, <1>b, <1>c, <1>d, <1>4 DEF InHand
<1>9. Alone' /\ Held'
  BY <1>b DEF Alone, Held
<1>10. UrlKept'
  BY <1>b, <1>d DEF UrlKept, Looking
<1>11. CronJobs'
  BY <1>b, <1>3, <1>5 DEF CronJobs
<1>12. JobsTracked'
  <2>1. ASSUME NEW j \in JobIds, jobs'[j] # NoEvent PROVE rec'[jobs'[j]].there /\ rec'[jobs'[j]].job = j
    BY <1>3, <1>4, <1>5, <2>1
  <2>2. QED BY <2>1 DEF JobsTracked
<1>13. HeardOf'
  BY <1>0, <1>b, <1>c DEF HeardOf, Clean
<1>14. QED BY <1>7, <1>8, <1>9, <1>10, <1>11, <1>12, <1>13 DEF TgCore

\* What keeps the copies a removal lists: they stay or go, no record that is listed
\* gets another job but by a request that adds it, and none begins to be added.
LEMMA ListedMoves ==
  ASSUME TgInv, torn \subseteq torn',
         \A e \in Events : kind[e] # Unused => kind'[e] = kind[e],
         \A w \in TgWorkers, e \in Events :
             tglist'[w][e].there => tglist[w][e].there /\ tglist'[w][e] = tglist[w][e],
         \A e \in Events : \/ rec'[e].there => rec[e].there /\ rec'[e].job = rec[e].job
                           \/ kind[e] = Unused
                           \/ \E v \in TgWorkers : tgev[v] = e /\ tgpc[v] \in AddLabels,
         \A v \in TgWorkers : tgpc'[v] \in AddLabels =>
             (tgpc[v] \in AddLabels /\ tgev'[v] = tgev[v]) \/ kind[tgev'[v]] = Unused
  PROVE  Listed'
<1>1. Listed
  BY DEF TgInv
<1>2. SUFFICES ASSUME NEW w \in TgWorkers, NEW e \in Events, tglist'[w][e].there
               PROVE  /\ kind'[e] # Unused
                      /\ e \notin torn' =>
                            /\ rec'[e].there => rec'[e].job = tglist'[w][e].job
                            /\ \A v \in TgWorkers : tgev'[v] = e => tgpc'[v] \notin AddLabels
  BY DEF Listed
<1>3. tglist[w][e].there /\ tglist'[w][e] = tglist[w][e] /\ kind[e] # Unused /\ kind'[e] = kind[e]
  BY <1>1, <1>2 DEF Listed
<1>4. ASSUME e \notin torn'
      PROVE  /\ rec[e].there => rec[e].job = tglist[w][e].job
             /\ \A v \in TgWorkers : tgev[v] = e => tgpc[v] \notin AddLabels
  BY <1>1, <1>3, <1>4 DEF Listed
<1>5. ASSUME e \notin torn', rec'[e].there PROVE rec'[e].job = tglist'[w][e].job
  BY <1>3, <1>4, <1>5
<1>6. ASSUME e \notin torn', NEW v \in TgWorkers, tgev'[v] = e PROVE tgpc'[v] \notin AddLabels
  BY <1>3, <1>4, <1>6
<1>7. QED BY <1>3, <1>5, <1>6

\* The steps of a request that add and delete keep them.
LEMMA TgWorkKeepsListed ==
  ASSUME TgInv, NEW w \in TgWorkers,
         \/ \E e \in Events : (\E k \in Kinds : AddInsert(w, e, k)) \/ DelFind(w, e) \/ ClearNext(w, e)
         \/ AddStart(w) \/ AddSubscribe(w) \/ AddSave(w) \/ AddUndo(w)
         \/ DelKey(w) \/ DelStop(w) \/ DelRemove(w) \/ FnRemove(w) \/ FnAdd(w)
  PROVE  Listed'
<1> USE TgKnown
<1>0. /\ InHand /\ kind \in [Events -> Kinds \cup {Unused}] /\ rec \in [Events -> TgRec]
      /\ tgev \in [TgWorkers -> Events \cup {NoEvent}]
      /\ tgcopy \in [TgWorkers -> TgRec] /\ tglist \in [TgWorkers -> [Events -> TgRec]]
      /\ tgpc \in [TgWorkers -> {"idle", "clear", "down"} \cup AddLabels \cup DelLabels]
  BY TgParts DEF TgInv, ListTypes
<1>1. ASSUME NEW e \in Events, NEW k \in Kinds, AddInsert(w, e, k) PROVE Listed'
  <2>1. /\ tgpc[w] = "idle" /\ kind[e] = Unused /\ kind' = [kind EXCEPT ![e] = k]
        /\ rec' = [rec EXCEPT ![e] = [Gone EXCEPT !.there = TRUE]]
        /\ tgpc' = [tgpc EXCEPT ![w] = "add_start"] /\ tgev' = [tgev EXCEPT ![w] = e]
        /\ tglist' = tglist /\ torn' = torn
    BY <1>1 DEF AddInsert, FreshId
  <2>2. QED BY <1>0, <2>1, ListedMoves
<1>2. ASSUME NEW e \in Events, NEW r, tgpc[w] \in {"idle", "clear"}, DelBegin(w, e, r) PROVE Listed'
  <2>1. /\ kind' = kind /\ rec' = rec /\ tglist' = tglist /\ torn \subseteq torn'
        /\ tgpc' = [tgpc EXCEPT ![w] = "del_key"] /\ tgev' = [tgev EXCEPT ![w] = e]
    BY <1>2 DEF DelBegin, recVars
  <2>2. QED BY <1>0, <2>1, ListedMoves DEF AddLabels
<1>3. CASE AddStart(w)
  <2>1. /\ kind' = kind /\ rec' = rec /\ tglist' = tglist /\ torn' = torn /\ tgev' = tgev
        /\ tgpc[w] \in AddLabels /\ \A v \in TgWorkers \ {w} : tgpc'[v] = tgpc[v]
    BY <1>0, <1>3 DEF AddStart, UrlStart, CronStart, ListenStart, Starts, recVars, AddLabels
  <2>2. QED BY <1>0, <2>1, ListedMoves
<1>4. CASE AddSubscribe(w)
  <2>1. /\ kind' = kind /\ rec' = rec /\ tglist' = tglist /\ torn' = torn /\ tgev' = tgev
        /\ tgpc[w] \in AddLabels /\ \A v \in TgWorkers \ {w} : tgpc'[v] = tgpc[v]
    BY <1>0, <1>4 DEF AddSubscribe, TgGoto, recVars, AddLabels
  <2>2. QED BY <1>0, <2>1, ListedMoves
<1>5. ASSUME kind' = kind, torn' = torn, TgFailed(w),
             \/ rec' = rec
             \/ \E e \in Events :
                   \/ rec' = [rec EXCEPT ![e] = Gone]
                   \/ e = tgev[w] /\ tgpc[w] \in AddLabels /\ \A f \in Events \ {e} : rec'[f] = rec[f]
      PROVE Listed'
  <2>1. /\ tgpc' = [tgpc EXCEPT ![w] = "idle"] /\ tgev' = [tgev EXCEPT ![w] = NoEvent]
        /\ tglist' = [tglist EXCEPT ![w] = NoneListed]
    BY <1>5 DEF TgFailed
  <2>2. \A v \in TgWorkers, e \in Events :
             tglist'[v][e].there => tglist[v][e].there /\ tglist'[v][e] = tglist[v][e]
    BY <1>0, <2>1 DEF NoneListed
  <2>3. \A v \in TgWorkers : tgpc'[v] \in AddLabels => tgpc[v] \in AddLabels /\ tgev'[v] = tgev[v]
    BY <1>0, <2>1 DEF AddLabels
  <2>4. \A e \in Events : \/ rec'[e].there => rec[e].there /\ rec'[e].job = rec[e].job
                          \/ \E v \in TgWorkers : tgev[v] = e /\ tgpc[v] \in AddLabels
    BY <1>0, <1>5
  <2>5. QED BY <1>5, <2>2, <2>3, <2>4, ListedMoves
<1>6. ASSUME kind' = kind, torn' = torn, NEW l, TgGoto(w, l), rec' = rec \/ tgpc[w] = "del_key",
             l \in AddLabels => tgpc[w] \in AddLabels,
             \A e \in Events : rec'[e].there => rec[e].there /\ rec'[e].job = rec[e].job
      PROVE Listed'
  <2>1. \A v \in TgWorkers : tgpc'[v] \in AddLabels => tgpc[v] \in AddLabels /\ tgev'[v] = tgev[v]
    BY <1>0, <1>6 DEF TgGoto
  <2>2. tglist' = tglist
    BY <1>6 DEF TgGoto
  <2>3. QED BY <1>6, <2>1, <2>2, ListedMoves
<1>7. CASE AddSave(w)
  <2>1. kind' = kind /\ torn' = torn /\ tgpc[w] \in AddLabels /\ tgev[w] \in Events
    BY <1>0, <1>7 DEF AddSave, InHand, AddLabels
  <2>2. \/ TgFailed(w) /\ \A f \in Events \ {tgev[w]} : rec'[f] = rec[f]
        \/ TgGoto(w, "add_undo") /\ rec' = rec
    BY <1>0, <1>7 DEF AddSave
  <2>3. QED BY <1>5, <1>6, <2>1, <2>2 DEF AddLabels
<1>8. CASE AddUndo(w)
  <2>1. /\ kind' = kind /\ torn' = torn /\ tgev[w] \in Events /\ TgFailed(w)
        /\ rec' = rec \/ rec' = [rec EXCEPT ![tgev[w]] = Gone]
    BY <1>0, <1>8 DEF AddUndo, InHand
  <2>2. QED BY <1>5, <2>1
<1>9. CASE DelKey(w)
  <2>1. kind' = kind /\ torn' = torn /\ tgpc[w] = "del_key" /\ tgev[w] \in Events
    BY <1>0, <1>9 DEF DelKey, InHand
  <2>2. CASE rec' = [rec EXCEPT ![tgev[w]].key = FALSE] /\ TgGoto(w, "del_stop")
    <3>1. rec' = [rec EXCEPT ![tgev[w]] = [rec[tgev[w]] EXCEPT !.key = FALSE]]
      BY <2>2
    <3>2. \A e \in Events : rec'[e].there => rec[e].there /\ rec'[e].job = rec[e].job
      BY <1>0, <2>1, <3>1, TgEdits
    <3>3. QED BY <1>6, <2>1, <2>2, <3>2 DEF AddLabels
  <2>3. CASE TgFailed(w) /\ UNCHANGED rec
    BY <1>5, <2>1, <2>3
  <2>4. QED BY <1>9, <2>2, <2>3 DEF DelKey
<1>10. CASE DelStop(w)
  <2>1. kind' = kind /\ torn' = torn /\ rec' = rec /\ (TgFailed(w) \/ TgGoto(w, "del_remove"))
    BY <1>10 DEF DelStop, recVars
  <2>2. QED BY <1>5, <1>6, <2>1 DEF AddLabels
<1>11. CASE DelRemove(w)
  <2>1. kind' = kind /\ torn' = torn /\ tgpc[w] = "del_remove" /\ tgev[w] \in Events
    BY <1>0, <1>11 DEF DelRemove, InHand
  <2>2. CASE rec' = [rec EXCEPT ![tgev[w]] = Gone] /\ TgDone(w)
    <3>1. /\ \A v \in TgWorkers \ {w} : tgpc'[v] = tgpc[v] /\ tgev'[v] = tgev[v]
          /\ tgpc'[w] \in {"idle", "clear"}
          /\ tglist' = [tglist EXCEPT ![w] = [tglist[w] EXCEPT ![tgev[w]] = Gone]]
      BY <1>0, <2>2 DEF TgDone
    <3>2. \A v \in TgWorkers, e \in Events :
             tglist'[v][e].there => tglist[v][e].there /\ tglist'[v][e] = tglist[v][e]
      BY <1>0, <2>1, <3>1
    <3>3. \A v \in TgWorkers : tgpc'[v] \in AddLabels => tgpc[v] \in AddLabels /\ tgev'[v] = tgev[v]
      BY <3>1 DEF AddLabels
    <3>4. \A e \in Events : rec'[e].there => rec[e].there /\ rec'[e].job = rec[e].job
      BY <1>0, <2>1, <2>2
    <3>5. QED BY <2>1, <3>2, <3>3, <3>4, ListedMoves
  <2>3. CASE TgFailed(w) /\ UNCHANGED rec
    BY <1>5, <2>1, <2>3
  <2>4. QED BY <1>11, <2>2, <2>3 DEF DelRemove
<1>12. CASE FnRemove(w)
  <2>1. kind' = kind /\ torn' = torn /\ rec' = rec /\ TgFailed(w)
    BY <1>12 DEF FnRemove, recVars
  <2>2. QED BY <1>5, <2>1
<1>13. CASE FnAdd(w)
  <2>1. /\ kind' = kind /\ torn' = torn /\ rec' = rec /\ tgpc' = tgpc /\ tgev' = tgev /\ tglist' = tglist
    BY <1>13 DEF FnAdd, recVars, reqVars
  <2>2. QED BY <2>1, ListedMoves
<1>14. ASSUME NEW e \in Events, DelFind(w, e) \/ ClearNext(w, e) PROVE Listed'
  <2>1. CASE DelFind(w, e)
    <3>1. tgpc[w] = "idle" /\ DelBegin(w, e, rec[e])
      BY <2>1 DEF DelFind
    <3>2. QED BY <1>2, <3>1
  <2>2. CASE ClearNext(w, e)
    <3>1. tgpc[w] = "clear" /\ DelBegin(w, e, tglist[w][e])
      BY <2>2 DEF ClearNext
    <3>2. QED BY <1>2, <3>1
  <2>3. QED BY <1>14, <2>1, <2>2
<1>15. QED BY <1>1, <1>3, <1>4, <1>7, <1>8, <1>9, <1>10, <1>11, <1>12, <1>13, <1>14

\* A removal lists the records as they are, and tears those that are being added.
LEMMA TgClearAllListed ==
  ASSUME TgInv, NEW w \in TgWorkers, ClearAll(w)
  PROVE  Listed'
<1> USE TgKnown
<1>0. /\ InHand /\ rec \in [Events -> TgRec] /\ tglist \in [TgWorkers -> [Events -> TgRec]]
      /\ tgpc \in [TgWorkers -> {"idle", "clear", "down"} \cup AddLabels \cup DelLabels]
      /\ Listed
  BY TgParts DEF TgInv, ListTypes
<1>1. /\ tglist' = [tglist EXCEPT ![w] = rec] /\ tgpc' = [tgpc EXCEPT ![w] = "clear"]
      /\ torn' = torn \cup {e \in Events : rec[e].there /\ Adding(e)}
      /\ tgev' = tgev /\ rec' = rec /\ kind' = kind
  BY DEF ClearAll, recVars
<1>2. SUFFICES ASSUME NEW u \in TgWorkers, NEW e \in Events, tglist'[u][e].there
               PROVE  /\ kind[e] # Unused
                      /\ e \notin torn' =>
                            /\ rec[e].there => rec[e].job = tglist'[u][e].job
                            /\ \A v \in TgWorkers : tgev[v] = e => tgpc'[v] \notin AddLabels
  BY <1>1 DEF Listed
<1>3. \A v \in TgWorkers : tgpc'[v] \in AddLabels => tgpc[v] \in AddLabels
  BY <1>0, <1>1 DEF AddLabels
<1>4. CASE u = w
  <2>1. tglist'[u][e] = rec[e] /\ rec[e].there
    BY <1>0, <1>1, <1>2, <1>4
  <2>2. kind[e] # Unused
    BY <1>0, <2>1 DEF InHand
  <2>3. ASSUME e \notin torn', NEW v \in TgWorkers, tgev[v] = e PROVE tgpc[v] \notin AddLabels
    BY <1>1, <2>1, <2>3 DEF Adding, AddLabels
  <2>4. QED BY <1>3, <2>1, <2>2, <2>3
<1>5. CASE u # w
  <2>1. tglist'[u] = tglist[u]
    BY <1>0, <1>1, <1>5
  <2>2. QED BY <1>0, <1>1, <1>2, <1>3, <2>1 DEF Listed
<1>6. QED BY <1>4, <1>5

\* Without a step nothing changes.
LEMMA TgStutter ==
  ASSUME TgInv, UNCHANGED tgVars
  PROVE  TgInv'
<1>1. /\ ListTypes /\ Listed /\ DownAfter /\ TgTypes /\ InHand /\ Alone /\ Held /\ UrlKept /\ CronJobs /\ JobsTracked /\ HeardOf
      /\ UNCHANGED <<kind, rec, jobs, nextjob, listeners, notify, fngen, fnlive, url, tgpc, tgev, tgcopy,
                     tglist, cpc, cres, urlLate, torn, tgfaults, tgrestarts>>
  BY DEF TgInv, TgCore, tgVars, recVars, hndVars, fnVars, reqVars, calVars
<1>2. TgTypes' /\ InHand' /\ Alone' /\ Held'
  BY <1>1 DEF TgTypes, TgStateOK, InHand, Alone, Held
<1>3. UrlKept' /\ CronJobs' /\ JobsTracked'
  BY <1>1 DEF UrlKept, UrlKeyed, Cleaning, Looking, CronJobs, JobsTracked
<1>4. Listening' = Listening /\ Subscribing' = Subscribing
  BY <1>1 DEF Listening, Subscribing, InUse
<1>5. HeardOf'
  BY <1>1, <1>4 DEF HeardOf, Clean
<1>6. ListTypes' /\ Listed' /\ DownAfter'
  BY <1>1 DEF ListTypes, Listed, DownAfter
<1>7. QED BY <1>2, <1>3, <1>5, <1>6 DEF TgInv, TgCore

\* At first no trigger is there.
LEMMA TgInitInv == TgInit => TgInv
<1> USE TgKnown
<1> SUFFICES ASSUME TgInit PROVE TgInv
  OBVIOUS
<1>1. TgTypes
  <2>1. /\ kind \in [Events -> Kinds \cup {Unused}] /\ rec \in [Events -> TgRec]
        /\ jobs \in [JobIds -> Events \cup {NoEvent}]
        /\ tgev \in [TgWorkers -> Events \cup {NoEvent}]
        /\ tgpc \in [TgWorkers -> {"idle", "clear", "down"} \cup AddLabels \cup DelLabels]
        /\ tgcopy \in [TgWorkers -> TgRec]
        /\ cpc \in [TgCallers -> {"idle", "memd", "store", "down"}] /\ cres \in [TgCallers -> Nat \cup {Uncached}]
    BY DEF TgInit
  <2>2. /\ nextjob \in Nat /\ listeners \in Nat /\ notify \in Int /\ fngen \in Nat
        /\ url \in Nat \cup {Uncached} /\ tgfaults \in Nat /\ tgrestarts \in Nat
    BY DEF TgInit
  <2>3. fnlive \in BOOLEAN /\ urlLate \in BOOLEAN /\ torn \subseteq Events
    BY DEF TgInit
  <2>4. QED BY <2>1, <2>2, <2>3 DEF TgTypes, TgStateOK, TgRec
<1>2. InHand /\ Alone /\ Held /\ UrlKept /\ CronJobs /\ JobsTracked
  BY DEF TgInit, InHand, Alone, Held, UrlKept, Looking, CronJobs, JobsTracked
<1>3. HeardOf
  <2>1. \A L : InUse(L) = {}
    BY DEF TgInit, InUse, Unused
  <2>2. Listening = {} /\ Subscribing = {}
    BY <2>1 DEF Listening, Subscribing
  <2>3. Cardinality(Listening) = 0 /\ Cardinality(Subscribing) = 0
    BY <2>2, FS_EmptySet
  <2>4. QED BY <2>3 DEF TgInit, HeardOf
<1>4. ListTypes /\ Listed /\ DownAfter
  BY DEF TgInit, ListTypes, Listed, DownAfter, NoneListed
<1>5. QED BY <1>1, <1>2, <1>3, <1>4 DEF TgInv, TgCore

\* What a step does to the copies that are listed and to the labels.
LEMMA TgListTypes ==
  ASSUME TgInv, TgNext
  PROVE  ListTypes' /\ DownAfter'
<1> USE TgKnown
<1>0. /\ tglist \in [TgWorkers -> [Events -> TgRec]] /\ rec \in [Events -> TgRec]
      /\ tgpc \in [TgWorkers -> {"idle", "clear", "down"} \cup AddLabels \cup DelLabels]
      /\ tgev \in [TgWorkers -> Events \cup {NoEvent}] /\ tgrestarts \in Nat /\ InHand
      /\ DownAfter /\ NoneListed \in [Events -> TgRec]
  BY TgParts DEF TgInv, ListTypes, NoneListed
<1>1. ASSUME NEW w \in TgWorkers, NEW l, l # "down", tgrestarts' = tgrestarts,
             tgpc' = [tgpc EXCEPT ![w] = l],
             tglist' = tglist \/ (\E f \in [Events -> TgRec] : tglist' = [tglist EXCEPT ![w] = f])
      PROVE  ListTypes' /\ DownAfter'
  <2>1. ListTypes'
    BY <1>0, <1>1 DEF ListTypes
  <2>2. DownAfter'
    BY <1>0, <1>1 DEF DownAfter
  <2>3. QED BY <2>1, <2>2
<1>2. ASSUME tglist' = tglist, tgpc' = tgpc, tgrestarts' = tgrestarts PROVE ListTypes' /\ DownAfter'
  BY <1>0, <1>2 DEF ListTypes, DownAfter
<1>3. ASSUME NEW w \in TgWorkers, TgFailed(w), tgrestarts' = tgrestarts PROVE ListTypes' /\ DownAfter'
  BY <1>0, <1>1, <1>3 DEF TgFailed
<1>4. ASSUME NEW w \in TgWorkers, NEW l, l # "down", TgGoto(w, l), tgrestarts' = tgrestarts
      PROVE ListTypes' /\ DownAfter'
  BY <1>1, <1>4 DEF TgGoto
<1>5. ASSUME NEW w \in TgWorkers, NEW e \in Events, NEW k \in Kinds, AddInsert(w, e, k)
      PROVE ListTypes' /\ DownAfter'
  BY <1>1, <1>5 DEF AddInsert
<1>6. ASSUME NEW w \in TgWorkers, NEW e \in Events, DelFind(w, e) \/ ClearNext(w, e)
      PROVE ListTypes' /\ DownAfter'
  <2>1. PICK r : DelBegin(w, e, r)
    BY <1>6 DEF DelFind, ClearNext
  <2>2. tgpc' = [tgpc EXCEPT ![w] = "del_key"] /\ tglist' = tglist /\ tgrestarts' = tgrestarts
    BY <2>1 DEF DelBegin
  <2>3. QED BY <1>1, <2>2
<1>7. ASSUME NEW w \in TgWorkers, ClearAll(w) PROVE ListTypes' /\ DownAfter'
  <2>1. tgpc' = [tgpc EXCEPT ![w] = "clear"] /\ tglist' = [tglist EXCEPT ![w] = rec] /\ tgrestarts' = tgrestarts
    BY <1>7 DEF ClearAll
  <2>2. QED BY <1>0, <1>1, <2>1
<1>8. ASSUME NEW w \in TgWorkers, AddStart(w) PROVE ListTypes' /\ DownAfter'
  <2>1. PICK l \in {"add_save", "add_sub"} :
           tgpc' = [tgpc EXCEPT ![w] = l] /\ tglist' = tglist /\ tgrestarts' = tgrestarts
    BY <1>8 DEF AddStart, UrlStart, CronStart, ListenStart, Starts
  <2>2. QED BY <1>1, <2>1
<1>9. ASSUME NEW w \in TgWorkers, AddSubscribe(w) \/ AddSave(w) \/ AddUndo(w) \/ DelKey(w) \/ DelStop(w)
      PROVE ListTypes' /\ DownAfter'
  <2>1. tgrestarts' = tgrestarts
    BY <1>9 DEF AddSubscribe, AddSave, AddUndo, DelKey, DelStop
  <2>2. TgFailed(w) \/ \E l \in {"add_save", "add_undo", "del_stop", "del_remove"} : TgGoto(w, l)
    BY <1>9 DEF AddSubscribe, AddSave, AddUndo, DelKey, DelStop
  <2>3. QED BY <1>3, <1>4, <2>1, <2>2
<1>10. ASSUME NEW w \in TgWorkers, DelRemove(w) PROVE ListTypes' /\ DownAfter'
  <2>1. tgrestarts' = tgrestarts /\ (TgDone(w) \/ TgFailed(w)) /\ tgev[w] \in Events
    BY <1>0, <1>10 DEF DelRemove, InHand
  <2>2. CASE TgDone(w)
    <3>1. /\ tgpc' = [tgpc EXCEPT ![w] = IF tglist[w][tgev[w]].there THEN "clear" ELSE "idle"]
          /\ tglist' = [tglist EXCEPT ![w] = [tglist[w] EXCEPT ![tgev[w]] = Gone]]
      BY <1>0, <2>2 DEF TgDone
    <3>2. [tglist[w] EXCEPT ![tgev[w]] = Gone] \in [Events -> TgRec]
      BY <1>0, <2>1
    <3>3. QED BY <1>1, <2>1, <3>1, <3>2
  <2>3. QED BY <1>3, <2>1, <2>2
<1>11. ASSUME NEW w \in TgWorkers, FnRemove(w) \/ FnAdd(w) PROVE ListTypes' /\ DownAfter'
  <2>1. tgrestarts' = tgrestarts /\ (TgFailed(w) \/ (tglist' = tglist /\ tgpc' = tgpc))
    BY <1>11 DEF FnRemove, FnAdd, reqVars
  <2>2. QED BY <1>2, <1>3, <2>1
<1>12. ASSUME NEW c \in TgCallers, UrlLookup(c) \/ UrlMemd(c) \/ UrlStore(c) PROVE ListTypes' /\ DownAfter'
  <2>1. tglist' = tglist /\ tgpc' = tgpc /\ tgrestarts' = tgrestarts
    BY <1>12 DEF UrlLookup, UrlMemd, UrlStore, reqVars
  <2>2. QED BY <1>2, <2>1
<1>13. ASSUME GateDies \/ GateStart PROVE ListTypes' /\ DownAfter'
  <2>1. tglist' = [w \in TgWorkers |-> NoneListed]
    BY <1>13 DEF GateDies, GateStart, MemoryLost
  <2>2. tgrestarts' \in Nat /\ tgrestarts' > 0
    BY <1>0, <1>13 DEF GateDies, GateStart, DownAfter
  <2>3. QED BY <1>0, <2>1, <2>2 DEF ListTypes, DownAfter
<1>14. QED BY <1>5, <1>6, <1>7, <1>8, <1>9, <1>10, <1>11, <1>12, <1>13 DEF TgNext, TgStep

\* Every step keeps the invariant.
LEMMA TgStepKeeps ==
  ASSUME TgInv, TgNext
  PROVE  TgInv'
<1>0. ListTypes' /\ DownAfter'
  BY TgListTypes
<1>1. ASSUME NEW w \in TgWorkers, NEW e \in Events, NEW k \in Kinds, AddInsert(w, e, k) PROVE TgInv'
  BY <1>0, <1>1, TgInsertKeeps, TgWorkKeepsListed DEF TgInv
<1>2. ASSUME NEW w \in TgWorkers, NEW e \in Events, DelFind(w, e) \/ ClearNext(w, e) PROVE TgInv'
  BY <1>0, <1>2, TgFindKeeps, TgClearNextKeeps, TgWorkKeepsListed DEF TgInv
<1>3. ASSUME NEW w \in TgWorkers, AddStart(w) PROVE TgInv'
  <2>1. TgCore'
    BY <1>3, TgUrlStartKeeps, TgCronStartKeeps, TgListenStartKeeps DEF AddStart
  <2>2. QED BY <1>0, <1>3, <2>1, TgWorkKeepsListed DEF TgInv
<1>4. ASSUME NEW w \in TgWorkers, AddSubscribe(w) \/ AddSave(w) \/ AddUndo(w) PROVE TgInv'
  BY <1>0, <1>4, TgAddSubscribeKeeps, TgAddSaveKeeps, TgAddUndoKeeps, TgWorkKeepsListed DEF TgInv
<1>5. ASSUME NEW w \in TgWorkers, DelKey(w) \/ DelStop(w) \/ DelRemove(w) PROVE TgInv'
  BY <1>0, <1>5, TgDelKeyKeeps, TgDelStopKeeps, TgDelRemoveKeeps, TgWorkKeepsListed DEF TgInv
<1>6. ASSUME NEW w \in TgWorkers, FnRemove(w) \/ FnAdd(w) PROVE TgInv'
  BY <1>0, <1>6, TgFnRemoveKeeps, TgFnAddKeeps, TgWorkKeepsListed DEF TgInv
<1>7. ASSUME NEW w \in TgWorkers, ClearAll(w) PROVE TgInv'
  BY <1>0, <1>7, TgClearAllKeeps, TgClearAllListed DEF TgInv
<1>8. ASSUME NEW c \in TgCallers, UrlLookup(c) \/ UrlMemd(c) \/ UrlStore(c) PROVE TgInv'
  <2>1. TgCore'
    BY <1>8, TgLookupKeeps, TgMemdKeeps, TgStoreKeeps
  <2>2. UNCHANGED <<kind, rec, tgpc, tgev, tglist, torn>> /\ Listed
    BY <1>8 DEF UrlLookup, UrlMemd, UrlStore, recVars, reqVars, TgInv
  <2>3. Listed'
    BY <2>2 DEF Listed
  <2>4. QED BY <1>0, <2>1, <2>3 DEF TgInv
<1>9. ASSUME GateDies \/ GateStart PROVE TgInv'
  <2>1. TgCore'
    BY <1>9, TgDiesKeeps, TgStartKeeps
  <2>2. tglist' = [w \in TgWorkers |-> NoneListed]
    BY <1>9 DEF GateDies, GateStart, MemoryLost
  <2>3. Listed'
    BY <2>2, TgKnown DEF Listed, NoneListed
  <2>4. QED BY <1>0, <2>1, <2>3 DEF TgInv
<1>10. QED BY <1>1, <1>2, <1>3, <1>4, <1>5, <1>6, <1>7, <1>8, <1>9 DEF TgNext, TgStep

\* The inductive invariant holds, whatever requests, calls, failures and restarts do.
THEOREM TgInvHolds == TgSpec => []TgInv
<1>1. TgInit => TgInv
  BY TgInitInv
<1>2. TgInv /\ [TgNext]_tgVars => TgInv'
  BY TgStepKeeps, TgStutter
<1>3. QED BY <1>1, <1>2, PTL DEF TgSpec

\* The types of the triggers' state.
THEOREM TriggerTypes == TgSpec => []TgTypeOK
<1>1. TgInv => TgTypeOK
  BY DEF TgInv, TgCore, TgTypes, TgTypeOK, ListTypes, TgRec
<1>2. QED BY <1>1, TgInvHolds, PTL

\* A kept trigger is counted.
LEMMA InUseIsHeard == ASSUME TgInv PROVE S3TriggersHeard
<1>1. SUFFICES ASSUME Clean, NEW e \in Events, Heard(e) PROVE listeners > 0 /\ notify > 0
  BY DEF S3TriggersHeard, Clean
<1>2. e \in Listening /\ e \in Subscribing
  BY <1>1 DEF Heard, Listening, Subscribing, InUse
<1>3. /\ IsFiniteSet(Listening) /\ Cardinality(Listening) \in Nat
      /\ IsFiniteSet(Subscribing) /\ Cardinality(Subscribing) \in Nat
  BY InUseFinite DEF Listening, Subscribing
<1>4. Cardinality(Listening) # 0 /\ Cardinality(Subscribing) # 0
  BY <1>2, <1>3, FS_EmptySet
<1>5. listeners = Cardinality(Listening) /\ notify = Cardinality(Subscribing)
  BY <1>1 DEF TgInv, TgCore, HeardOf
<1>6. QED BY <1>3, <1>4, <1>5

\* What event.go keeps in three places agrees (event.go:230-233, cron.go, s3.go): a
\* cached URL has its trigger, cron's jobs are known to the records of their triggers,
\* and S3 triggers have their listener and subscription, but for the races named there.
THEOREM TriggersAreSound == TgSpec => []TriggersSound
<1>1. TgInv => StaleUrlOnlyLate
  BY DEF TgInv, TgCore, UrlKept, StaleUrlOnlyLate
<1>2. TgInv => JobsTracked
  BY DEF TgInv, TgCore
<1>3. TgInv => TriggersSound
  BY <1>1, <1>2, InUseIsHeard DEF TriggersSound
<1>4. QED BY <1>3, TgInvHolds, PTL
=============================================================================
