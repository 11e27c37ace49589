-------------------------- MODULE S3ObjectsProofs --------------------------
(***************************************************************************)
(* The accounting of a bucket and of its namespace, and the collection of  *)
(* old versions, for every number of goroutines, objects, failures and     *)
(* restarts.                                                               *)
(*                                                                         *)
(* Accounting: a charge is held by an object that can be read, or by the   *)
(* goroutine that is about to make one readable or to take a charge back.  *)
(* The goroutines fall into classes by what they hold, and each counter is *)
(* the readable objects and the sizes of some of these classes, up to one  *)
(* for each failure and one for each goroutine a restart cut off.          *)
(***************************************************************************)
EXTENDS S3Objects, FiniteSetTheorems, TLAPS

\* the goroutines at one of these labels
At(S) == {w \in Workers : pc[w] \in S}

\* Charges the bucket does not know of: one that was checked against the limit,
\* and ones that are about to be taken back.
Admitted  == {"put_bucket"}
Returning == {"put_over", "put_unstats", "drop_stats"}
\* Charges both know of: for an object about to be readable, and for one that is
\* to go.
Adding  == {"put_part", "put_activate"}
Undoing == {"put_unpart", "put_unacct", "drop_parts", "drop_bucket"}
Charging == Admitted \cup Returning \cup Adding \cup Undoing

\* the goroutines that store an object, and the ones among them that gave up
Putting == {"put_stats", "put_over", "put_bucket", "put_unstats", "put_part", "put_activate",
            "put_commit", "put_unpart", "put_unacct", "put_remove"}
GivenUp == {"put_unpart", "put_unacct", "put_unstats", "put_remove"}

\* the goroutines that drop an object nobody can read any more
Dropping == {"drop_parts", "drop_bucket", "drop_stats", "drop_remove"}

nLive == Cardinality(Live)
\* the readable objects nobody is about to remove after a failed commit
Sure  == Live \ {wobj[w] : w \in At(GivenUp)}
nSure == Cardinality(Sure)
nAt(S) == Cardinality(At(S))

\* what failures and restarts may leave charged
Slack == faults + restarts * Cardinality(Workers)

\* nothing runs and nothing is left to run
Quiet == gcq = {} /\ At(Labels \ {"idle"}) = {}

\* Each object is stored by one goroutine (createObjectPre gives it a fresh id), and
\* is not readable before that goroutine activates it.
PutsOwn ==
    /\ \A w \in At(Putting \cup {"del_find"}) : wkey[w] \in Keys
    /\ \A w, v \in At(Putting) : wobj[w] = wobj[v] => w = v
    /\ \A w \in At(Putting) : ostate[wobj[w]] # "fresh"
    /\ \A w \in At({"put_stats", "put_over"} \cup Admitted \cup Adding) : ostate[wobj[w]] = "None"

\* The namespace's counter misses no charge, but for one per failure.
NsCovers ==
    nLive + nAt(Admitted) + nAt(Returning) + nAt(Adding)
          + (IF bstate = "Active" THEN nAt(Undoing) ELSE 0) <= ns + faults

\* Nor does the bucket's; a bucket that is not Active any more can be charged by
\* nobody, and counted no object when it ended.
BucketCovers ==
    nLive + nAt(Adding) + (IF bstate = "Active" THEN nAt(Undoing) ELSE 0) <= cnt + faults
BucketEnded ==
    bstate # "Active" => cnt = 0 \/ (cnt = nLive /\ nLive <= faults /\ Quiet)

\* Whoever passed the check of the limit fits into it (acctObj).
LimitCovers == Limit # 0 => nLive + nAt(Admitted) + nAt(Adding) <= Limit + faults

\* The counters count no more than the charges, up to the slack.  The second line
\* is why a charge of the namespace that is kept because the bucket is gone
\* (unacctObj) is one the slack has room for.
NsBounded ==
    /\ ns <= nSure + nAt(Admitted) + nAt(Returning) + nAt(Adding) + nAt(Undoing) + Slack
    /\ ns <= cnt + nAt(Admitted) + nAt(Returning) + Slack
BucketBounded ==
    bstate = "Active" => cnt <= nSure + nAt(Adding) + nAt(Undoing) + Slack

CountInv ==
    /\ TypeOK /\ PutsOwn
    /\ NsCovers /\ BucketCovers /\ BucketEnded /\ LimitCovers /\ NsBounded /\ BucketBounded

-----------------------------------------------------------------------------
(* What holds while nothing failed and the daemon was not restarted.       *)

Calm == faults = 0 /\ restarts = 0

\* The references of a bucket are the puts it was charged for and not yet committed.
Referring == {"put_part", "put_activate", "put_commit", "put_unpart", "put_unacct"}
RefCounts == bstate = "Active" => ref = nAt(Referring)

\* A bucket ends when nothing is being stored or dropped.
EndedEmpty == bstate # "Active" => At(Adding \cup {"drop_parts", "drop_bucket"}) = {}

\* An object that is given up was not readable or was dropped, since a commit fails
\* only for a bucket that ended, which has no objects; what is dropped stays so.
StatesFit ==
    /\ \A w \in At(GivenUp) : ostate[wobj[w]] # "Active"
    /\ \A w \in At(Dropping) : ostate[wobj[w]] \in {"Inactive", "gone"}
    /\ \A g \in gcq : ostate[g[1]] # "fresh"

\* The data of an object is there while it is readable, and just before and after;
\* a copy that found no data has none.
DataKept ==
    /\ odata \cap hollow = {}
    /\ Live \subseteq odata \cup hollow
    /\ \A w \in At({"put_activate"}) : wobj[w] \in odata \cup hollow
    /\ \A o \in odata :
          \/ ostate[o] = "Active"
          \/ \E w \in At({"put_activate", "put_unpart", "drop_parts"}) : wobj[w] = o
    /\ \A o \in Oids : ostate[o] = "fresh" => o \notin odata \cup hollow
    /\ \A w \in At({"put_stats", "put_bucket", "put_part"}) : wobj[w] \notin odata \cup hollow

\* An object that is neither new, readable nor gone is somebody's.
NoneLeft ==
    /\ \A o \in Oids : ostate[o] = "None" =>
          \E w \in At(Putting \ {"put_commit"}) : wobj[w] = o
    /\ \A o \in Oids : ostate[o] = "Inactive" =>
          \E w \in At(Dropping) : wobj[w] = o
    /\ \A w \in At({"put_commit"}) : ostate[wobj[w]] # "None"

\* The rovers of readable objects, and those given to puts, are different
\* (bucketAcct moves the bucket's on under the update).
RoversApart ==
    /\ \A o \in Live : orover[o] <= rover
    /\ \A w \in At(Adding) : wrov[w] <= rover
    /\ \A o, p \in Live : orover[o] = orover[p] => o = p
    /\ \A w, v \in At(Adding) : wrov[w] = wrov[v] => w = v
    /\ \A w \in At(Adding), o \in Live : wrov[w] # orover[o]

\* Of two readable objects of a name the older one is going to be dropped: one of
\* the two is still to be committed, or a collection that will find it is started
\* or at work.
Doomed(o) ==
    \/ \E g \in gcq : okey[g[1]] = okey[o] /\ orover[o] < g[2]
    \/ \E w \in At(Dropping \cup {"drop_deact"}) :
          (pc[w] = "drop_deact" /\ wobj[w] = o) \/ o \in wset[w]
OlderDoomed ==
    \A o, p \in Live : okey[o] = okey[p] /\ orover[o] < orover[p] =>
        Doomed(o) \/ \E w \in At({"put_commit"}) : wobj[w] \in {o, p}

CalmInv ==
    Calm => /\ RefCounts /\ EndedEmpty /\ StatesFit /\ DataKept /\ NoneLeft
            /\ RoversApart /\ OlderDoomed
-----------------------------------------------------------------------------
(* Counting.                                                               *)

\* The sizes of a set and of one that holds all of it, all but one of it, or one
\* thing more.
LEMMA Sizes ==
    ASSUME NEW S, NEW T, IsFiniteSet(S), IsFiniteSet(T)
    PROVE  /\ Cardinality(S) \in Nat
           /\ S \subseteq T => Cardinality(S) <= Cardinality(T)
           /\ \A x : S \ {x} \subseteq T => Cardinality(S) <= Cardinality(T) + 1
           /\ \A x : x \notin S /\ S \cup {x} \subseteq T => Cardinality(S) + 1 <= Cardinality(T)
<1>1. Cardinality(S) \in Nat /\ Cardinality(T) \in Nat
  BY FS_CardinalityType
<1>2. \A U \in SUBSET T : Cardinality(U) <= Cardinality(T)
  BY FS_Subset
<1>3. ASSUME NEW x PROVE /\ Cardinality(S \ {x}) \in {Cardinality(S) - 1, Cardinality(S)}
                         /\ x \notin S => Cardinality(S \cup {x}) = Cardinality(S) + 1
  <2>1. Cardinality(S \ {x}) = IF x \in S THEN Cardinality(S) - 1 ELSE Cardinality(S)
    BY FS_RemoveElement
  <2>2. Cardinality(S \cup {x}) = IF x \in S THEN Cardinality(S) ELSE Cardinality(S) + 1
    BY FS_AddElement
  <2> QED
    BY <2>1, <2>2
<1>4. ASSUME NEW x, S \ {x} \subseteq T PROVE Cardinality(S) <= Cardinality(T) + 1
  <2>1. Cardinality(S \ {x}) <= Cardinality(T)
    BY <1>2, <1>4
  <2>2. Cardinality(S \ {x}) \in {Cardinality(S) - 1, Cardinality(S)}
    BY <1>3
  <2> QED
    BY <1>1, <2>1, <2>2
<1>5. ASSUME NEW x, x \notin S, S \cup {x} \subseteq T PROVE Cardinality(S) + 1 <= Cardinality(T)
  <2>1. Cardinality(S \cup {x}) <= Cardinality(T)
    BY <1>2, <1>5
  <2> QED
    BY <1>3, <1>5, <2>1
<1> QED
  BY <1>1, <1>2, <1>4, <1>5

\* The sets that are counted are finite.
LEMMA Finite ==
    /\ \A S : IsFiniteSet(At(S))
    /\ IsFiniteSet(Live) /\ IsFiniteSet(Sure) /\ Sure \subseteq Live
<1>1. IsFiniteSet(Workers) /\ IsFiniteSet(Oids)
  BY ObjectsAssumption
<1>2. Live \subseteq Oids /\ Sure \subseteq Oids /\ Sure \subseteq Live
  BY DEF Live, Sure
<1>3. ASSUME NEW S PROVE IsFiniteSet(At(S))
  <2>1. At(S) \subseteq Workers
    BY DEF At
  <2> QED
    BY <1>1, <2>1, FS_Subset
<1> QED
  BY <1>1, <1>2, <1>3, FS_Subset

\* ... and so they are after a step.
LEMMA FiniteNext ==
    IsFiniteSet(Live') /\ IsFiniteSet(Sure') /\ Sure' \subseteq Live'
<1>1. Live' \subseteq Oids /\ Sure' \subseteq Oids /\ Sure' \subseteq Live'
  BY DEF Live, Sure
<1> QED
  BY <1>1, ObjectsAssumption, FS_Subset

\* The sizes are numbers.
LEMMA Naturals ==
    /\ nLive \in Nat /\ nSure \in Nat /\ nSure <= nLive
    /\ \A S : nAt(S) \in Nat /\ (At(S) # {} => nAt(S) >= 1)
    /\ \A S : nAt(S) <= Cardinality(Workers)
<1>1. nLive \in Nat /\ nSure \in Nat /\ nSure <= nLive
  BY Finite, Sizes DEF nLive, nSure
<1>2. ASSUME NEW S PROVE nAt(S) \in Nat /\ (At(S) # {} => nAt(S) >= 1)
  <2>1. IsFiniteSet(At(S))
    BY Finite
  <2>2. Cardinality(At(S)) \in Nat /\ (Cardinality(At(S)) = 0 <=> At(S) = {})
    BY <2>1, FS_EmptySet, FS_CardinalityType
  <2> QED
    BY <2>2 DEF nAt
<1>3. ASSUME NEW S PROVE nAt(S) <= Cardinality(Workers)
  <2>1. At(S) \subseteq Workers /\ IsFiniteSet(Workers)
    BY ObjectsAssumption DEF At
  <2> QED
    BY <2>1, FS_Subset DEF nAt
<1> QED
  BY <1>1, <1>2, <1>3

\* whether a goroutine at label l is counted
Is(l, S) == IF l \in S THEN 1 ELSE 0

\* One goroutine moves: a class loses it, gains it or neither.
LEMMA Moves ==
    ASSUME NEW w \in Workers, NEW l, NEW S,
           pc \in [Workers -> Labels], pc' = [pc EXCEPT ![w] = l]
    PROVE  nAt(S)' = nAt(S) + Is(l, S) - Is(pc[w], S)
<1>1. IsFiniteSet(At(S)) /\ Cardinality(At(S)) \in Nat
  BY Finite, FS_CardinalityType
<1>2. At(S)' = IF l \in S THEN At(S) \cup {w} ELSE At(S) \ {w}
  BY DEF At
<1>3. w \in At(S) <=> pc[w] \in S
  BY DEF At
<1>4. CASE l \in S
  <2>1. Cardinality(At(S) \cup {w}) = 
           IF w \in At(S) THEN Cardinality(At(S)) ELSE Cardinality(At(S)) + 1
    BY <1>1, FS_AddElement
  <2> QED
    BY <1>1, <1>2, <1>3, <1>4, <2>1 DEF nAt, Is
<1>5. CASE l \notin S
  <2>1. Cardinality(At(S) \ {w}) = 
           IF w \in At(S) THEN Cardinality(At(S)) - 1 ELSE Cardinality(At(S))
    BY <1>1, FS_RemoveElement
  <2> QED
    BY <1>1, <1>2, <1>3, <1>5, <2>1 DEF nAt, Is
<1> QED
  BY <1>4, <1>5

\* ... for the classes the counters are made of.
LEMMA ClassMoves ==
    ASSUME NEW w \in Workers, NEW l, pc \in [Workers -> Labels], pc' = [pc EXCEPT ![w] = l]
    PROVE  /\ nAt(Admitted)' = nAt(Admitted) + Is(l, Admitted) - Is(pc[w], Admitted)
           /\ nAt(Returning)' = nAt(Returning) + Is(l, Returning) - Is(pc[w], Returning)
           /\ nAt(Adding)' = nAt(Adding) + Is(l, Adding) - Is(pc[w], Adding)
           /\ nAt(Undoing)' = nAt(Undoing) + Is(l, Undoing) - Is(pc[w], Undoing)
<1>1. nAt(Admitted)' = nAt(Admitted) + Is(l, Admitted) - Is(pc[w], Admitted)
  BY Moves DEF Admitted
<1>2. nAt(Returning)' = nAt(Returning) + Is(l, Returning) - Is(pc[w], Returning)
  BY Moves DEF Returning
<1>3. nAt(Adding)' = nAt(Adding) + Is(l, Adding) - Is(pc[w], Adding)
  BY Moves DEF Adding
<1>4. nAt(Undoing)' = nAt(Undoing) + Is(l, Undoing) - Is(pc[w], Undoing)
  BY Moves DEF Undoing
<1> QED
  BY <1>1, <1>2, <1>3, <1>4

\* The readable objects, when none, one more or one less can be read.
LEMMA LiveMoves ==
    /\ Live' \subseteq Live => nLive' <= nLive
    /\ Live \subseteq Live' => nLive <= nLive'
    /\ \A o : o \notin Live /\ Live' = Live \cup {o} => nLive' = nLive + 1
    /\ \A o \in Live : Live' = Live \ {o} => nLive' = nLive - 1
<1>1. IsFiniteSet(Live) /\ IsFiniteSet(Live')
  BY Finite, FiniteNext
<1> QED
  BY <1>1, Sizes, FS_AddElement, FS_RemoveElement DEF nLive

\* ... and the sure ones.
LEMMA SureMoves ==
    /\ Sure \subseteq Sure' => nSure <= nSure'
    /\ \A o : Sure \ {o} \subseteq Sure' => nSure <= nSure' + 1
    /\ \A o : o \notin Sure /\ Sure \cup {o} \subseteq Sure' => nSure + 1 <= nSure'
  BY Finite, FiniteNext, Sizes DEF nSure

\* The slack grows with the failures; the restarts are in it as one number.
LEMMA SlackMoves ==
    ASSUME TypeOK, restarts' = restarts
    PROVE  /\ Slack \in Nat /\ faults <= Slack
           /\ DbOk => faults' = faults /\ Slack' = Slack
           /\ DbFault => faults' = faults + 1 /\ Slack' = Slack + 1
<1>1. faults \in Nat /\ restarts \in Nat /\ Cardinality(Workers) \in Nat
  BY ObjectsAssumption, FS_CardinalityType DEF TypeOK
<1>2. restarts * Cardinality(Workers) \in Nat
  BY <1>1
<1> QED
  BY <1>1, <1>2 DEF Slack, DbOk, DbFault
-----------------------------------------------------------------------------
(* Types.                                                                  *)

\* A step that finishes a request, or goes on with the next old version.
LEMMA DoneTypes ==
    ASSUME TypeOK, NEW w \in Workers, Finish(w) \/ DropDone(w)
    PROVE  /\ wkey' \in [Workers -> Keys \cup {Nil}] /\ wobj' \in [Workers -> Oids \cup {Nil}]
           /\ wrov' \in [Workers -> Nat] /\ wset' \in [Workers -> SUBSET Oids]
           /\ \E l \in {"idle", "drop_deact"} : /\ pc' = [pc EXCEPT ![w] = l]
                                                /\ l = "drop_deact" => wobj'[w] \in Oids
           /\ \A v \in Workers : v # w => wobj'[v] = wobj[v]
<1>1. CASE Finish(w)
  BY <1>1 DEF Finish, TypeOK
<1>2. CASE wset[w] # {} /\ DropDone(w)
  <2>1. PICK o \in Newest(wset[w]) : /\ wobj' = [wobj EXCEPT ![w] = o]
                                     /\ wset' = [wset EXCEPT ![w] = @ \ {o}]
    BY <1>2 DEF DropDone
  <2>2. o \in Oids
    BY DEF TypeOK, Newest
  <2> QED
    BY <1>2, <2>1, <2>2 DEF DropDone, TypeOK
<1> QED
  BY <1>1, <1>2 DEF DropDone

\* The bucket's counters keep their type, and so does the copy of its rover.
LEMMA AcctTypes ==
    ASSUME TypeOK, NEW w \in Workers, NEW dcnt \in Int, NEW dref \in Int, NEW drover \in {0, 1},
           BucketAcct(w, dcnt, dref, drover)
    PROVE  /\ bstate' \in BStates /\ cnt' \in Int /\ ref' \in Int /\ rover' \in Nat
           /\ wrov' \in [Workers -> Nat] /\ UNCHANGED <<wkey, wobj, wset>>
  BY DEF BucketAcct, TypeOK

\* TypeOK is kept.
LEMMA TypesKept ==
    ASSUME TypeOK, PutsOwn, Next
    PROVE  TypeOK'
<1> USE DEF TypeOK, bktVars, objVars, locVars, histVars, Goto, DbOk, DbFault
<1>1. ASSUME NEW w \in Workers, NEW k \in Keys, PutBegin(w, k) \/ CopyBegin(w, k) PROVE TypeOK'
  <2>1. PICK src \in SUBSET Oids : PutInsert(w, k, src)
    BY <1>1 DEF PutBegin, CopyBegin, Current, LiveOf, Live
  <2> QED
    BY <2>1 DEF PutInsert, Labels, OStates
<1>2. ASSUME NEW w \in Workers, NEW k \in Keys, DelRequest(w, k) PROVE TypeOK'
  BY <1>2, ObjectsAssumption DEF DelRequest, Labels
<1>3. ASSUME NEW w \in Workers, DelBucket(w) PROVE TypeOK'
  BY <1>3 DEF DelBucket, Labels, BStates
<1>4. ASSUME NEW w \in Workers, PutStats(w) PROVE TypeOK'
  BY <1>4, ObjectsAssumption DEF PutStats, StatsAcct, Labels
<1>5. ASSUME NEW w \in Workers, PutUnstats(w) PROVE TypeOK'
  BY <1>5, ObjectsAssumption DEF PutUnstats, StatsAcct, Labels
<1>6. ASSUME NEW w \in Workers, PutBucket(w) PROVE TypeOK'
  <2>1. CASE BucketAcct(w, 1, 1, 1) /\ DbOk /\ pc' = [pc EXCEPT ![w] = "put_part"]
    BY <1>6, <2>1, AcctTypes DEF PutBucket, BucketAcctFails, Labels
  <2>2. CASE BucketAcctFails /\ Goto(w, "put_unstats")
    BY <1>6, <2>2, ObjectsAssumption DEF PutBucket, BucketAcctFails, Labels
  <2> QED
    BY <1>6, <2>1, <2>2 DEF PutBucket
<1>7. ASSUME NEW w \in Workers, PutPart(w) PROVE TypeOK'
  BY <1>7, ObjectsAssumption DEF PutPart, Labels
<1>8. ASSUME NEW w \in Workers, PutActivate(w) PROVE TypeOK'
  BY <1>8, ObjectsAssumption DEF PutActivate, Labels, OStates
<1>9. ASSUME NEW w \in Workers, PutCommit(w) PROVE TypeOK'
  <2>1. CASE Committed(w, rover) /\ ref' = ref - 1 /\ DbOk /\ UNCHANGED <<bstate, cnt, rover>>
    <3>1. gcq' \subseteq Oids \X Nat /\ wkey[w] \in Keys
      BY <1>9, <2>1 DEF Committed, PutCommit, PutsOwn, At, Putting
    <3>2. CASE Finish(w) /\ puts' = puts \cup {wkey[w]} /\ UNCHANGED <<dels, deletes>>
      BY <1>9, <2>1, <3>1, <3>2, DoneTypes DEF Committed, PutCommit, Labels
    <3>3. CASE /\ deletes < MaxDeletes /\ deletes' = deletes + 1 /\ dels' = dels \cup {wkey[w]}
               /\ pc' = [pc EXCEPT ![w] = "del_find"] /\ UNCHANGED <<locVars, puts>>
      BY <1>9, <2>1, <3>1, <3>3, ObjectsAssumption DEF Committed, PutCommit, Labels
    <3> QED
      BY <2>1, <3>2, <3>3 DEF Committed
  <2>2. CASE CommitFails(w)
    BY <1>9, <2>2, ObjectsAssumption DEF PutCommit, CommitFails, BucketAcctFails, Labels
  <2> QED
    BY <1>9, <2>1, <2>2 DEF PutCommit
<1>10. ASSUME NEW w \in Workers, PutUnpart(w) PROVE TypeOK'
  BY <1>10, ObjectsAssumption DEF PutUnpart, Labels
<1>11. ASSUME NEW w \in Workers, PutUnacct(w) PROVE TypeOK'
  <2>1. CASE BucketAcct(w, -1, -1, 0) /\ DbOk /\ pc' = [pc EXCEPT ![w] = "put_unstats"]
    BY <1>11, <2>1, AcctTypes DEF PutUnacct, Unacct, Labels
  <2>2. CASE BucketAcctFails /\ Goto(w, "put_remove")
    BY <1>11, <2>2, ObjectsAssumption DEF PutUnacct, Unacct, BucketAcctFails, Labels
  <2> QED
    BY <1>11, <2>1, <2>2 DEF PutUnacct, Unacct
<1>12. ASSUME NEW w \in Workers, PutRemove(w) PROVE TypeOK'
  BY <1>12, DoneTypes, ObjectsAssumption DEF PutRemove, Labels, OStates
<1>13. ASSUME NEW w \in Workers, DelFind(w) PROVE TypeOK'
  <2>1. CASE Finish(w)
    BY <1>13, <2>1, DoneTypes, ObjectsAssumption DEF DelFind, Labels
  <2>2. CASE ~Finish(w)
    <3>1. PICK o \in Current(wkey[w]) : wobj' = [wobj EXCEPT ![w] = o]
      BY <1>13, <2>2 DEF DelFind
    <3>2. o \in Oids
      BY DEF Current, LiveOf, Live
    <3> QED
      BY <1>13, <2>2, <3>1, <3>2, ObjectsAssumption DEF DelFind, Labels
  <2> QED
    BY <2>1, <2>2
<1>14. ASSUME NEW w \in Workers, GcStart(w) PROVE TypeOK'
  <2>1. PICK g \in gcq : gcq' = gcq \ {g} /\
           LET old == {o \in LiveOf(okey[g[1]]) : orover[o] < g[2]}
           IN  \/ /\ \E o \in Newest(old) : /\ wobj' = [wobj EXCEPT ![w] = o]
                                            /\ wset' = [wset EXCEPT ![w] = old \ {o}]
                  /\ pc' = [pc EXCEPT ![w] = "drop_deact"]
                  /\ UNCHANGED <<wkey, wrov>> /\ DbOk
               \/ UNCHANGED <<pc, locVars>> /\ (DbOk \/ DbFault)
    BY <1>14 DEF GcStart
  <2>2. {o \in LiveOf(okey[g[1]]) : orover[o] < g[2]} \subseteq Oids
    BY DEF LiveOf, Live
  <2>3. CASE UNCHANGED <<pc, locVars>> /\ (DbOk \/ DbFault)
    BY <1>14, <2>1, <2>3, ObjectsAssumption DEF GcStart
  <2>4. CASE /\ pc' = [pc EXCEPT ![w] = "drop_deact"] /\ UNCHANGED <<wkey, wrov>> /\ DbOk
             /\ \E o \in Oids, s \in SUBSET Oids : /\ wobj' = [wobj EXCEPT ![w] = o]
                                                   /\ wset' = [wset EXCEPT ![w] = s]
    BY <1>14, <2>1, <2>4 DEF GcStart, Labels
  <2> QED
    BY <2>1, <2>2, <2>3, <2>4 DEF Newest
<1>15. ASSUME NEW w \in Workers, DropDeact(w) PROVE TypeOK'
  <2>1. CASE DropDone(w)
    BY <1>15, <2>1, DoneTypes, ObjectsAssumption DEF DropDeact, Labels
  <2>2. CASE ~DropDone(w)
    BY <1>15, <2>2 DEF DropDeact, Labels, OStates
  <2> QED
    BY <2>1, <2>2
<1>16. ASSUME NEW w \in Workers, DropParts(w) PROVE TypeOK'
  <2>1. CASE DropDone(w)
    BY <1>16, <2>1, DoneTypes, ObjectsAssumption DEF DropParts, Labels
  <2>2. CASE ~DropDone(w)
    BY <1>16, <2>2 DEF DropParts, Labels
  <2> QED
    BY <2>1, <2>2
<1>17. ASSUME NEW w \in Workers, DropBucket(w) PROVE TypeOK'
  <2>1. CASE BucketAcct(w, -1, 0, 0) /\ DbOk /\ pc' = [pc EXCEPT ![w] = "drop_stats"]
    BY <1>17, <2>1, AcctTypes DEF DropBucket, Unacct, Labels
  <2>2. CASE BucketAcctFails /\ DropDone(w)
    BY <1>17, <2>2, DoneTypes, ObjectsAssumption DEF DropBucket, Unacct, BucketAcctFails, Labels
  <2> QED
    BY <1>17, <2>1, <2>2 DEF DropBucket, Unacct
<1>18. ASSUME NEW w \in Workers, DropStats(w) PROVE TypeOK'
  <2>1. CASE DropDone(w)
    BY <1>18, <2>1, DoneTypes, ObjectsAssumption DEF DropStats, Labels
  <2>2. CASE ~DropDone(w)
    BY <1>18, <2>2 DEF DropStats, StatsAcct, Labels
  <2> QED
    BY <2>1, <2>2
<1>19. ASSUME NEW w \in Workers, DropRemove(w) PROVE TypeOK'
  <2>1. ostate' \in [Oids -> OStates] /\ faults' \in 0..MaxFaults
    BY <1>19, ObjectsAssumption DEF DropRemove, OStates
  <2> QED
    BY <1>19, <2>1, DoneTypes DEF DropRemove, Labels
<1>20. ASSUME NEW w \in Workers, BucketRemove(w) PROVE TypeOK'
  <2>1. bstate' \in BStates /\ faults' \in 0..MaxFaults
    BY <1>20, ObjectsAssumption DEF BucketRemove, BStates
  <2> QED
    BY <1>20, <2>1, DoneTypes DEF BucketRemove, Labels
<1>21. CASE Restart
  <2>1. Cardinality(Live) \in Int
    BY Naturals DEF nLive
  <2>2. restarts' \in 0..MaxRestarts
    BY <1>21, ObjectsAssumption DEF Restart
  <2> QED
    BY <1>21, <2>1, <2>2 DEF Restart, Labels, OStates, BStates
<1> QED
  BY <1>1, <1>2, <1>3, <1>4, <1>5, <1>6, <1>7, <1>8, <1>9, <1>10, <1>11, <1>12, <1>13, <1>14,
     <1>15, <1>16, <1>17, <1>18, <1>19, <1>20, <1>21, SMTT(30) DEF Next, Request, Step

-----------------------------------------------------------------------------
(* Who owns what.                                                          *)

Early == {"put_stats", "put_over"} \cup Admitted \cup Adding

\* the others stay where they are
Alone(w) ==
    \A v \in Workers : v # w =>
        pc'[v] = pc[v] /\ wobj'[v] = wobj[v] /\ wkey'[v] = wkey[v] /\ wrov'[v] = wrov[v]
                       /\ wset'[v] = wset[v]

\* A step of a goroutine moves this goroutine only.
LEMMA OneMoves ==
    ASSUME TypeOK, NEW w \in Workers, Request(w) \/ Step(w) \/ GcStart(w)
    PROVE  Alone(w) /\ pc' = [pc EXCEPT ![w] = pc'[w]]
<1>1. pc = [pc EXCEPT ![w] = pc[w]] /\ w \in DOMAIN pc
  BY DEF TypeOK
<1>2. Finish(w) => Alone(w) /\ pc' = [pc EXCEPT ![w] = "idle"]
  BY DEF Finish, Alone, TypeOK
<1>3. DropDone(w) => Alone(w) /\ \E l : pc' = [pc EXCEPT ![w] = l]
  BY <1>2 DEF DropDone, Alone, TypeOK
<1>4. ASSUME NEW l, Goto(w, l) PROVE Alone(w) /\ pc' = [pc EXCEPT ![w] = l]
  BY <1>4 DEF Goto, locVars, Alone, TypeOK
<1>5. ASSUME NEW dcnt, NEW dref, NEW drover, BucketAcct(w, dcnt, dref, drover), NEW l,
             pc' = [pc EXCEPT ![w] = l]
      PROVE  Alone(w)
  BY <1>5 DEF BucketAcct, Alone, TypeOK
<1>6. CASE Request(w)
  <2>1. ASSUME NEW k, NEW src, PutInsert(w, k, src)
        PROVE  Alone(w) /\ pc' = [pc EXCEPT ![w] = "put_stats"]
    BY <2>1 DEF PutInsert, Alone, TypeOK
  <2>2. ASSUME NEW k, DelRequest(w, k) PROVE Alone(w) /\ pc' = [pc EXCEPT ![w] = "del_find"]
    BY <2>2 DEF DelRequest, Alone, TypeOK
  <2> QED
    BY <1>4, <1>6, <2>1, <2>2 DEF Request, PutBegin, CopyBegin, DelBucket
<1>7. CASE GcStart(w)
  BY <1>1, <1>7 DEF GcStart, Alone, TypeOK, locVars
<1>8. CASE PutStats(w) \/ PutUnstats(w) \/ PutPart(w) \/ PutActivate(w) \/ PutUnpart(w)
  BY <1>4, <1>8 DEF PutStats, PutUnstats, PutPart, PutActivate, PutUnpart
<1>9. CASE PutBucket(w) \/ PutUnacct(w) \/ DropBucket(w)
  BY <1>3, <1>4, <1>5, <1>9 DEF PutBucket, PutUnacct, DropBucket, Unacct
<1>10. CASE PutCommit(w)
  <2>1. ASSUME NEW r, Committed(w, r) PROVE Alone(w) /\ \E l : pc' = [pc EXCEPT ![w] = l]
    BY <1>2, <2>1 DEF Committed, Alone, TypeOK
  <2> QED
    BY <1>4, <1>10, <2>1 DEF PutCommit, CommitFails
<1>11. CASE PutRemove(w) \/ BucketRemove(w)
  BY <1>2, <1>11 DEF PutRemove, BucketRemove
<1>12. CASE DelFind(w)
  BY <1>2, <1>12 DEF DelFind, Alone, TypeOK
<1>13. CASE DropDeact(w) \/ DropParts(w) \/ DropStats(w) \/ DropRemove(w)
  BY <1>3, <1>4, <1>13 DEF DropDeact, DropParts, DropStats, DropRemove
<1>14. Alone(w) /\ \E l : pc' = [pc EXCEPT ![w] = l]
  BY <1>6, <1>7, <1>8, <1>9, <1>10, <1>11, <1>12, <1>13 DEF Step
<1> QED
  BY <1>14 DEF TypeOK

\* What a step must leave alone to keep PutsOwn.
LEMMA PutsKept ==
    ASSUME TypeOK, TypeOK', PutsOwn, NEW w \in Workers, Alone(w),
           pc'[w] \in Putting =>
              /\ pc[w] \in Putting /\ wobj'[w] = wobj[w] /\ wkey'[w] = wkey[w]
              /\ pc'[w] \in Early => pc[w] \in Early,
           pc'[w] = "del_find" => wkey'[w] \in Keys,
           \A o \in Oids : \/ ostate'[o] = ostate[o]
                           \/ ostate[o] \in {"Active", "Inactive"} /\ ostate'[o] # "fresh"
                           \/ /\ pc[w] \in Putting /\ o = wobj[w]
                              /\ ostate'[o] # "fresh" /\ pc'[w] \notin Early
    PROVE  PutsOwn'
<1>1. Early \subseteq Putting /\ "del_find" \notin Putting /\ PutsOwn'
      <=> /\ Early \subseteq Putting /\ "del_find" \notin Putting
          /\ \A v \in At(Putting \cup {"del_find"})' : wkey'[v] \in Keys
          /\ \A u, v \in At(Putting)' : wobj'[u] = wobj'[v] => u = v
          /\ \A v \in At(Putting)' : ostate'[wobj'[v]] # "fresh"
          /\ \A v \in At(Early)' : ostate'[wobj'[v]] = "None"
  BY DEF PutsOwn, Early
<1>2. Early \subseteq Putting /\ "del_find" \notin Putting
  BY DEF Early, Putting, Admitted, Adding
<1>3. \A v \in At(Putting)' : v \in At(Putting) /\ wobj'[v] = wobj[v] /\ wkey'[v] = wkey[v]
  BY DEF At, Alone
<1>4. \A v \in At(Early)' : v \in At(Early) /\ v \in At(Putting) /\ wobj'[v] = wobj[v]
  BY <1>2 DEF At, Alone
<1>5. \A v \in At(Putting) : wobj[v] \in Oids
  BY DEF TypeOK, At, Putting
<1>6. \A v \in At(Putting \cup {"del_find"})' : wkey'[v] \in Keys
  BY <1>3 DEF At, Alone, PutsOwn
<1>7. \A u, v \in At(Putting)' : wobj'[u] = wobj'[v] => u = v
  BY <1>3 DEF PutsOwn
<1>8. ASSUME NEW v \in At(Putting)' PROVE ostate'[wobj'[v]] # "fresh"
  BY <1>3, <1>5 DEF PutsOwn
<1>9. ASSUME NEW v \in At(Early)' PROVE ostate'[wobj'[v]] = "None"
  <2>1. v \in At(Putting) /\ wobj'[v] = wobj[v] /\ wobj[v] \in Oids /\ ostate[wobj[v]] = "None"
    BY <1>4, <1>5 DEF PutsOwn, Early
  <2>2. ~(pc[w] \in Putting /\ wobj[v] = wobj[w] /\ pc'[w] \notin Early)
    BY <1>9, <2>1 DEF PutsOwn, At
  <2> QED
    BY <2>1, <2>2
<1> QED
  BY <1>1, <1>2, <1>6, <1>7, <1>8, <1>9

\* PutsOwn is kept.
LEMMA PutsStep ==
    ASSUME TypeOK, TypeOK', PutsOwn, Next
    PROVE  PutsOwn'
<1>1. ASSUME NEW w \in Workers, NEW k \in Keys, PutBegin(w, k) \/ CopyBegin(w, k) PROVE PutsOwn'
  <2>1. PICK src : PutInsert(w, k, src)
    BY <1>1 DEF PutBegin, CopyBegin
  <2>2. PICK o \in Oids : /\ ostate[o] = "fresh" /\ ostate' = [ostate EXCEPT ![o] = "None"]
                          /\ wobj' = [wobj EXCEPT ![w] = o]
    BY <2>1 DEF PutInsert
  <2>3. /\ pc' = [pc EXCEPT ![w] = "put_stats"] /\ wkey' = [wkey EXCEPT ![w] = k]
        /\ pc[w] = "idle"
    BY <2>1 DEF PutInsert
  <2>4. \A v \in At(Putting) : v # w /\ wobj[v] \in Oids /\ wobj[v] # o
    BY <2>2, <2>3 DEF TypeOK, At, Putting, PutsOwn
  <2>5. /\ \A v \in Workers : v # w => pc'[v] = pc[v] /\ wobj'[v] = wobj[v] /\ wkey'[v] = wkey[v]
        /\ pc'[w] = "put_stats" /\ wobj'[w] = o /\ wkey'[w] = k
        /\ ostate'[o] = "None" /\ \A x \in Oids : x # o => ostate'[x] = ostate[x]
    BY <2>2, <2>3 DEF TypeOK
  <2>6. \A S : \A v \in At(S)' : v = w \/ (v \in At(S) /\ wobj'[v] = wobj[v] /\ wkey'[v] = wkey[v])
    BY <2>5 DEF At
  <2>7. \A v \in At(Early) : v \in At(Putting) /\ ostate[wobj[v]] = "None"
    BY DEF At, Early, Putting, Admitted, Adding, PutsOwn
  <2>8. \A v \in At(Putting \cup {"del_find"})' : wkey'[v] \in Keys
    BY <2>5, <2>6 DEF PutsOwn
  <2>9. \A u, v \in At(Putting)' : wobj'[u] = wobj'[v] => u = v
    BY <2>4, <2>5, <2>6 DEF PutsOwn
  <2>10. \A v \in At(Putting)' : ostate'[wobj'[v]] # "fresh"
    BY <2>4, <2>5, <2>6 DEF PutsOwn
  <2>11. \A v \in At(Early)' : ostate'[wobj'[v]] = "None"
    BY <2>4, <2>5, <2>6, <2>7
  <2> QED
    BY <2>8, <2>9, <2>10, <2>11 DEF PutsOwn, Early
<1>2. ASSUME NEW w \in Workers, NEW k \in Keys, DelRequest(w, k) PROVE PutsOwn'
  <2>1. pc'[w] = "del_find" /\ wkey'[w] = k /\ ostate' = ostate
    BY <1>2 DEF DelRequest, objVars, TypeOK
  <2>2. Alone(w)
    BY <1>2, OneMoves DEF Request
  <2> QED
    BY <2>1, <2>2, PutsKept DEF Putting
<1>3. ASSUME NEW w \in Workers, DelBucket(w) \/ GcStart(w) PROVE PutsOwn'
  <2>1. Alone(w)
    BY <1>3, OneMoves DEF Request
  <2>2. pc'[w] \in {"bucket_remove", "drop_deact", "idle"} /\ ostate' = ostate
    BY <1>3 DEF DelBucket, GcStart, Goto, objVars, TypeOK
  <2> QED
    BY <2>1, <2>2, PutsKept DEF Putting
<1>4. ASSUME NEW w \in Workers, Step(w) PROVE PutsOwn'
  <2>1. Alone(w)
    BY <1>4, OneMoves
  <2>2. CASE \/ PutStats(w) \/ PutUnstats(w) \/ PutPart(w) \/ PutUnpart(w)
             \/ PutBucket(w) \/ PutUnacct(w)
    <3>1. UNCHANGED <<ostate, wobj, wkey>>
      BY <2>2 DEF PutStats, PutUnstats, PutPart, PutUnpart, PutBucket, PutUnacct, Unacct, Goto,
         BucketAcct, objVars, locVars
    <3>2. pc[w] \in Putting /\ pc'[w] # "del_find" /\ (pc'[w] \in Early => pc[w] \in Early)
      BY <2>2 DEF PutStats, PutUnstats, PutPart, PutUnpart, PutBucket, PutUnacct, Unacct, Goto,
         Putting, Early, Admitted, Adding, TypeOK
    <3> QED
      BY <2>1, <3>1, <3>2, PutsKept
  <2>3. CASE PutActivate(w)
    <3>1. UNCHANGED <<wobj, wkey>> /\ pc[w] \in Putting /\ pc'[w] \in {"put_commit", "put_unpart"}
      BY <2>3 DEF PutActivate, Goto, locVars, Putting, TypeOK
    <3>2. \A o \in Oids : ostate'[o] = ostate[o] \/ (o = wobj[w] /\ ostate'[o] # "fresh")
      BY <2>3 DEF PutActivate, TypeOK
    <3> QED
      BY <2>1, <3>1, <3>2, PutsKept DEF Putting, Early, Admitted, Adding
  <2>4. CASE PutCommit(w)
    <3>1. ostate' = ostate /\ pc[w] = "put_commit" /\ pc[w] \in Putting /\ wkey[w] \in Keys
      BY <2>4 DEF PutCommit, objVars, Putting, PutsOwn, At
    <3>2. \/ pc'[w] = "idle"
          \/ pc'[w] = "del_find" /\ wkey' = wkey
          \/ pc'[w] = "put_unpart" /\ wkey' = wkey /\ wobj' = wobj
      BY <2>4 DEF PutCommit, Committed, CommitFails, Finish, Goto, locVars, TypeOK
    <3> QED
      BY <2>1, <3>1, <3>2, PutsKept DEF Putting, Early, Admitted, Adding
  <2>5. CASE PutRemove(w)
    <3>1. pc[w] \in Putting /\ pc'[w] = "idle"
      BY <2>5 DEF PutRemove, Finish, Putting, TypeOK
    <3>2. \A o \in Oids : ostate'[o] = ostate[o] \/ (o = wobj[w] /\ ostate'[o] # "fresh")
      BY <2>5 DEF PutRemove, TypeOK
    <3> QED
      BY <2>1, <3>1, <3>2, PutsKept DEF Putting, Early, Admitted, Adding
  <2>6. CASE \/ DelFind(w) \/ BucketRemove(w) \/ DropParts(w) \/ DropBucket(w) \/ DropStats(w)
    <3>1. ostate' = ostate
      BY <2>6 DEF DelFind, BucketRemove, DropParts, DropBucket, Unacct, DropStats, objVars
    <3>2. pc'[w] \in {"idle", "drop_deact", "drop_bucket", "drop_stats", "drop_remove"}
      BY <2>6 DEF DelFind, BucketRemove, DropParts, DropBucket, Unacct, DropStats, Goto, DropDone,
         Finish, TypeOK
    <3> QED
      BY <2>1, <3>1, <3>2, PutsKept DEF Putting
  <2>7. CASE DropDeact(w) \/ DropRemove(w)
    <3>1. \A o \in Oids : \/ ostate'[o] = ostate[o]
                          \/ ostate[o] \in {"Active", "Inactive"} /\ ostate'[o] # "fresh"
      BY <2>7 DEF DropDeact, DropRemove, TypeOK
    <3>2. pc'[w] \in {"idle", "drop_deact", "drop_parts"}
      BY <2>7 DEF DropDeact, DropRemove, Goto, DropDone, Finish, TypeOK
    <3> QED
      BY <2>1, <3>1, <3>2, PutsKept DEF Putting
  <2> QED
    BY <1>4, <2>2, <2>3, <2>4, <2>5, <2>6, <2>7 DEF Step
<1>5. CASE Restart
  <2>1. \A w \in Workers : pc'[w] = "idle"
    BY <1>5 DEF Restart
  <2> QED
    BY <2>1 DEF PutsOwn, At, Putting, Admitted, Adding
<1> QED
  BY <1>1, <1>2, <1>3, <1>4, <1>5 DEF Next, Request

-----------------------------------------------------------------------------
(* The counters.                                                           *)

Counts == NsCovers /\ BucketCovers /\ LimitCovers /\ NsBounded /\ BucketBounded

\* What is counted, before and after a step.
LEMMA ClassNumbers ==
    /\ nAt(Admitted) \in Nat /\ nAt(Returning) \in Nat
    /\ nAt(Adding) \in Nat /\ nAt(Undoing) \in Nat
    /\ nLive \in Nat /\ nSure \in Nat /\ nSure <= nLive
    /\ nLive' \in Nat /\ nSure' \in Nat /\ nSure' <= nLive'
<1>1. nLive' \in Nat /\ nSure' \in Nat /\ nSure' <= nLive'
  BY FiniteNext, Sizes DEF nLive, nSure
<1> QED
  BY <1>1, Naturals

\* A bucket that ended while somebody still works counts nothing.
LEMMA EndedBusy ==
    ASSUME CountInv, bstate # "Active", NEW w \in Workers, pc[w] # "idle"
    PROVE  cnt = 0
<1>1. pc[w] \in Labels
  BY DEF CountInv, TypeOK
<1> QED
  BY <1>1 DEF CountInv, BucketEnded, Quiet, At

\* A step that leaves an object readable and does not give it up leaves it sure.
LEMMA SureMinus ==
    ASSUME NEW w \in Workers, Alone(w), NEW X,
           pc'[w] \in GivenUp => \/ wobj'[w] \in X \/ wobj'[w] \notin Live
                                 \/ pc[w] \in GivenUp /\ wobj'[w] = wobj[w],
           \A o \in Sure \ X : ostate'[o] = "Active"
    PROVE  Sure \ X \subseteq Sure'
<1> SUFFICES ASSUME NEW o \in Sure \ X PROVE o \in Sure'
  OBVIOUS
<1>1. o \in Live /\ o \in Live'
  BY DEF Sure, Live
<1>2. ASSUME NEW v \in At(GivenUp)' PROVE wobj'[v] # o
  <2>1. CASE v = w
    BY <1>1, <1>2, <2>1 DEF Sure, At
  <2>2. CASE v # w
    BY <1>2, <2>2 DEF Sure, At, Alone
  <2> QED
    BY <2>1, <2>2
<1> QED
  BY <1>1, <1>2 DEF Sure

\* two labels of one class, or of none
SameClass(l, k) ==
    /\ l \in Admitted <=> k \in Admitted
    /\ l \in Returning <=> k \in Returning
    /\ l \in Adding <=> k \in Adding
    /\ l \in Undoing <=> k \in Undoing

\* A step that moves nobody into another class keeps the counts, when it makes no
\* further object readable and no object unsure.
LEMMA CountsCalm ==
    ASSUME CountInv, TypeOK', ns' = ns, cnt' = cnt, restarts' = restarts, DbOk \/ DbFault,
           bstate' = bstate \/ bstate' # "Active",
           NEW w \in Workers, pc' = [pc EXCEPT ![w] = pc'[w]],
           SameClass(pc'[w], pc[w]), Live' \subseteq Live, Sure \subseteq Sure'
    PROVE  Counts'
<1>1. /\ pc \in [Workers -> Labels] /\ ns \in Int /\ cnt \in Int
      /\ faults \in Nat /\ faults' \in Nat /\ faults <= faults' /\ Limit \in Nat
      /\ nLive' <= nLive /\ nSure <= nSure'
  BY ObjectsAssumption, LiveMoves, SureMoves DEF CountInv, TypeOK, DbOk, DbFault
<1>2. /\ nAt(Admitted)' = nAt(Admitted) /\ nAt(Returning)' = nAt(Returning)
      /\ nAt(Adding)' = nAt(Adding) /\ nAt(Undoing)' = nAt(Undoing)
  <2>1. /\ pc'[w] \in Admitted <=> pc[w] \in Admitted
        /\ pc'[w] \in Returning <=> pc[w] \in Returning
        /\ pc'[w] \in Adding <=> pc[w] \in Adding
        /\ pc'[w] \in Undoing <=> pc[w] \in Undoing
    BY DEF SameClass
  <2>2. /\ nAt(Admitted)' = nAt(Admitted) + Is(pc'[w], Admitted) - Is(pc[w], Admitted)
        /\ nAt(Returning)' = nAt(Returning) + Is(pc'[w], Returning) - Is(pc[w], Returning)
        /\ nAt(Adding)' = nAt(Adding) + Is(pc'[w], Adding) - Is(pc[w], Adding)
        /\ nAt(Undoing)' = nAt(Undoing) + Is(pc'[w], Undoing) - Is(pc[w], Undoing)
    BY <1>1, ClassMoves
  <2> QED
    BY <2>1, <2>2, ClassNumbers DEF Is
<1>3. Slack \in Nat /\ (Slack' = Slack \/ Slack' = Slack + 1)
  BY SlackMoves DEF CountInv
<1>4. Counts
  BY DEF Counts, CountInv
<1>5. NsCovers' /\ BucketCovers' /\ LimitCovers'
  BY <1>1, <1>2, <1>4, ClassNumbers DEF Counts, NsCovers, BucketCovers, LimitCovers
<1>6. NsBounded' /\ BucketBounded'
  BY <1>1, <1>2, <1>3, <1>4, ClassNumbers DEF Counts, NsBounded, BucketBounded
<1> QED
  BY <1>5, <1>6 DEF Counts

\* What the classes gain.
Shift(a, r, d, u) ==
    /\ nAt(Admitted)' = nAt(Admitted) + a /\ nAt(Returning)' = nAt(Returning) + r
    /\ nAt(Adding)' = nAt(Adding) + d /\ nAt(Undoing)' = nAt(Undoing) + u

\* The moves between classes there are.
LEMMA Shifts ==
    ASSUME NEW w \in Workers, pc \in [Workers -> Labels], pc' = [pc EXCEPT ![w] = pc'[w]]
    PROVE  /\ pc[w] \notin Charging /\ pc'[w] \in Admitted => Shift(1, 0, 0, 0)
           /\ pc[w] \notin Charging /\ pc'[w] \in Returning => Shift(0, 1, 0, 0)
           /\ pc[w] \notin Charging /\ pc'[w] \in Undoing => Shift(0, 0, 0, 1)
           /\ pc[w] \in Returning /\ pc'[w] \notin Charging => Shift(0, -1, 0, 0)
           /\ pc[w] \in Admitted /\ pc'[w] \in Adding => Shift(-1, 0, 1, 0)
           /\ pc[w] \in Admitted /\ pc'[w] \in Returning => Shift(-1, 1, 0, 0)
           /\ pc[w] \in Adding /\ pc'[w] \in Undoing => Shift(0, 0, -1, 1)
           /\ pc[w] \in Adding /\ pc'[w] \notin Charging => Shift(0, 0, -1, 0)
           /\ pc[w] \in Undoing /\ pc'[w] \in Returning => Shift(0, 1, 0, -1)
           /\ pc[w] \in Undoing /\ pc'[w] \notin Charging => Shift(0, 0, 0, -1)
<1>1. \A k : /\ k \in Admitted => k \notin Returning /\ k \notin Adding /\ k \notin Undoing
             /\ k \in Returning => k \notin Adding /\ k \notin Undoing
             /\ k \in Adding => k \notin Undoing
             /\ k \notin Charging =>
                   k \notin Admitted /\ k \notin Returning /\ k \notin Adding /\ k \notin Undoing
  BY DEF Admitted, Returning, Adding, Undoing, Charging
<1>2. \A k, S : (k \in S => Is(k, S) = 1) /\ (k \notin S => Is(k, S) = 0)
  BY DEF Is
<1> DEFINE a == Is(pc'[w], Admitted) - Is(pc[w], Admitted)
           r == Is(pc'[w], Returning) - Is(pc[w], Returning)
           d == Is(pc'[w], Adding) - Is(pc[w], Adding)
           u == Is(pc'[w], Undoing) - Is(pc[w], Undoing)
<1>3. Shift(a, r, d, u)
  <2>1. \A k, S : Is(k, S) \in Int
    BY DEF Is
  <2> QED
    BY <2>1, ClassMoves, ClassNumbers DEF Shift
<1> QED
  BY <1>1, <1>2, <1>3

\* which label is in which class
LEMMA Classes ==
    /\ "put_bucket" \in Admitted
    /\ "put_over" \in Returning /\ "put_unstats" \in Returning /\ "drop_stats" \in Returning
    /\ "put_part" \in Adding /\ "put_activate" \in Adding
    /\ "put_unpart" \in Undoing /\ "put_unacct" \in Undoing
    /\ "drop_parts" \in Undoing /\ "drop_bucket" \in Undoing
    /\ \A l \in {"idle", "put_stats", "put_commit", "put_remove", "del_find", "drop_deact",
                 "drop_remove", "bucket_remove"} : l \notin Charging
  BY DEF Charging, Admitted, Returning, Adding, Undoing

\* A fault is one failure more.
LEMMA FaultNumbers ==
    ASSUME TypeOK
    PROVE  /\ DbFault => faults' = faults + 1
           /\ DbOk => faults' = faults
           /\ BucketAcctFails => /\ UNCHANGED <<bstate, cnt, ref, rover>>
                                 /\ faults' = faults + 1 \/ (faults' = faults /\ bstate # "Active")
  BY DEF DbFault, DbOk, BucketAcctFails, bktVars, TypeOK

\* The steps of a put that move the charges.
LEMMA CountsPut ==
    ASSUME CountInv, TypeOK', NEW w \in Workers,
           \/ PutStats(w) \/ PutUnstats(w) \/ PutBucket(w) \/ PutPart(w) \/ PutActivate(w)
           \/ PutCommit(w) \/ PutUnpart(w) \/ PutUnacct(w) \/ PutRemove(w)
    PROVE  Counts'
<1>facts. /\ TypeOK /\ PutsOwn /\ Alone(w) /\ pc' = [pc EXCEPT ![w] = pc'[w]]
          /\ restarts' = restarts /\ pc \in [Workers -> Labels]
  BY OneMoves DEF CountInv, Step, TypeOK, PutStats, PutUnstats, PutBucket, PutPart, PutActivate,
     PutCommit, PutUnpart, PutUnacct, Unacct, PutRemove
<1>numbers. /\ ns \in Int /\ cnt \in Int /\ faults \in Nat /\ faults' \in Nat /\ Limit \in Nat
      /\ \/ faults' = faults /\ Slack' = Slack
         \/ faults' = faults + 1 /\ Slack' = Slack + 1
      /\ Slack \in Nat /\ Counts
  <2>1. DbOk \/ DbFault
    BY DEF PutStats, PutUnstats, PutBucket, PutPart, PutActivate, BucketAcctFails, CommitFails,
       PutCommit, PutUnpart, PutUnacct, Unacct, PutRemove
  <2> QED
    BY <2>1, <1>facts, SlackMoves, ObjectsAssumption DEF TypeOK, CountInv, Counts
<1> USE <1>facts
<1>1. ASSUME UNCHANGED ostate
      PROVE  nLive' = nLive /\ Live' = Live /\ \A o \in Sure : ostate'[o] = "Active"
  BY <1>1 DEF nLive, Live, Sure
<1>2. CASE PutStats(w)
  <2>1. /\ pc[w] = "put_stats" /\ UNCHANGED <<ostate, wobj, cnt, bstate>>
        /\ ostate[wobj[w]] = "None"
    BY <1>2 DEF PutStats, Goto, objVars, bktVars, locVars, PutsOwn, At
  <2>2. nLive' = nLive /\ (pc'[w] \notin GivenUp \/ wobj'[w] \notin Live)
    BY <1>1, <2>1 DEF Live
  <2>sure. Sure \subseteq Sure'
    BY <1>1, <2>1, <2>2, SureMinus
  <2>3. nSure <= nSure'
    BY <2>sure, SureMoves
  <2>4. CASE DbFault /\ pc' = [pc EXCEPT ![w] = "put_remove"] /\ ns' = ns
    <3>1. SameClass(pc'[w], pc[w])
      BY <2>1, <2>4 DEF SameClass, Admitted, Returning, Adding, Undoing
    <3> QED
      BY <1>1, <2>1, <2>sure, <2>4, <3>1, CountsCalm, Zenon
  <2>5. CASE DbOk /\ ns' = ns + 1 /\ OverLimit(ns + 1) /\ pc' = [pc EXCEPT ![w] = "put_over"]
    <3>1. Shift(0, 1, 0, 0)
      BY <2>1, <2>5, Shifts, Classes
    <3> QED
      BY <2>1, <2>2, <2>3, <2>5, <3>1, <1>numbers, ClassNumbers DEF DbOk, Shift, Counts, NsCovers,
         BucketCovers, LimitCovers, NsBounded, BucketBounded
  <2>6. CASE DbOk /\ ns' = ns + 1 /\ ~OverLimit(ns + 1) /\ pc' = [pc EXCEPT ![w] = "put_bucket"]
    <3>1. Shift(1, 0, 0, 0)
      BY <2>1, <2>6, Shifts, Classes
    <3> QED
      BY <2>1, <2>2, <2>3, <2>6, <3>1, <1>numbers, ClassNumbers DEF DbOk, Shift, Counts, NsCovers,
         BucketCovers, LimitCovers, NsBounded, BucketBounded, OverLimit
  <2> QED
    BY <1>2, <2>4, <2>5, <2>6 DEF PutStats, Goto, StatsAcct
<1>3. CASE PutUnstats(w)
  <2>1. /\ pc[w] \in Returning /\ UNCHANGED <<ostate, wobj, cnt, bstate>>
        /\ pc' = [pc EXCEPT ![w] = "put_remove"] /\ pc'[w] = "put_remove"
        /\ ostate[wobj[w]] # "Active" \/ pc[w] \in GivenUp
        /\ (ns' = ns - 1 /\ faults' = faults) \/ (ns' = ns /\ faults' = faults + 1)
    BY <1>3, FaultNumbers DEF PutUnstats, StatsAcct, Goto, objVars, bktVars, locVars, PutsOwn, At,
       Returning, GivenUp, TypeOK
  <2>2. nSure <= nSure'
    BY <1>1, <2>1, SureMinus, SureMoves DEF Live
  <2>3. Shift(0, -1, 0, 0)
    BY <2>1, Shifts, Classes
  <2> QED
    BY <1>1, <2>1, <2>2, <2>3, <1>numbers, ClassNumbers DEF Shift, Counts, NsCovers,
       BucketCovers, LimitCovers, NsBounded, BucketBounded
<1>4. CASE PutBucket(w)
  <2>1. pc[w] = "put_bucket" /\ UNCHANGED <<ostate, wobj, ns>> /\ ostate[wobj[w]] = "None"
    BY <1>4 DEF PutBucket, BucketAcct, Goto, objVars, locVars, PutsOwn, At, Admitted
  <2>2. nSure <= nSure'
    BY <1>1, <2>1, SureMinus, SureMoves DEF Live
  <2>3. CASE BucketAcct(w, 1, 1, 1) /\ DbOk /\ pc' = [pc EXCEPT ![w] = "put_part"]
    <3>1. Shift(-1, 0, 1, 0)
      BY <2>1, <2>3, Shifts, Classes
    <3>2. cnt' = cnt + 1 /\ bstate' = bstate /\ faults' = faults
      BY <2>3 DEF BucketAcct, DbOk
    <3> QED
      BY <1>1, <2>1, <2>2, <3>1, <3>2, <2>3, <1>numbers, ClassNumbers DEF Shift, Counts, NsCovers,
         BucketCovers, LimitCovers, NsBounded, BucketBounded
  <2>4. CASE BucketAcctFails /\ pc' = [pc EXCEPT ![w] = "put_unstats"]
    <3>1. Shift(-1, 1, 0, 0)
      BY <2>1, <2>4, Shifts, Classes
    <3>2. cnt' = cnt /\ bstate' = bstate /\ faults' \in {faults, faults + 1}
      BY <2>4, FaultNumbers
    <3> QED
      BY <1>1, <2>1, <2>2, <3>1, <3>2, <2>4, <1>numbers, ClassNumbers DEF Shift, Counts, NsCovers,
         BucketCovers, LimitCovers, NsBounded, BucketBounded
  <2> QED
    BY <1>4, <2>3, <2>4 DEF PutBucket, Goto
<1>5. CASE PutPart(w)
  <2>1. /\ pc[w] = "put_part" /\ UNCHANGED <<ostate, wobj, ns, cnt, bstate>>
        /\ ostate[wobj[w]] = "None"
    BY <1>5 DEF PutPart, Goto, bktVars, locVars, PutsOwn, At, Adding
  <2>sure. Sure \subseteq Sure' /\ (DbOk \/ DbFault)
    BY <1>1, <1>5, <2>1, SureMinus DEF Live, PutPart
  <2>2. nSure <= nSure'
    BY <2>sure, SureMoves
  <2>3. faults' \in {faults, faults + 1}
    BY <1>5, FaultNumbers DEF PutPart
  <2>4. CASE pc' = [pc EXCEPT ![w] = "put_activate"]
    <3>1. SameClass(pc'[w], pc[w])
      BY <2>1, <2>4 DEF SameClass, Admitted, Returning, Adding, Undoing
    <3> QED
      BY <1>1, <2>1, <2>sure, <3>1, CountsCalm, Zenon
  <2>5. CASE pc' = [pc EXCEPT ![w] = "put_unacct"]
    <3>1. Shift(0, 0, -1, 1)
      BY <2>1, <2>5, Shifts, Classes
    <3> QED
      BY <1>1, <2>1, <2>2, <2>3, <3>1, <2>5, <1>numbers, ClassNumbers DEF Shift, Counts, NsCovers,
         BucketCovers, LimitCovers, NsBounded, BucketBounded
  <2> QED
    BY <1>5, <2>4, <2>5 DEF PutPart, Goto
<1>6. CASE PutActivate(w)
  <2>1. /\ pc[w] = "put_activate" /\ UNCHANGED <<wobj, ns, cnt, bstate>>
        /\ ostate[wobj[w]] = "None" /\ wobj[w] \in Oids
    BY <1>6 DEF PutActivate, Goto, bktVars, locVars, PutsOwn, At, Adding, TypeOK
  <2>2. CASE DbFault /\ ostate' = ostate /\ pc' = [pc EXCEPT ![w] = "put_unpart"]
    <3>1. Shift(0, 0, -1, 1)
      BY <2>1, <2>2, Shifts, Classes
    <3>2. nSure <= nSure'
      BY <1>1, <2>1, <2>2, SureMinus, SureMoves DEF Live
    <3> QED
      BY <1>1, <2>1, <2>2, <3>1, <3>2, FaultNumbers, <1>numbers, ClassNumbers DEF Shift, Counts,
         NsCovers, BucketCovers, LimitCovers, NsBounded, BucketBounded
  <2>3. CASE /\ DbOk /\ ostate' = [ostate EXCEPT ![wobj[w]] = "Active"]
             /\ pc' = [pc EXCEPT ![w] = "put_commit"]
    <3>1. Shift(0, 0, -1, 0)
      BY <2>1, <2>3, Shifts, Classes
    <3>2. wobj[w] \notin Live /\ Live' = Live \cup {wobj[w]}
      BY <2>1, <2>3 DEF Live, TypeOK
    <3>3. wobj[w] \notin Sure /\ Sure \cup {wobj[w]} \subseteq Sure'
      <4>1. pc'[w] = "put_commit" /\ \A o \in Sure : ostate'[o] = "Active"
        BY <2>1, <2>3 DEF Sure, Live, TypeOK
      <4>2. Sure \ {} \subseteq Sure'
        BY <4>1, SureMinus DEF GivenUp
      <4>3. \A v \in At(GivenUp)' : v \in At(GivenUp) /\ v # w /\ wobj'[v] = wobj[v]
        BY <4>1 DEF At, GivenUp, Alone
      <4>4. \A v \in At(GivenUp) : v # w => wobj[v] # wobj[w]
        BY <2>1 DEF PutsOwn, At, Putting, GivenUp
      <4> QED
        BY <3>2, <4>2, <4>3, <4>4 DEF Sure
    <3>4. nLive' = nLive + 1 /\ nSure + 1 <= nSure'
      BY <3>2, <3>3, LiveMoves, SureMoves
    <3>5. faults' = faults
      BY <2>3 DEF DbOk
    <3> QED
      BY <2>1, <2>3, <3>1, <3>4, <3>5, <1>numbers, ClassNumbers DEF Shift, Counts,
         NsCovers, BucketCovers, LimitCovers, NsBounded, BucketBounded
  <2> QED
    BY <1>6, <2>2, <2>3 DEF PutActivate, Goto
<1>7. CASE PutCommit(w)
  <2>1. pc[w] = "put_commit" /\ UNCHANGED <<ostate, ns, cnt, bstate>>
    BY <1>7 DEF PutCommit, CommitFails, BucketAcctFails, objVars, bktVars
  <2>2. CASE DbOk /\ Committed(w, rover)
    <3>1. PICK l \in {"idle", "del_find"} : pc' = [pc EXCEPT ![w] = l]
      BY <2>2 DEF Committed, Finish
    <3>2. Sure \subseteq Sure'
      BY <1>1, <2>1, <3>1, SureMinus DEF GivenUp
    <3>3. SameClass(pc'[w], pc[w])
      BY <2>1, <3>1 DEF SameClass, Admitted, Returning, Adding, Undoing
    <3> QED
      BY <1>1, <2>1, <2>2, <3>2, <3>3, CountsCalm, Zenon
  <2>3. CASE CommitFails(w)
    <3>1. /\ pc' = [pc EXCEPT ![w] = "put_unpart"] /\ wobj' = wobj
          /\ faults' = faults + 1 \/ (faults' = faults /\ bstate # "Active")
      BY <2>3, FaultNumbers DEF CommitFails, Goto, locVars
    <3>2. Sure \ {wobj[w]} \subseteq Sure'
      <4>1. \A o \in Sure : ostate'[o] = "Active"
        BY <1>1, <2>1
      <4>2. wobj'[w] \in {wobj[w]}
        BY <3>1
      <4> QED
        BY <4>1, <4>2, SureMinus
    <3>3. nSure <= nSure' + 1
      BY <3>2, SureMoves
    <3>4. Shift(0, 0, 0, 1)
      BY <2>1, <3>1, Shifts, Classes
    <3>5. nLive' = nLive
      BY <1>1, <2>1
    <3>6. NsCovers' /\ BucketCovers' /\ LimitCovers'
      BY <2>1, <3>1, <3>4, <3>5, <1>numbers, ClassNumbers DEF Shift, Counts, NsCovers,
         BucketCovers, LimitCovers
    <3>7. NsBounded' /\ BucketBounded'
      <4>1. Slack <= Slack'
        BY <1>numbers
      <4>2. /\ nAt(Admitted)' = nAt(Admitted) /\ nAt(Returning)' = nAt(Returning)
            /\ nAt(Adding)' = nAt(Adding) /\ nAt(Undoing)' = nAt(Undoing) + 1
        BY <3>4, ClassNumbers DEF Shift
      <4>3. PICK n \in Nat : nSure' = n
        BY ClassNumbers
      <4> QED
        BY <2>1, <3>3, <4>1, <4>2, <4>3, <1>numbers, ClassNumbers DEF Counts, NsBounded,
           BucketBounded
    <3> QED
      BY <3>6, <3>7 DEF Counts
  <2> QED
    BY <1>7, <2>2, <2>3 DEF PutCommit
<1>8. CASE PutUnpart(w)
  <2>1. /\ pc[w] = "put_unpart" /\ UNCHANGED <<ostate, wobj, ns, cnt, bstate>>
        /\ pc' = [pc EXCEPT ![w] = "put_unacct"] /\ (DbOk \/ DbFault)
    BY <1>8 DEF PutUnpart, Goto, locVars, bktVars
  <2>2. Sure \subseteq Sure'
    BY <1>1, <2>1, SureMinus DEF GivenUp
  <2>3. SameClass(pc'[w], pc[w])
    BY <2>1 DEF SameClass, Admitted, Returning, Adding, Undoing
  <2> QED
    BY <1>1, <2>1, <2>2, <2>3, CountsCalm, Zenon
<1>9. CASE PutUnacct(w)
  <2>1. pc[w] = "put_unacct" /\ UNCHANGED <<ostate, wobj, ns>>
    BY <1>9 DEF PutUnacct, Unacct, BucketAcct, Goto, objVars, locVars
  <2>2. nSure <= nSure'
    BY <1>1, <2>1, SureMinus, SureMoves DEF GivenUp
  <2>3. CASE BucketAcct(w, -1, -1, 0) /\ DbOk /\ pc' = [pc EXCEPT ![w] = "put_unstats"]
    <3>1. Shift(0, 1, 0, -1)
      BY <2>1, <2>3, Shifts, Classes
    <3>2. cnt' = cnt - 1 /\ bstate = "Active" /\ bstate' = bstate /\ faults' = faults
      BY <2>3 DEF BucketAcct, DbOk
    <3> QED
      BY <1>1, <2>1, <2>2, <2>3, <3>1, <3>2, <1>numbers, ClassNumbers DEF Shift, Counts,
         NsCovers, BucketCovers, LimitCovers, NsBounded, BucketBounded
  <2>4. CASE BucketAcctFails /\ pc' = [pc EXCEPT ![w] = "put_remove"]
    <3>1. Shift(0, 0, 0, -1)
      BY <2>1, <2>4, Shifts, Classes
    <3>2. /\ cnt' = cnt /\ bstate' = bstate
          /\ faults' = faults + 1 \/ (faults' = faults /\ bstate # "Active" /\ cnt = 0)
      BY <2>1, <2>4, FaultNumbers, EndedBusy
    <3>3. nAt(Undoing) >= 1
      <4>1. w \in At(Undoing)
        BY <2>1 DEF At, Undoing
      <4> QED
        BY <4>1, Naturals
    <3> QED
      BY <1>1, <2>1, <2>2, <2>4, <3>1, <3>2, <3>3, <1>numbers, ClassNumbers DEF Shift, Counts,
         NsCovers, BucketCovers, LimitCovers, NsBounded, BucketBounded
  <2> QED
    BY <1>9, <2>3, <2>4 DEF PutUnacct, Unacct, Goto
<1>10. CASE PutRemove(w)
  <2>1. /\ pc[w] = "put_remove" /\ UNCHANGED <<ns, cnt, bstate>> /\ pc' = [pc EXCEPT ![w] = "idle"]
        /\ ostate' = ostate \/ ostate' = [ostate EXCEPT ![wobj[w]] = "gone"]
        /\ (DbOk \/ DbFault) /\ pc'[w] = "idle"
    BY <1>10 DEF PutRemove, Finish, bktVars
  <2>2. Live' \subseteq Live /\ \A o \in Sure : ostate'[o] = "Active"
    <3>1. \A o \in Sure : o # wobj[w] /\ o \in Oids /\ ostate[o] = "Active"
      BY <2>1 DEF Sure, Live, At, GivenUp
    <3> QED
      BY <2>1, <3>1 DEF Live, TypeOK
  <2>3. Sure \subseteq Sure'
    BY <2>1, <2>2, SureMinus DEF GivenUp
  <2>4. SameClass(pc'[w], pc[w])
    BY <2>1 DEF SameClass, Admitted, Returning, Adding, Undoing
  <2> QED
    BY <2>1, <2>2, <2>3, <2>4, CountsCalm, Zenon
<1> QED
  BY <1>2, <1>3, <1>4, <1>5, <1>6, <1>7, <1>8, <1>9, <1>10


\* The steps that drop an object.
LEMMA CountsDrop ==
    ASSUME CountInv, TypeOK', NEW w \in Workers,
           DropDeact(w) \/ DropParts(w) \/ DropBucket(w) \/ DropStats(w) \/ DropRemove(w)
    PROVE  Counts'
<1>facts. TypeOK /\ Alone(w) /\ pc' = [pc EXCEPT ![w] = pc'[w]] /\ restarts' = restarts
      /\ pc \in [Workers -> Labels] /\ (DbOk \/ DbFault)
  BY OneMoves DEF CountInv, Step, TypeOK, DropDeact, DropParts, DropBucket, Unacct, DropStats,
     DropRemove, BucketAcctFails
<1>numbers. /\ ns \in Int /\ cnt \in Int /\ faults \in Nat /\ faults' \in Nat /\ Limit \in Nat
      /\ \/ faults' = faults /\ Slack' = Slack
         \/ faults' = faults + 1 /\ Slack' = Slack + 1
      /\ Slack \in Nat /\ Counts
  BY <1>facts, SlackMoves, ObjectsAssumption DEF TypeOK, CountInv, Counts
<1>done. DropDone(w) => pc'[w] \in {"idle", "drop_deact"}
  BY <1>facts DEF DropDone, Finish
<1>kept. pc'[w] \notin GivenUp
  BY <1>facts, <1>done DEF DropDeact, DropParts, DropBucket, Unacct, DropStats, DropRemove,
     Goto, GivenUp
<1> USE <1>facts
<1>1. ASSUME UNCHANGED ostate PROVE Live' = Live /\ Sure \subseteq Sure'
  <2>1. \A o \in Sure : ostate'[o] = "Active"
    BY <1>1 DEF Sure, Live
  <2> QED
    BY <1>1, <1>kept, <2>1, SureMinus DEF Live
<1>2. ASSUME UNCHANGED ostate PROVE nLive' = nLive /\ nSure <= nSure'
  BY <1>1, <1>2, SureMoves DEF nLive
<1>3. CASE DropDeact(w)
  <2>1. pc[w] = "drop_deact" /\ UNCHANGED <<ns, cnt, bstate>> /\ wobj[w] \in Oids
    BY <1>3 DEF DropDeact, bktVars, TypeOK
  <2>2. CASE DropDone(w) /\ UNCHANGED ostate
    <3>1. SameClass(pc'[w], pc[w])
      BY <1>done, <2>1, <2>2 DEF SameClass, Admitted, Returning, Adding, Undoing
    <3> QED
      BY <1>1, <2>1, <2>2, <3>1, CountsCalm, Zenon
  <2>3. CASE /\ DbOk /\ pc' = [pc EXCEPT ![w] = "drop_parts"] /\ ostate[wobj[w]] = "Active"
             /\ ostate' = [ostate EXCEPT ![wobj[w]] = "Inactive"]
    <3>1. wobj[w] \in Live /\ Live' = Live \ {wobj[w]}
      BY <2>1, <2>3 DEF Live, TypeOK
    <3>2. Sure \ {wobj[w]} \subseteq Sure'
      <4>1. \A o \in Sure \ {wobj[w]} : ostate'[o] = "Active"
        BY <2>3 DEF Sure, Live, TypeOK
      <4> QED
        BY <1>kept, <4>1, SureMinus
    <3>3. nLive' = nLive - 1 /\ nSure <= nSure' + 1 /\ faults' = faults /\ Slack' = Slack
      BY <2>3, <3>1, <3>2, LiveMoves, SureMoves, SlackMoves
    <3>4. PICK n \in Nat : nSure' = n
      BY ClassNumbers
    <3>5. Shift(0, 0, 0, 1)
      BY <2>1, <2>3, Shifts, Classes
    <3> QED
      BY <2>1, <3>3, <3>4, <3>5, <1>numbers, ClassNumbers DEF Shift, Counts,
         NsCovers, BucketCovers, LimitCovers, NsBounded, BucketBounded
  <2> QED
    BY <1>3, <2>2, <2>3 DEF DropDeact, Goto
<1>4. CASE DropParts(w)
  <2>1. pc[w] = "drop_parts" /\ UNCHANGED <<ostate, ns, cnt, bstate>>
    BY <1>4 DEF DropParts, bktVars
  <2>2. CASE pc' = [pc EXCEPT ![w] = "drop_bucket"]
    <3>1. SameClass(pc'[w], pc[w])
      BY <2>1, <2>2 DEF SameClass, Admitted, Returning, Adding, Undoing
    <3> QED
      BY <1>1, <2>1, <3>1, CountsCalm, Zenon
  <2>3. CASE DropDone(w) /\ DbFault
    <3>1. Shift(0, 0, 0, -1) /\ faults' = faults + 1 /\ Slack' = Slack + 1
      BY <1>done, <2>1, <2>3, Shifts, Classes, SlackMoves
    <3> QED
      BY <1>2, <2>1, <3>1, <1>numbers, ClassNumbers DEF Shift, Counts,
         NsCovers, BucketCovers, LimitCovers, NsBounded, BucketBounded
  <2> QED
    BY <1>4, <2>2, <2>3 DEF DropParts, Goto
<1>5. CASE DropBucket(w)
  <2>1. pc[w] = "drop_bucket" /\ UNCHANGED <<ostate, ns>>
    BY <1>5 DEF DropBucket, Unacct, objVars
  <2>2. CASE BucketAcct(w, -1, 0, 0) /\ DbOk /\ pc' = [pc EXCEPT ![w] = "drop_stats"]
    <3>1. Shift(0, 1, 0, -1)
      BY <2>1, <2>2, Shifts, Classes
    <3>2. cnt' = cnt - 1 /\ bstate = "Active" /\ bstate' = bstate
      BY <2>2 DEF BucketAcct
    <3> QED
      BY <1>2, <2>1, <3>1, <3>2, <1>numbers, ClassNumbers DEF Shift, Counts,
         NsCovers, BucketCovers, LimitCovers, NsBounded, BucketBounded
  <2>3. CASE BucketAcctFails /\ DropDone(w)
    <3>1. Shift(0, 0, 0, -1)
      BY <1>done, <2>1, <2>3, Shifts, Classes
    <3>2. /\ cnt' = cnt /\ bstate' = bstate
          /\ faults' = faults + 1 \/ (faults' = faults /\ bstate # "Active" /\ cnt = 0)
      BY <2>1, <2>3, FaultNumbers, EndedBusy
    <3>3. nAt(Undoing) >= 1
      <4>1. w \in At(Undoing)
        BY <2>1 DEF At, Undoing
      <4> QED
        BY <4>1, Naturals
    <3> QED
      BY <1>2, <2>1, <3>1, <3>2, <3>3, <1>numbers, ClassNumbers DEF Shift, Counts,
         NsCovers, BucketCovers, LimitCovers, NsBounded, BucketBounded
  <2> QED
    BY <1>5, <2>2, <2>3 DEF DropBucket, Unacct
<1>6. CASE DropStats(w)
  <2>1. /\ pc[w] = "drop_stats" /\ UNCHANGED <<ostate, cnt, bstate>>
        /\ (ns' = ns - 1 /\ DbOk) \/ (ns' = ns /\ DbFault)
    BY <1>6 DEF DropStats, StatsAcct, objVars, bktVars
  <2>2. pc'[w] \notin Charging
    BY <1>6, <1>done, Classes DEF DropStats, Goto
  <2>3. Shift(0, -1, 0, 0)
    BY <2>1, <2>2, Shifts, Classes
  <2>4. \/ ns' = ns - 1 /\ faults' = faults /\ Slack' = Slack
        \/ ns' = ns /\ faults' = faults + 1 /\ Slack' = Slack + 1
    BY <2>1, SlackMoves
  <2> QED
    BY <1>2, <2>1, <2>3, <2>4, <1>numbers, ClassNumbers DEF Shift, Counts,
       NsCovers, BucketCovers, LimitCovers, NsBounded, BucketBounded
<1>7. CASE DropRemove(w)
  <2>1. pc[w] = "drop_remove" /\ UNCHANGED <<ns, cnt, bstate>> /\ DropDone(w)
    BY <1>7 DEF DropRemove, bktVars
  <2>2. \A o \in Oids : ostate'[o] = "Active" <=> ostate[o] = "Active"
    BY <1>7 DEF DropRemove, TypeOK
  <2>3. Live' \subseteq Live
    BY <2>2 DEF Live
  <2>4. Sure \subseteq Sure'
    <3>1. \A o \in Sure : ostate'[o] = "Active"
      BY <2>2 DEF Sure, Live
    <3> QED
      BY <1>kept, <3>1, SureMinus
  <2>5. SameClass(pc'[w], pc[w])
    BY <1>done, <2>1 DEF SameClass, Admitted, Returning, Adding, Undoing
  <2> QED
    BY <2>1, <2>3, <2>4, <2>5, CountsCalm, Zenon
<1> QED
  BY <1>3, <1>4, <1>5, <1>6, <1>7

\* The other steps of a goroutine charge nothing.
LEMMA CountsOther ==
    ASSUME CountInv, TypeOK', NEW w \in Workers,
           Request(w) \/ GcStart(w) \/ DelFind(w) \/ BucketRemove(w)
    PROVE  Counts'
<1>1. Alone(w) /\ pc' = [pc EXCEPT ![w] = pc'[w]]
  BY OneMoves DEF CountInv, Step
<1>2. ASSUME NEW k \in Keys, PutBegin(w, k) \/ CopyBegin(w, k)
      PROVE  /\ pc[w] = "idle" /\ pc'[w] = "put_stats"
             /\ UNCHANGED <<bstate, ns, cnt, faults, restarts>>
             /\ \A o \in Oids : ostate'[o] = "Active" <=> ostate[o] = "Active"
  <2>1. PICK src : PutInsert(w, k, src)
    BY <1>2 DEF PutBegin, CopyBegin
  <2> QED
    BY <2>1 DEF PutInsert, bktVars, CountInv, TypeOK
<1>3. ASSUME NEW k \in Keys, DelRequest(w, k)
      PROVE  /\ pc[w] = "idle" /\ pc'[w] = "del_find"
             /\ UNCHANGED <<bstate, ns, cnt, faults, restarts>>
             /\ ostate' = ostate
  BY <1>3 DEF DelRequest, objVars, bktVars, CountInv, TypeOK
<1>4. ASSUME DelBucket(w)
      PROVE  /\ pc[w] = "idle" /\ pc'[w] = "bucket_remove"
             /\ UNCHANGED <<ns, cnt, faults, restarts>>
             /\ bstate' = "Inactive" /\ ostate' = ostate
  BY <1>4 DEF DelBucket, Goto, objVars, CountInv, TypeOK
<1>5. ASSUME GcStart(w)
      PROVE  /\ pc[w] = "idle" /\ pc'[w] \in {"idle", "drop_deact"} /\ (DbOk \/ DbFault)
             /\ UNCHANGED <<bstate, ns, cnt, restarts>> /\ ostate' = ostate
  BY <1>5 DEF GcStart, objVars, bktVars, CountInv, TypeOK
<1>6. ASSUME DelFind(w)
      PROVE  /\ pc[w] = "del_find" /\ pc'[w] \in {"idle", "drop_deact"} /\ (DbOk \/ DbFault)
             /\ UNCHANGED <<bstate, ns, cnt, restarts>> /\ ostate' = ostate
  BY <1>6 DEF DelFind, Finish, objVars, bktVars, CountInv, TypeOK
<1>7. ASSUME BucketRemove(w)
      PROVE  /\ pc[w] = "bucket_remove" /\ pc'[w] = "idle" /\ (DbOk \/ DbFault)
             /\ UNCHANGED <<ns, cnt, restarts>> /\ ostate' = ostate
             /\ bstate' = bstate \/ bstate' = "gone"
  BY <1>7 DEF BucketRemove, Finish, objVars, CountInv, TypeOK
<1>8. /\ pc[w] \in {"idle", "del_find", "bucket_remove"}
      /\ pc'[w] \in {"idle", "put_stats", "del_find", "bucket_remove", "drop_deact"}
      /\ DbOk \/ DbFault
      /\ UNCHANGED <<ns, cnt, restarts>> /\ (bstate' = bstate \/ bstate' # "Active")
      /\ \A o \in Oids : ostate'[o] = "Active" <=> ostate[o] = "Active"
  BY <1>2, <1>3, <1>4, <1>5, <1>6, <1>7 DEF Request, DbOk
<1>9. SameClass(pc'[w], pc[w])
  BY <1>8 DEF SameClass, Admitted, Returning, Adding, Undoing
<1>10. Live' \subseteq Live
  BY <1>8 DEF Live
<1>11. Sure \subseteq Sure'
  <2>1. pc'[w] \notin GivenUp /\ \A o \in Sure : ostate'[o] = "Active"
    BY <1>8 DEF GivenUp, Sure, Live
  <2> QED
    BY <1>1, <2>1, SureMinus
<1> QED
  BY <1>1, <1>8, <1>9, <1>10, <1>11, CountsCalm, Zenon

\* Two classes that share no label.
LEMMA TwoClasses ==
    ASSUME NEW S, NEW T, S \cap T = {}
    PROVE  nAt(S \cup T) = nAt(S) + nAt(T)
<1>1. /\ At(S \cup T) = At(S) \cup At(T) /\ At(S) \cap At(T) = {}
      /\ IsFiniteSet(At(S)) /\ IsFiniteSet(At(T))
  BY Finite DEF At
<1>2. Cardinality(At(S)) \in Nat /\ Cardinality(At(T)) \in Nat
  BY <1>1, FS_CardinalityType
<1>3. Cardinality(At(S) \cup At(T)) = Cardinality(At(S)) + Cardinality(At(T)) - Cardinality({})
  BY <1>1, FS_Union
<1>4. Cardinality({}) = 0
  BY FS_EmptySet
<1>5. Cardinality(At(S) \cup At(T)) = Cardinality(At(S)) + Cardinality(At(T))
  BY <1>2, <1>3, <1>4
<1> QED
  BY <1>1, <1>5, Zenon DEF nAt

\* The classes that charge are not larger than all goroutines together.
LEMMA ChargingBounded ==
    nAt(Admitted) + nAt(Returning) + nAt(Adding) + nAt(Undoing) <= Cardinality(Workers)
<1>1. Admitted \cap Returning = {} /\ (Admitted \cup Returning) \cap Adding = {}
      /\ (Admitted \cup Returning \cup Adding) \cap Undoing = {}
  BY DEF Admitted, Returning, Adding, Undoing
<1>2. nAt(Admitted \cup Returning) = nAt(Admitted) + nAt(Returning)
  BY <1>1, TwoClasses
<1>3. nAt(Admitted \cup Returning \cup Adding) = nAt(Admitted \cup Returning) + nAt(Adding)
  BY <1>1, TwoClasses
<1>4. nAt(Charging) = nAt(Admitted \cup Returning \cup Adding) + nAt(Undoing)
  BY <1>1, TwoClasses DEF Charging
<1>5. nAt(Charging) <= Cardinality(Workers)
  BY Naturals
<1> QED
  BY <1>2, <1>3, <1>4, <1>5

\* While everybody is idle no charge is on its way and every readable object is sure.
LEMMA IdleNumbers ==
    ASSUME \A w \in Workers : pc[w] = "idle"
    PROVE  /\ nAt(Admitted) = 0 /\ nAt(Returning) = 0 /\ nAt(Adding) = 0 /\ nAt(Undoing) = 0
           /\ Sure = Live /\ nSure = nLive
<1>1. At(Admitted) = {} /\ At(Returning) = {} /\ At(Adding) = {} /\ At(Undoing) = {}
      /\ At(GivenUp) = {}
  BY DEF At, Admitted, Returning, Adding, Undoing, GivenUp
<1>2. Sure = Live
  BY <1>1 DEF Sure
<1> QED
  BY <1>1, <1>2, FS_EmptySet DEF nAt, nSure, nLive

\* A restart forgets the charges of the requests it cuts off, one for each
\* goroutine at most; dbRepair counts the bucket's objects anew.
LEMMA CountsRestart ==
    ASSUME CountInv, TypeOK', Restart
    PROVE  Counts' /\ BucketEnded'
<1>1. /\ \A w \in Workers : pc'[w] = "idle"
      /\ gcq' = {} /\ ns' = ns /\ faults' = faults /\ restarts' = restarts + 1
      /\ bstate' = "Active" <=> bstate = "Active"
  BY DEF Restart, CountInv, TypeOK, BStates
<1>2. Live' = Live
  BY DEF Restart, Live, CountInv, TypeOK
<1>3. /\ nAt(Admitted)' = 0 /\ nAt(Returning)' = 0 /\ nAt(Adding)' = 0 /\ nAt(Undoing)' = 0
      /\ nSure' = nLive /\ nLive' = nLive
  <2>1. /\ At(Admitted)' = {} /\ At(Returning)' = {} /\ At(Adding)' = {} /\ At(Undoing)' = {}
        /\ At(GivenUp)' = {}
    BY <1>1 DEF At, Admitted, Returning, Adding, Undoing, GivenUp
  <2>2. Sure' = Live
    BY <1>2, <2>1 DEF Sure
  <2> QED
    BY <1>2, <2>1, <2>2, FS_EmptySet DEF nAt, nSure, nLive
<1>4. PICK W \in Nat : W = Cardinality(Workers)
  BY ObjectsAssumption, FS_CardinalityType
<1>5. Slack \in Nat /\ faults <= Slack /\ Slack' = Slack + W
  <2>1. faults \in Nat /\ restarts \in Nat
    BY ObjectsAssumption DEF CountInv, TypeOK
  <2>2. restarts * W \in Nat /\ (restarts + 1) * W = restarts * W + W
    BY <1>4, <2>1
  <2> QED
    BY <1>1, <1>4, <2>1, <2>2 DEF Slack
<1>6. nAt(Admitted) + nAt(Returning) + nAt(Adding) + nAt(Undoing) <= W
  BY <1>4, ChargingBounded
<1>7. cnt' = cnt \/ cnt' = nLive
  BY DEF Restart, nLive
<1>8. /\ ns \in Int /\ cnt \in Int /\ faults \in Nat /\ Limit \in Nat
      /\ NsCovers /\ BucketCovers /\ LimitCovers /\ NsBounded /\ BucketBounded /\ BucketEnded
  BY ObjectsAssumption DEF CountInv, TypeOK
<1>9. NsCovers' /\ BucketCovers' /\ LimitCovers'
  BY <1>1, <1>3, <1>7, <1>8, ClassNumbers DEF NsCovers, BucketCovers, LimitCovers
<1>10. NsBounded'
  BY <1>1, <1>3, <1>4, <1>5, <1>6, <1>7, <1>8, ClassNumbers DEF NsBounded
<1>11. BucketBounded'
  BY <1>1, <1>3, <1>4, <1>5, <1>6, <1>7, <1>8, ClassNumbers DEF BucketBounded
<1>12. BucketEnded'
  <2>1. Quiet'
    BY <1>1 DEF Quiet, At
  <2> QED
    BY <1>1, <1>3, <1>7, <1>8, <2>1, ClassNumbers DEF BucketEnded, BucketCovers
<1> QED
  BY <1>9, <1>10, <1>11, <1>12 DEF Counts

\* A bucket ends with no object counted, and nobody charges it afterwards.
LEMMA EndedStep ==
    ASSUME CountInv, NEW w \in Workers, Request(w) \/ Step(w) \/ GcStart(w)
    PROVE  BucketEnded'
<1>1. CASE DelBucket(w)
  BY <1>1 DEF DelBucket, BucketEnded
<1>2. CASE ~DelBucket(w)
  <2>1. bstate # "Active" => pc[w] # "idle" \/ gcq # {}
    BY <1>2 DEF Request, PutBegin, CopyBegin, PutInsert, DelRequest, GcStart, Step, PutStats,
       PutUnstats, PutBucket, PutPart, PutActivate, PutCommit, PutUnpart, PutUnacct, Unacct,
       PutRemove, DelFind, DropDeact, DropParts, DropBucket, DropStats, DropRemove, BucketRemove
  <2>2. bstate # "Active" => cnt = 0
    BY <2>1, EndedBusy DEF CountInv, BucketEnded, Quiet
  <2>3. CASE Request(w) \/ GcStart(w)
    BY <1>2, <2>2, <2>3 DEF Request, PutBegin, CopyBegin, PutInsert, DelRequest, GcStart, bktVars,
       BucketEnded
  <2>4. CASE PutBucket(w) \/ PutUnacct(w) \/ DropBucket(w) \/ PutCommit(w)
    <3>1. ASSUME NEW a, NEW b, NEW c, BucketAcct(w, a, b, c) PROVE BucketEnded'
      BY <3>1 DEF BucketAcct, BucketEnded
    <3>2. BucketAcctFails => UNCHANGED <<bstate, cnt>>
      BY DEF BucketAcctFails, bktVars
    <3> QED
      BY <2>2, <2>4, <3>1, <3>2 DEF PutBucket, PutUnacct, DropBucket, Unacct, PutCommit,
         CommitFails, BucketEnded
  <2>5. CASE BucketRemove(w)
    BY <2>2, <2>5 DEF BucketRemove, BucketEnded
  <2>6. CASE \/ PutStats(w) \/ PutUnstats(w) \/ PutPart(w) \/ PutActivate(w) \/ PutUnpart(w)
             \/ PutRemove(w) \/ DelFind(w) \/ DropDeact(w) \/ DropParts(w) \/ DropStats(w)
             \/ DropRemove(w)
    <3>1. UNCHANGED <<bstate, cnt>>
      BY <2>6 DEF PutStats, PutUnstats, PutPart, PutActivate, PutUnpart, PutRemove, DelFind,
         DropDeact, DropParts, DropStats, DropRemove, bktVars
    <3> QED
      BY <2>2, <3>1 DEF BucketEnded
  <2> QED
    BY <2>3, <2>4, <2>5, <2>6 DEF Step
<1> QED
  BY <1>1, <1>2

\* CountInv is an invariant.
LEMMA CountInvHolds == Spec => []CountInv
<1>1. Init => CountInv
  <2> SUFFICES ASSUME Init PROVE CountInv
    OBVIOUS
  <2>1. TypeOK
    BY ObjectsAssumption DEF Init, TypeOK, BStates, OStates, Labels
  <2>2. PutsOwn
    BY DEF Init, PutsOwn, At, Putting, Admitted, Adding
  <2>3. Live = {}
    BY DEF Init, Live
  <2>4. nLive = 0 /\ nSure = 0 /\ Slack \in Nat
    <3>1. Sure = {}
      BY <2>3 DEF Sure
    <3>2. faults = 0 /\ restarts = 0 /\ Cardinality(Workers) \in Nat
      BY ObjectsAssumption, FS_CardinalityType DEF Init
    <3> QED
      BY <2>3, <3>1, <3>2, FS_EmptySet DEF nLive, nSure, Slack
  <2>5. nAt(Admitted) = 0 /\ nAt(Returning) = 0 /\ nAt(Adding) = 0 /\ nAt(Undoing) = 0
    BY IdleNumbers DEF Init
  <2>6. bstate = "Active" /\ cnt = 0 /\ ns = 0 /\ faults = 0 /\ Limit \in Nat
    BY ObjectsAssumption DEF Init
  <2> QED
    BY <2>1, <2>2, <2>4, <2>5, <2>6 DEF CountInv, NsCovers, BucketCovers, BucketEnded,
       LimitCovers, NsBounded, BucketBounded
<1>2. CountInv /\ [Next]_vars => CountInv'
  <2> SUFFICES ASSUME CountInv, [Next]_vars PROVE CountInv'
    OBVIOUS
  <2>1. CASE Next
    <3>1. TypeOK'
      BY <2>1, TypesKept DEF CountInv
    <3>2. PutsOwn'
      BY <2>1, <3>1, PutsStep DEF CountInv
    <3>3. ASSUME NEW w \in Workers, Request(w) \/ Step(w) \/ GcStart(w) PROVE Counts'
      BY <3>1, <3>3, CountsPut, CountsDrop, CountsOther DEF Step
    <3>4. Counts' /\ BucketEnded'
      BY <2>1, <3>1, <3>3, EndedStep, CountsRestart DEF Next
    <3> QED
      BY <3>1, <3>2, <3>4 DEF CountInv, Counts
  <2>2. CASE UNCHANGED vars
    BY <2>2 DEF vars, bktVars, objVars, locVars, histVars, CountInv, TypeOK, PutsOwn, NsCovers,
       BucketCovers, BucketEnded, LimitCovers, NsBounded, BucketBounded, Quiet, At, Slack, nAt,
       nLive, nSure, Live, Sure
  <2> QED
    BY <2>1, <2>2
<1> QED
  BY <1>1, <1>2, PTL DEF Spec

\* The variables keep their types (db records, goroutines at a database operation).
THEOREM TypesHold == Spec => []TypeOK
  BY CountInvHolds, PTL DEF CountInv

\* The objects of a namespace exceed its limit by no more than the failed
\* operations, for any number of requests accounted at the same time (acctObj).
THEOREM LimitAlwaysHolds == Spec => []LimitHolds
<1>1. CountInv => LimitHolds
  <2> SUFFICES ASSUME CountInv PROVE LimitHolds
    OBVIOUS
  <2>1. Limit \in Nat /\ faults \in Nat /\ LimitCovers
    BY ObjectsAssumption DEF CountInv, TypeOK
  <2> QED
    BY <2>1, Naturals DEF LimitCovers, LimitHolds, nLive
<1> QED
  BY <1>1, CountInvHolds, PTL

\* Once all is done the counters of the bucket and of the namespace are off by no
\* more than the failures and the requests cut off, and the bucket's never misses
\* an object while nothing failed (acctObj, unacctObj, dbRepair).
THEOREM CountersAlwaysHold == Spec => []CountersHold
<1>1. CountInv => CountersHold
  <2> SUFFICES ASSUME CountInv PROVE CountersHold
    OBVIOUS
  <2>1. /\ ns \in Int /\ cnt \in Int /\ faults \in Nat /\ restarts \in Nat
        /\ NsCovers /\ BucketCovers /\ NsBounded /\ BucketBounded /\ BucketEnded
    BY ObjectsAssumption DEF CountInv, TypeOK
  <2>2. Slack \in Nat
    <3>1. Cardinality(Workers) \in Nat
      BY ObjectsAssumption, FS_CardinalityType
    <3> QED
      BY <2>1, <3>1 DEF Slack
  <2>3. ASSUME AtRest
        PROVE  /\ -faults <= cnt - nLive /\ -faults <= ns - nLive
               /\ cnt - nLive <= Slack /\ ns - nLive <= Slack
    <3>1. /\ nAt(Admitted) = 0 /\ nAt(Returning) = 0 /\ nAt(Adding) = 0 /\ nAt(Undoing) = 0
          /\ nSure = nLive /\ nLive \in Nat
      BY <2>3, IdleNumbers, Naturals DEF AtRest
    <3> QED
      BY <2>1, <2>2, <3>1 DEF NsCovers, BucketCovers, NsBounded, BucketBounded, BucketEnded
  <2>4. DriftBounded
    BY <2>3 DEF DriftBounded, nLive, Slack
  <2>5. ASSUME faults = 0
        PROVE  (bstate = "Active" => cnt >= nLive) /\ (bstate # "Active" => nLive = 0)
    BY <2>1, <2>5, Naturals DEF BucketCovers, BucketEnded
  <2>6. nLive = 0 => Live = {}
    BY Finite, FS_EmptySet DEF nLive
  <2>7. BucketCoversLive
    BY <2>5, <2>6 DEF BucketCoversLive, nLive
  <2> QED
    BY <2>4, <2>7 DEF CountersHold
<1> QED
  BY <1>1, CountInvHolds, PTL

-----------------------------------------------------------------------------
(* Steps while nothing fails.                                              *)

\* the way of a goroutine
Flow(w) ==
    /\ pc[w] = "idle" => pc'[w] \in {"idle", "put_stats", "del_find", "drop_deact", "bucket_remove"}
    /\ pc[w] = "put_stats" => pc'[w] \in {"put_over", "put_bucket"}
    /\ pc[w] \in {"put_over", "put_unstats"} => pc'[w] = "put_remove"
    /\ pc[w] = "put_bucket" => pc'[w] = IF bstate = "Active" THEN "put_part" ELSE "put_unstats"
    /\ pc[w] = "put_part" => pc'[w] \in {"put_activate", "put_unacct"}
    /\ pc[w] = "put_activate" => pc'[w] = "put_commit"
    /\ pc[w] = "put_commit" => IF bstate = "Active" THEN pc'[w] \in {"idle", "del_find"}
                               ELSE pc'[w] = "put_unpart"
    /\ pc[w] = "put_unpart" => pc'[w] = "put_unacct"
    /\ pc[w] = "put_unacct" => pc'[w] = IF bstate = "Active" THEN "put_unstats" ELSE "put_remove"
    /\ pc[w] \in {"put_remove", "bucket_remove"} => pc'[w] = "idle"
    /\ pc[w] \in {"del_find", "drop_remove"} => pc'[w] \in {"idle", "drop_deact"}
    /\ pc[w] = "drop_deact" => pc'[w] \in {"idle", "drop_deact", "drop_parts"}
    /\ pc[w] = "drop_parts" => pc'[w] = "drop_bucket"
    /\ pc[w] = "drop_bucket" => IF bstate = "Active" THEN pc'[w] = "drop_stats"
                                ELSE pc'[w] \in {"idle", "drop_deact"}
    /\ pc[w] = "drop_stats" => pc'[w] = "drop_remove"

\* what the step does to an object
Changes(w, o) ==
    \/ ostate'[o] = ostate[o]
    \/ /\ ostate[o] = "fresh" /\ ostate'[o] = "None"
       /\ pc[w] = "idle" /\ pc'[w] = "put_stats" /\ wobj'[w] = o
    \/ /\ o = wobj[w]
       /\ \/ /\ ostate[o] = "None" /\ ostate'[o] = "Active"
             /\ pc[w] = "put_activate" /\ pc'[w] = "put_commit"
          \/ ostate[o] # "fresh" /\ ostate'[o] = "gone" /\ pc[w] = "put_remove" /\ pc'[w] = "idle"
          \/ /\ ostate[o] = "Active" /\ ostate'[o] = "Inactive"
             /\ pc[w] = "drop_deact" /\ pc'[w] = "drop_parts"
          \/ ostate[o] = "Inactive" /\ ostate'[o] = "gone" /\ pc[w] = "drop_remove"

\* The steps of a goroutine when nothing fails.
LEMMA CalmSteps ==
    ASSUME CountInv, NEW w \in Workers, Request(w) \/ Step(w) \/ GcStart(w), faults' = faults
    PROVE  /\ Flow(w)
           /\ \A o \in Oids : Changes(w, o)
           /\ pc'[w] \notin {"idle", "put_stats", "drop_deact"} => wobj'[w] = wobj[w]
           /\ pc[w] = "put_remove" => ostate'[wobj[w]] = "gone"
           /\ pc[w] = "drop_remove" => ostate'[wobj[w]] # "Inactive"
           /\ pc[w] = "put_activate" => ostate'[wobj[w]] = "Active"
           /\ pc[w] = "drop_deact" => ostate'[wobj[w]] # "Active"
           /\ pc'[w] = "put_stats" => wobj'[w] \in Oids /\ ostate[wobj'[w]] = "fresh"
                                                      /\ ostate'[wobj'[w]] = "None"
           /\ pc'[w] = "drop_parts" => /\ wobj[w] \in Oids /\ ostate[wobj[w]] = "Active"
                                       /\ ostate'[wobj[w]] = "Inactive"
<1>1. faults \in Nat /\ pc \in [Workers -> Labels] /\ ostate \in [Oids -> OStates]
      /\ wobj \in [Workers -> Oids \cup {Nil}]
  BY ObjectsAssumption DEF CountInv, TypeOK
<1>2. ~DbFault
  BY <1>1 DEF DbFault
<1>3. Finish(w) => pc'[w] = "idle"
  BY <1>1 DEF Finish
<1>4. DropDone(w) => pc'[w] \in {"idle", "drop_deact"}
  BY <1>1, <1>3 DEF DropDone
<1>5. \A l : Goto(w, l) => pc'[w] = l /\ wobj'[w] = wobj[w]
  BY <1>1 DEF Goto, locVars
<1>6. BucketAcctFails => bstate # "Active"
  BY <1>2 DEF BucketAcctFails
<1>7. pc[w] \in {"put_activate", "put_remove", "drop_deact", "drop_remove"} => wobj[w] \in Oids
  BY DEF CountInv, TypeOK
<1>8. CASE Request(w)
  <2>1. ASSUME NEW k, NEW src, PutInsert(w, k, src)
        PROVE  /\ pc[w] = "idle" /\ pc'[w] = "put_stats"
               /\ \E o \in Oids : /\ wobj'[w] = o /\ ostate[o] = "fresh" /\ ostate'[o] = "None"
                                  /\ \A x \in Oids : x # o => ostate'[x] = ostate[x]
    BY <1>1, <2>1 DEF PutInsert
  <2>2. ASSUME NEW k, DelRequest(w, k)
        PROVE  pc[w] = "idle" /\ pc'[w] = "del_find" /\ wobj' = wobj /\ ostate' = ostate
    BY <1>1, <2>2 DEF DelRequest, objVars
  <2>3. ASSUME DelBucket(w)
        PROVE  pc[w] = "idle" /\ pc'[w] = "bucket_remove" /\ wobj'[w] = wobj[w] /\ ostate' = ostate
    BY <1>5, <2>3 DEF DelBucket, objVars
  <2>4. ASSUME NEW k \in Keys, PutBegin(w, k) \/ CopyBegin(w, k) PROVE \E src : PutInsert(w, k, src)
    BY <2>4 DEF PutBegin, CopyBegin
  <2> QED
    BY <1>8, <2>1, <2>2, <2>3, <2>4 DEF Request, Flow, Changes
<1>9. CASE GcStart(w)
  <2>1. pc[w] = "idle" /\ pc'[w] \in {"idle", "drop_deact"} /\ ostate' = ostate
    BY <1>1, <1>9 DEF GcStart, objVars
  <2> QED
    BY <2>1 DEF Flow, Changes
<1>10. CASE PutStats(w) \/ PutUnstats(w) \/ PutPart(w) \/ PutUnpart(w)
  <2>1. ostate' = ostate
    BY <1>10 DEF PutStats, PutUnstats, PutPart, PutUnpart, objVars
  <2> QED
    BY <1>2, <1>5, <1>10, <2>1 DEF PutStats, PutUnstats, PutPart, PutUnpart, Flow, Changes
<1>11. CASE PutBucket(w) \/ PutUnacct(w) \/ DropBucket(w)
  <2>1. ostate' = ostate
    BY <1>11 DEF PutBucket, PutUnacct, DropBucket, Unacct, objVars
  <2>2. ASSUME NEW a, NEW b, NEW c, BucketAcct(w, a, b, c), NEW l, pc' = [pc EXCEPT ![w] = l]
        PROVE  bstate = "Active" /\ wobj' = wobj /\ pc'[w] = l
    BY <1>1, <2>2 DEF BucketAcct
  <2> QED
    BY <1>4, <1>5, <1>6, <1>11, <2>1, <2>2 DEF PutBucket, PutUnacct, DropBucket, Unacct, Flow,
       Changes
<1>12. CASE PutActivate(w)
  BY <1>1, <1>2, <1>5, <1>7, <1>12 DEF PutActivate, Flow, Changes
<1>13. CASE PutCommit(w)
  <2>1. ostate' = ostate /\ pc[w] = "put_commit"
    BY <1>13 DEF PutCommit, objVars
  <2>2. ASSUME Committed(w, rover)
        PROVE  pc'[w] = "idle" \/ (pc'[w] = "del_find" /\ wobj' = wobj)
    BY <1>1, <1>3, <2>2 DEF Committed
  <2>3. ASSUME CommitFails(w) PROVE bstate # "Active" /\ pc'[w] = "put_unpart" /\ wobj'[w] = wobj[w]
    BY <1>5, <1>6, <2>3 DEF CommitFails
  <2> QED
    BY <1>13, <2>1, <2>2, <2>3 DEF PutCommit, Flow, Changes
<1>14. CASE PutRemove(w)
  <2>1. ostate[wobj[w]] # "fresh"
    BY <1>14 DEF PutRemove, CountInv, PutsOwn, At, Putting
  <2> QED
    BY <1>1, <1>2, <1>3, <1>7, <1>14, <2>1 DEF PutRemove, Flow, Changes
<1>15. CASE BucketRemove(w) \/ DelFind(w)
  <2>1. ostate' = ostate
    BY <1>15 DEF BucketRemove, DelFind, objVars
  <2> QED
    BY <1>1, <1>3, <1>15, <2>1 DEF BucketRemove, DelFind, Flow, Changes
<1>16. CASE DropDeact(w)
  BY <1>1, <1>2, <1>4, <1>5, <1>7, <1>16 DEF DropDeact, Flow, Changes
<1>17. CASE DropParts(w) \/ DropStats(w)
  <2>1. ostate' = ostate
    BY <1>17 DEF DropParts, DropStats, objVars
  <2> QED
    BY <1>2, <1>5, <1>17, <2>1 DEF DropParts, DropStats, Flow, Changes
<1>18. CASE DropRemove(w)
  BY <1>1, <1>2, <1>4, <1>7, <1>18 DEF DropRemove, Flow, Changes
<1> QED
  BY <1>8, <1>9, <1>10, <1>11, <1>12, <1>13, <1>14, <1>15, <1>16, <1>17, <1>18 DEF Step

\* A bucket that ended has no objects.
LEMMA EndedNoLive ==
    ASSUME CountInv, faults = 0, bstate # "Active"
    PROVE  Live = {}
<1>1. cnt \in Int /\ BucketCovers /\ BucketEnded
  BY DEF CountInv, TypeOK
<1>2. nLive = 0
  BY <1>1, ClassNumbers DEF BucketCovers, BucketEnded
<1> QED
  BY <1>2, Finite, FS_EmptySet DEF nLive

\* What the bucket of a calm step may do.
LEMMA CalmBucket ==
    ASSUME CountInv, NEW w \in Workers, Request(w) \/ Step(w) \/ GcStart(w), faults' = faults
    PROVE  /\ bstate' = "Active" => bstate = "Active"
           /\ bstate = "Active" /\ bstate' # "Active" =>
                 cnt = 0 /\ pc[w] = "idle" /\ pc'[w] = "bucket_remove"
           /\ bstate' = "Active" =>
                 ref' = ref + (IF pc[w] = "put_bucket" THEN 1
                               ELSE IF pc[w] \in {"put_commit", "put_unacct"} THEN -1 ELSE 0)
<1>1. faults \in Nat /\ ref \in Int /\ pc \in [Workers -> Labels]
  BY ObjectsAssumption DEF CountInv, TypeOK
<1>2. ~DbFault
  BY <1>1 DEF DbFault
<1>3. BucketAcctFails => bstate # "Active" /\ bstate' = bstate
  BY <1>2 DEF BucketAcctFails, bktVars
<1>4. ASSUME NEW a, NEW b, NEW c, BucketAcct(w, a, b, c) PROVE bstate' = bstate /\ ref' = ref + b
  BY <1>4 DEF BucketAcct
<1>5. CASE Request(w) \/ GcStart(w)
  BY <1>1, <1>5 DEF Request, PutBegin, CopyBegin, PutInsert, DelRequest, DelBucket, GcStart,
     Goto, bktVars
<1>6. CASE PutBucket(w) \/ PutUnacct(w)
  BY <1>1, <1>3, <1>4, <1>6 DEF PutBucket, PutUnacct, Unacct
<1>7. CASE DropBucket(w)
  <2>1. pc[w] = "drop_bucket"
    BY <1>7 DEF DropBucket, Unacct
  <2> QED
    BY <1>1, <1>3, <1>4, <1>7, <2>1 DEF DropBucket, Unacct
<1>8. CASE PutCommit(w)
  BY <1>1, <1>3, <1>8 DEF PutCommit, CommitFails
<1>9. CASE BucketRemove(w)
  BY <1>1, <1>9 DEF BucketRemove
<1>10. CASE \/ PutStats(w) \/ PutUnstats(w) \/ PutPart(w) \/ PutActivate(w) \/ PutUnpart(w)
            \/ PutRemove(w) \/ DelFind(w) \/ DropDeact(w) \/ DropParts(w) \/ DropStats(w)
            \/ DropRemove(w)
  <2>1. UNCHANGED bktVars /\ pc[w] \notin {"put_bucket", "put_commit", "put_unacct"}
    BY <1>10 DEF PutStats, PutUnstats, PutPart, PutActivate, PutUnpart, PutRemove, DelFind,
       DropDeact, DropParts, DropStats, DropRemove
  <2> QED
    BY <1>1, <2>1 DEF bktVars
<1> QED
  BY <1>5, <1>6, <1>7, <1>8, <1>9, <1>10 DEF Step

\* a step of one goroutine, without a failure so far
CalmStep(w) ==
    /\ CountInv /\ Calm /\ CalmInv
    /\ Request(w) \/ Step(w) \/ GcStart(w)
    /\ faults' = faults

\* what the proofs below start from
LEMMA CalmFacts ==
    ASSUME NEW w \in Workers, CalmStep(w)
    PROVE  /\ TypeOK /\ PutsOwn /\ Alone(w) /\ pc' = [pc EXCEPT ![w] = pc'[w]]
           /\ RefCounts /\ EndedEmpty /\ StatesFit /\ DataKept /\ NoneLeft
           /\ RoversApart /\ OlderDoomed
           /\ Flow(w) /\ pc[w] \in Labels
           /\ \A o \in Oids : Changes(w, o)
           /\ pc'[w] \notin {"idle", "put_stats", "drop_deact"} => wobj'[w] = wobj[w]
           /\ bstate # "Active" => Live = {}
  BY OneMoves, CalmSteps, EndedNoLive DEF CalmStep, CountInv, CalmInv, Calm, TypeOK

\* A put refers to the bucket from its charge to its commit.
LEMMA CalmRefs ==
    ASSUME NEW w \in Workers, CalmStep(w)
    PROVE  RefCounts'
<1>1. pc \in [Workers -> Labels] /\ ref \in Int /\ RefCounts /\ Flow(w) /\ pc[w] \in Labels
      /\ pc' = [pc EXCEPT ![w] = pc'[w]]
  BY CalmFacts DEF TypeOK
<1>2. nAt(Referring)' = nAt(Referring) + Is(pc'[w], Referring) - Is(pc[w], Referring)
  BY <1>1, Moves
<1>3. ASSUME bstate = "Active"
      PROVE  Is(pc'[w], Referring) - Is(pc[w], Referring)
             = IF pc[w] = "put_bucket" THEN 1
               ELSE IF pc[w] \in {"put_commit", "put_unacct"} THEN -1 ELSE 0
  <2>1. /\ pc[w] = "put_bucket" => pc[w] \notin Referring /\ pc'[w] \in Referring
        /\ pc[w] \in {"put_commit", "put_unacct"} => pc[w] \in Referring /\ pc'[w] \notin Referring
        /\ pc[w] \notin {"put_bucket", "put_commit", "put_unacct"} =>
              (pc'[w] \in Referring <=> pc[w] \in Referring)
    BY <1>1, <1>3 DEF Flow, Referring, Labels
  <2> QED
    BY <2>1 DEF Is
<1>4. /\ bstate' = "Active" => bstate = "Active"
      /\ bstate' = "Active" =>
            ref' = ref + (IF pc[w] = "put_bucket" THEN 1
                          ELSE IF pc[w] \in {"put_commit", "put_unacct"} THEN -1 ELSE 0)
  BY CalmBucket DEF CalmStep
<1>5. nAt(Referring) \in Nat /\ Is(pc'[w], Referring) \in Int /\ Is(pc[w], Referring) \in Int
  BY Naturals DEF Is
<1> QED
  BY <1>1, <1>2, <1>3, <1>4, <1>5 DEF RefCounts

\* A bucket is deleted when it counts no object, so that none is stored or dropped.
LEMMA CalmEnded ==
    ASSUME NEW w \in Workers, CalmStep(w)
    PROVE  EndedEmpty'
<1>1. /\ TypeOK /\ PutsOwn /\ Alone(w) /\ EndedEmpty /\ Flow(w) /\ pc[w] \in Labels
      /\ bstate # "Active" => Live = {}
  BY CalmFacts
<1> DEFINE E == Adding \cup {"drop_parts", "drop_bucket"}
<1>2. CASE bstate' # "Active" /\ bstate = "Active"
  <2>1. cnt = 0 /\ pc'[w] = "bucket_remove"
    BY <1>2, CalmBucket DEF CalmStep
  <2>2. nAt(Adding) = 0 /\ nAt(Undoing) = 0
    <3>1. nLive + nAt(Adding) + nAt(Undoing) <= 0
      BY <1>2, <2>1 DEF CalmStep, CountInv, Calm, BucketCovers
    <3> QED
      BY <3>1, ClassNumbers
  <2>3. At(Adding) = {} /\ At(Undoing) = {}
    BY <2>2, Naturals
  <2>4. At(E) = {}
    BY <2>3 DEF At, Undoing
  <2>5. At(E)' = {}
    BY <1>1, <2>1, <2>4 DEF At, Alone, Adding
  <2> QED
    BY <2>5 DEF EndedEmpty
<1>3. CASE bstate' # "Active" /\ bstate # "Active"
  <2>1. At(E) = {} /\ Live = {}
    BY <1>1, <1>3 DEF EndedEmpty
  <2>2. pc'[w] \notin E
    <3>1. pc[w] \notin E
      BY <2>1 DEF At
    <3>2. pc'[w] # "drop_parts"
      BY <2>1, CalmSteps DEF CalmStep, Live
    <3> QED
      BY <1>1, <1>3, <3>1, <3>2 DEF Flow, Labels, Adding
  <2> QED
    BY <1>1, <2>1, <2>2 DEF EndedEmpty, At, Alone
<1> QED
  BY <1>2, <1>3 DEF EndedEmpty

\* Where the data, the rovers, the names and the collections to start change.
LEMMA CalmData ==
    ASSUME TypeOK, NEW w \in Workers, Request(w) \/ Step(w) \/ GcStart(w), faults' = faults
    PROVE  /\ \/ UNCHANGED <<odata, hollow>> /\ pc[w] \notin {"put_part", "put_unpart", "drop_parts"}
              \/ /\ pc[w] = "put_part" /\ pc'[w] = "put_activate"
                 /\ odata' = odata \cup {wobj[w]} /\ hollow' = hollow
              \/ pc[w] = "put_part" /\ odata' = odata /\ hollow' = hollow \cup {wobj[w]}
              \/ pc[w] = "put_part" /\ pc'[w] = "put_unacct" /\ UNCHANGED <<odata, hollow>>
              \/ /\ pc[w] \in {"put_unpart", "drop_parts"}
                 /\ odata' = odata \ {wobj[w]} /\ hollow' = hollow
           /\ \A g \in gcq' : g \in gcq \/ (pc[w] = "put_commit" /\ g[1] = wobj[w])
           /\ \A o \in Oids : okey'[o] = okey[o] \/ ostate[o] = "fresh"
           /\ \A o \in Oids : orover'[o] = orover[o] \/ (pc[w] = "put_activate" /\ o = wobj[w])
           /\ pc[w] = "put_activate" => orover'[wobj[w]] = wrov[w]
           /\ rover' = rover \/ (rover' = rover + 1 /\ pc[w] = "put_bucket")
           /\ pc[w] = "put_bucket" /\ pc'[w] = "put_part" =>
                 rover' = rover + 1 /\ wrov'[w] = rover + 1
           /\ pc[w] = "put_part" => wrov'[w] = wrov[w]
<1>1. /\ faults \in Nat /\ rover \in Nat /\ pc \in [Workers -> Labels]
      /\ okey \in [Oids -> Keys \cup {Nil}] /\ orover \in [Oids -> Nat] /\ wrov \in [Workers -> Nat]
      /\ pc[w] = "put_activate" => wobj[w] \in Oids
  BY ObjectsAssumption DEF TypeOK
<1>2. ~DbFault
  BY <1>1 DEF DbFault
<1> USE DEF bktVars, objVars, histVars
<1>3. CASE Request(w)
  <2>1. ASSUME NEW k, NEW src, PutInsert(w, k, src)
        PROVE  /\ UNCHANGED <<odata, hollow, gcq, orover, rover>> /\ pc[w] = "idle"
               /\ \A o \in Oids : okey'[o] = okey[o] \/ ostate[o] = "fresh"
    BY <1>1, <2>1 DEF PutInsert
  <2>2. ASSUME NEW k, DelRequest(w, k)
        PROVE  UNCHANGED <<odata, hollow, gcq, orover, okey, rover>> /\ pc[w] = "idle"
    BY <2>2 DEF DelRequest
  <2>3. ASSUME DelBucket(w)
        PROVE  UNCHANGED <<odata, hollow, gcq, orover, okey, rover>> /\ pc[w] = "idle"
    BY <2>3 DEF DelBucket
  <2> QED
    BY <1>3, <2>1, <2>2, <2>3 DEF Request, PutBegin, CopyBegin
<1>4. CASE GcStart(w)
  <2>1. /\ UNCHANGED <<odata, hollow, orover, okey, rover>> /\ pc[w] = "idle"
        /\ gcq' \subseteq gcq
    BY <1>4 DEF GcStart
  <2> QED
    BY <2>1
<1>5. CASE PutBucket(w)
  <2>1. UNCHANGED <<odata, hollow, orover, okey, gcq>> /\ pc[w] = "put_bucket"
    BY <1>5 DEF PutBucket
  <2>2. CASE BucketAcct(w, 1, 1, 1)
    BY <1>1, <2>1, <2>2 DEF BucketAcct
  <2>3. CASE BucketAcctFails /\ Goto(w, "put_unstats")
    BY <1>1, <2>1, <2>3 DEF BucketAcctFails, Goto
  <2> QED
    BY <1>5, <2>2, <2>3 DEF PutBucket
<1>6. CASE PutUnacct(w) \/ DropBucket(w)
  <2>1. /\ UNCHANGED <<odata, hollow, orover, okey, gcq>> /\ pc[w] \in {"put_unacct", "drop_bucket"}
        /\ rover' = rover
    BY <1>1, <1>6 DEF PutUnacct, DropBucket, Unacct, BucketAcct, BucketAcctFails
  <2> QED
    BY <2>1
<1>7. CASE PutPart(w)
  <2>1. UNCHANGED <<orover, okey, gcq, rover, wrov>> /\ pc[w] = "put_part"
    BY <1>7 DEF PutPart, Goto, locVars
  <2>2. \/ pc'[w] = "put_activate" /\ odata' = odata \cup {wobj[w]} /\ hollow' = hollow
        \/ odata' = odata /\ hollow' = hollow \cup {wobj[w]}
        \/ pc'[w] = "put_unacct" /\ UNCHANGED <<odata, hollow>>
    BY <1>1, <1>2, <1>7 DEF PutPart, Goto
  <2> QED
    BY <2>1, <2>2
<1>8. CASE PutActivate(w)
  BY <1>1, <1>2, <1>8 DEF PutActivate
<1>9. CASE PutCommit(w)
  <2>1. UNCHANGED <<odata, orover, okey>> /\ pc[w] = "put_commit"
    BY <1>9 DEF PutCommit
  <2>2. UNCHANGED <<hollow, rover>> /\ \A g \in gcq' : g \in gcq \/ g[1] = wobj[w]
    BY <1>9 DEF PutCommit, Committed, CommitFails, BucketAcctFails
  <2> QED
    BY <2>1, <2>2
<1>10. CASE PutUnpart(w) \/ DropParts(w)
  <2>1. /\ UNCHANGED <<orover, okey, gcq, rover, hollow>> /\ pc[w] \in {"put_unpart", "drop_parts"}
        /\ odata' = odata \ {wobj[w]}
    BY <1>2, <1>10 DEF PutUnpart, DropParts
  <2> QED
    BY <2>1
<1>11. CASE \/ PutStats(w) \/ PutUnstats(w) \/ PutRemove(w) \/ DelFind(w) \/ DropDeact(w)
            \/ DropStats(w) \/ DropRemove(w) \/ BucketRemove(w)
  <2>1. /\ UNCHANGED <<odata, hollow, orover, okey, gcq, rover>>
        /\ pc[w] \notin {"put_part", "put_unpart", "drop_parts", "put_activate", "put_bucket"}
    BY <1>11 DEF PutStats, PutUnstats, PutRemove, DelFind, DropDeact, DropStats, DropRemove,
       BucketRemove
  <2> QED
    BY <2>1
<1> QED
  BY <1>3, <1>4, <1>5, <1>6, <1>7, <1>8, <1>9, <1>10, <1>11 DEF Step

\* What is given up or dropped is not readable again.
LEMMA CalmStates ==
    ASSUME NEW w \in Workers, CalmStep(w)
    PROVE  StatesFit'
<1>1. /\ TypeOK /\ PutsOwn /\ Alone(w) /\ StatesFit /\ Flow(w) /\ pc[w] \in Labels
      /\ bstate # "Active" => Live = {}
      /\ \A o \in Oids : Changes(w, o)
      /\ pc'[w] \notin {"idle", "put_stats", "drop_deact"} => wobj'[w] = wobj[w]
      /\ pc'[w] = "drop_parts" => ostate'[wobj[w]] = "Inactive"
  BY CalmFacts, CalmSteps DEF CalmStep
<1>2. \A v \in At(Putting \cup Dropping) : wobj[v] \in Oids
  BY <1>1 DEF TypeOK, At, Putting, Dropping
<1>3. ASSUME NEW v \in At(GivenUp)' PROVE ostate'[wobj'[v]] # "Active"
  <2>1. CASE v # w
    <3>1. v \in At(GivenUp) /\ v \in At(Putting) /\ wobj'[v] = wobj[v] /\ wobj[v] \in Oids
      BY <1>1, <1>2, <1>3, <2>1 DEF At, Alone, GivenUp, Putting
    <3>2. pc[w] = "put_activate" => wobj[v] # wobj[w]
      BY <1>1, <2>1, <3>1 DEF PutsOwn, At, Putting
    <3> QED
      BY <1>1, <3>1, <3>2 DEF Changes, StatesFit
  <2>2. CASE v = w
    <3>1. /\ pc[w] \in {"put_over", "put_bucket", "put_part", "put_commit", "put_unpart", "put_unacct",
                        "put_unstats"}
          /\ pc[w] = "put_commit" => bstate # "Active"
          /\ wobj'[w] = wobj[w] /\ wobj[w] \in Oids
      BY <1>1, <1>2, <1>3, <2>2 DEF Flow, Labels, At, GivenUp, Putting
    <3>2. ostate'[wobj[w]] = ostate[wobj[w]] \/ ostate'[wobj[w]] = "None"
      BY <1>1, <3>1 DEF Changes
    <3>3. ostate[wobj[w]] # "Active"
      BY <1>1, <3>1 DEF PutsOwn, StatesFit, At, Admitted, Adding, GivenUp, Live
    <3> QED
      BY <2>2, <3>1, <3>2, <3>3
  <2> QED
    BY <2>1, <2>2
<1>4. ASSUME NEW v \in At(Dropping)' PROVE ostate'[wobj'[v]] \in {"Inactive", "gone"}
  <2>1. CASE v # w
    <3>1. v \in At(Dropping) /\ wobj'[v] = wobj[v] /\ wobj[v] \in Oids
      BY <1>1, <1>2, <1>4, <2>1 DEF At, Alone
    <3> QED
      BY <1>1, <3>1 DEF Changes, StatesFit
  <2>2. CASE v = w /\ pc'[w] # "drop_parts"
    <3>1. pc[w] \in Dropping /\ wobj'[w] = wobj[w] /\ wobj[w] \in Oids
      BY <1>1, <1>2, <1>4, <2>2 DEF Flow, Labels, At, Dropping
    <3>2. ostate[wobj[w]] \in {"Inactive", "gone"}
      BY <1>1, <3>1 DEF StatesFit, At
    <3> QED
      BY <1>1, <2>2, <3>1, <3>2 DEF Changes
  <2> QED
    BY <1>1, <2>1, <2>2
<1>5. ASSUME NEW g \in gcq' PROVE ostate'[g[1]] # "fresh"
  <2>1. g \in gcq \/ (pc[w] = "put_commit" /\ g[1] = wobj[w])
    BY <1>1, CalmData DEF CalmStep
  <2>2. g[1] \in Oids /\ ostate[g[1]] # "fresh"
    BY <1>1, <1>2, <2>1 DEF TypeOK, StatesFit, PutsOwn, At, Putting
  <2> QED
    BY <1>1, <2>2 DEF Changes
<1> QED
  BY <1>3, <1>4, <1>5 DEF StatesFit

\* A put that failed removes its object, and so does whoever dropped one.
LEMMA CalmNone ==
    ASSUME NEW w \in Workers, CalmStep(w)
    PROVE  NoneLeft'
<1>1. /\ TypeOK /\ PutsOwn /\ Alone(w) /\ NoneLeft /\ EndedEmpty /\ Flow(w) /\ pc[w] \in Labels
      /\ \A o \in Oids : Changes(w, o)
      /\ pc'[w] \notin {"idle", "put_stats", "drop_deact"} => wobj'[w] = wobj[w]
  BY CalmFacts
<1>2. /\ pc[w] = "put_remove" => ostate'[wobj[w]] = "gone"
      /\ pc[w] = "drop_remove" => ostate'[wobj[w]] # "Inactive"
      /\ pc[w] = "put_activate" => ostate'[wobj[w]] = "Active"
  BY CalmSteps DEF CalmStep
<1>3. ASSUME NEW o \in Oids, ostate'[o] = "None"
      PROVE  \E v \in At(Putting \ {"put_commit"})' : wobj'[v] = o
  <2>1. CASE ostate[o] # "None"
    <3>1. pc'[w] = "put_stats" /\ wobj'[w] = o
      BY <1>1, <1>3, <2>1 DEF Changes
    <3> QED
      BY <3>1 DEF At, Putting
  <2>2. CASE ostate[o] = "None"
    <3>1. PICK v \in At(Putting \ {"put_commit"}) : wobj[v] = o
      BY <1>1, <2>2 DEF NoneLeft
    <3>2. CASE v # w
      BY <1>1, <3>1, <3>2 DEF At, Alone
    <3>3. CASE v = w
      <4>1. pc[w] \in Putting \ {"put_commit", "put_remove", "put_activate"}
        BY <1>2, <1>3, <3>1, <3>3 DEF At
      <4>2. pc'[w] \in Putting \ {"put_commit", "put_stats"}
        BY <1>1, <4>1 DEF Flow, Putting
      <4>3. wobj'[w] = wobj[w]
        BY <1>1, <4>2 DEF Putting
      <4> QED
        BY <3>1, <3>3, <4>2, <4>3 DEF At
    <3> QED
      BY <3>2, <3>3
  <2> QED
    BY <2>1, <2>2
<1>4. ASSUME NEW o \in Oids, ostate'[o] = "Inactive"
      PROVE  \E v \in At(Dropping)' : wobj'[v] = o
  <2>1. CASE ostate[o] # "Inactive"
    <3>1. pc'[w] = "drop_parts" /\ wobj[w] = o
      BY <1>1, <1>4, <2>1 DEF Changes
    <3> QED
      BY <1>1, <3>1 DEF At, Dropping
  <2>2. CASE ostate[o] = "Inactive"
    <3>1. PICK v \in At(Dropping) : wobj[v] = o
      BY <1>1, <2>2 DEF NoneLeft
    <3>2. CASE v # w
      BY <1>1, <3>1, <3>2 DEF At, Alone
    <3>3. CASE v = w
      <4>1. pc[w] \in Dropping \ {"drop_remove"}
        BY <1>2, <1>4, <3>1, <3>3 DEF At
      <4>2. pc[w] = "drop_bucket" => bstate = "Active"
        BY <1>1 DEF EndedEmpty, At
      <4>3. pc'[w] \in Dropping /\ wobj'[w] = wobj[w]
        BY <1>1, <4>1, <4>2 DEF Flow, Dropping
      <4> QED
        BY <3>1, <3>3, <4>3 DEF At
    <3> QED
      BY <3>2, <3>3
  <2> QED
    BY <2>1, <2>2
<1>5. ASSUME NEW v \in At({"put_commit"})' PROVE ostate'[wobj'[v]] # "None"
  <2>1. CASE v = w
    <3>1. pc[w] = "put_activate" /\ wobj'[w] = wobj[w]
      BY <1>1, <1>5, <2>1 DEF Flow, Labels, At
    <3> QED
      BY <1>2, <2>1, <3>1
  <2>2. CASE v # w
    <3>1. pc[v] = "put_commit" /\ wobj'[v] = wobj[v] /\ wobj[v] \in Oids
      BY <1>1, <1>5, <2>2 DEF At, Alone, TypeOK
    <3>2. ostate[wobj[v]] # "None" /\ ostate[wobj[v]] # "fresh"
      BY <1>1, <3>1 DEF NoneLeft, PutsOwn, At, Putting
    <3> QED
      BY <1>1, <3>1, <3>2 DEF Changes
  <2> QED
    BY <2>1, <2>2
<1> QED
  BY <1>3, <1>4, <1>5 DEF NoneLeft

\* The data of an object comes before the object is readable, and goes after.
LEMMA CalmKept ==
    ASSUME NEW w \in Workers, CalmStep(w)
    PROVE  DataKept'
<1> DEFINE Fresh == {"put_stats", "put_bucket", "put_part"}
           Holding == {"put_activate", "put_unpart", "drop_parts"}
<1>1. /\ TypeOK /\ PutsOwn /\ Alone(w) /\ DataKept /\ StatesFit /\ Flow(w) /\ pc[w] \in Labels
      /\ \A o \in Oids : Changes(w, o)
      /\ pc'[w] \notin {"idle", "put_stats", "drop_deact"} => wobj'[w] = wobj[w]
  BY CalmFacts
<1>2. /\ pc[w] = "put_activate" => ostate'[wobj[w]] = "Active"
      /\ pc'[w] = "put_stats" => wobj'[w] \in Oids /\ ostate[wobj'[w]] = "fresh"
  BY CalmSteps DEF CalmStep
<1>3. \/ UNCHANGED <<odata, hollow>> /\ pc[w] \notin {"put_part", "put_unpart", "drop_parts"}
      \/ /\ pc[w] = "put_part" /\ pc'[w] = "put_activate"
         /\ odata' = odata \cup {wobj[w]} /\ hollow' = hollow
      \/ pc[w] = "put_part" /\ odata' = odata /\ hollow' = hollow \cup {wobj[w]}
      \/ pc[w] = "put_part" /\ pc'[w] = "put_unacct" /\ UNCHANGED <<odata, hollow>>
      \/ /\ pc[w] \in {"put_unpart", "drop_parts"}
         /\ odata' = odata \ {wobj[w]} /\ hollow' = hollow
  BY <1>1, CalmData DEF CalmStep
<1>4. \A v \in At(Putting \cup Dropping) : wobj[v] \in Oids
  BY <1>1 DEF TypeOK, At, Putting, Dropping
<1>5. pc[w] = "put_part" => /\ wobj[w] \notin odata \cup hollow /\ ostate[wobj[w]] = "None"
                            /\ wobj[w] \in Oids
  BY <1>1, <1>4 DEF DataKept, PutsOwn, At, Adding, Putting
<1>6. pc[w] \in {"put_unpart", "drop_parts"} =>
         ostate[wobj[w]] # "Active" /\ ostate[wobj[w]] # "fresh" /\ wobj[w] \in Oids
  BY <1>1, <1>4 DEF StatesFit, PutsOwn, At, GivenUp, Dropping, Putting
<1>7. odata' \cap hollow' = {}
  BY <1>1, <1>3, <1>5 DEF DataKept
<1>8. ASSUME NEW o \in Live' PROVE o \in odata' \cup hollow'
  <2>1. o \in Oids /\ ostate'[o] = "Active"
    BY DEF Live
  <2>2. CASE ostate[o] = "Active"
    <3>1. o \in odata \cup hollow
      BY <1>1, <2>1, <2>2 DEF DataKept, Live
    <3> QED
      BY <1>3, <1>6, <2>2, <3>1
  <2>3. CASE ostate[o] # "Active"
    <3>1. o = wobj[w] /\ pc[w] = "put_activate"
      BY <1>1, <2>1, <2>3 DEF Changes
    <3>2. o \in odata \cup hollow
      BY <1>1, <3>1 DEF DataKept, At
    <3> QED
      BY <1>3, <3>1, <3>2
  <2> QED
    BY <2>2, <2>3
<1>9. ASSUME NEW v \in At({"put_activate"})' PROVE wobj'[v] \in odata' \cup hollow'
  <2>1. CASE v = w
    <3>1. pc[w] = "put_part" /\ pc'[w] = "put_activate" /\ wobj'[w] = wobj[w]
      BY <1>1, <1>9, <2>1 DEF Flow, Labels, At
    <3> QED
      BY <1>3, <2>1, <3>1
  <2>2. CASE v # w
    <3>1. pc[v] = "put_activate" /\ wobj'[v] = wobj[v] /\ wobj[v] \in odata \cup hollow
      BY <1>1, <1>9, <2>2 DEF At, Alone, DataKept
    <3>2. pc[w] \in {"put_unpart", "drop_parts"} => wobj[v] # wobj[w]
      <4>1. ostate[wobj[v]] = "None"
        BY <1>1, <3>1 DEF PutsOwn, At, Adding
      <4>2. pc[w] = "drop_parts" => ostate[wobj[w]] \in {"Inactive", "gone"}
        BY <1>1 DEF StatesFit, At, Dropping
      <4>3. pc[w] = "put_unpart" => wobj[v] # wobj[w]
        BY <1>1, <2>2, <3>1 DEF PutsOwn, At, Putting
      <4> QED
        BY <4>1, <4>2, <4>3
    <3> QED
      BY <1>3, <3>1, <3>2
  <2> QED
    BY <2>1, <2>2
<1>10. ASSUME NEW o \in odata'
       PROVE  ostate'[o] = "Active" \/ \E v \in At(Holding)' : wobj'[v] = o
  <2>1. CASE o \notin odata
    <3>1. pc'[w] = "put_activate" /\ o = wobj[w]
      BY <1>3, <1>10, <2>1
    <3> QED
      BY <1>1, <3>1 DEF At
  <2>2. CASE o \in odata
    <3>1. o \in Oids /\ ~(pc[w] \in {"put_unpart", "drop_parts"} /\ o = wobj[w])
      BY <1>1, <1>3, <1>10, <2>2 DEF TypeOK
    <3>2. CASE ostate[o] = "Active" /\ ostate'[o] # "Active"
      <4>1. /\ o = wobj[w]
            /\ \/ pc[w] = "put_remove"
               \/ pc[w] = "drop_deact" /\ pc'[w] = "drop_parts"
        BY <1>1, <3>1, <3>2 DEF Changes
      <4>2. pc[w] # "put_remove"
        BY <1>1, <3>2, <4>1 DEF StatesFit, At, GivenUp
      <4> QED
        BY <1>1, <4>1, <4>2 DEF At
    <3>3. ASSUME NEW v \in At(Holding), wobj[v] = o
          PROVE  ostate'[o] = "Active" \/ \E u \in At(Holding)' : wobj'[u] = o
      <4>1. CASE v # w
        BY <1>1, <3>3, <4>1 DEF At, Alone
      <4>2. CASE v = w
        BY <1>2, <3>1, <3>3, <4>2 DEF At
      <4> QED
        BY <4>1, <4>2
    <3> QED
      BY <1>1, <2>2, <3>2, <3>3 DEF DataKept
  <2> QED
    BY <2>1, <2>2
<1>11. ASSUME NEW o \in Oids, ostate'[o] = "fresh" PROVE o \notin odata' \cup hollow'
  <2>1. ostate[o] = "fresh"
    BY <1>1, <1>11 DEF Changes
  <2>2. o \notin odata \cup hollow
    BY <1>1, <2>1 DEF DataKept
  <2> QED
    BY <1>3, <1>5, <2>1, <2>2
<1>12. ASSUME NEW v \in At(Fresh)' PROVE wobj'[v] \notin odata' \cup hollow'
  <2>1. CASE v = w /\ pc'[w] = "put_stats"
    <3>1. wobj'[w] \notin odata \cup hollow /\ ostate[wobj'[w]] = "fresh"
      BY <1>1, <1>2, <2>1 DEF DataKept
    <3> QED
      BY <1>3, <1>5, <2>1, <3>1
  <2>2. CASE v = w /\ pc'[w] # "put_stats"
    <3>1. pc[w] \in {"put_stats", "put_bucket"} /\ wobj'[w] = wobj[w]
      BY <1>1, <1>12, <2>2 DEF Flow, Labels, At
    <3>2. wobj[w] \notin odata \cup hollow
      BY <1>1, <3>1 DEF DataKept, At
    <3> QED
      BY <1>3, <2>2, <3>1, <3>2
  <2>3. CASE v # w
    <3>1. v \in At(Fresh) /\ wobj'[v] = wobj[v] /\ wobj[v] \notin odata \cup hollow
      BY <1>1, <1>12, <2>3 DEF At, Alone, DataKept
    <3>2. pc[w] = "put_part" => wobj[v] # wobj[w]
      BY <1>1, <2>3, <3>1 DEF PutsOwn, At, Putting
    <3> QED
      BY <1>3, <3>1, <3>2
  <2> QED
    BY <2>1, <2>2, <2>3
<1> QED
  BY <1>7, <1>8, <1>9, <1>10, <1>11, <1>12 DEF DataKept

\* Every put is given a rover of its own.
LEMMA CalmRovers ==
    ASSUME NEW w \in Workers, CalmStep(w)
    PROVE  RoversApart'
<1>1. /\ TypeOK /\ PutsOwn /\ Alone(w) /\ RoversApart /\ Flow(w) /\ pc[w] \in Labels
      /\ \A o \in Oids : Changes(w, o)
      /\ rover \in Nat /\ orover \in [Oids -> Nat] /\ wrov \in [Workers -> Nat]
  BY CalmFacts DEF TypeOK
<1>2. /\ \A o \in Oids : orover'[o] = orover[o] \/ (pc[w] = "put_activate" /\ o = wobj[w])
      /\ pc[w] = "put_activate" => orover'[wobj[w]] = wrov[w]
      /\ rover' = rover \/ (rover' = rover + 1 /\ pc[w] = "put_bucket")
      /\ pc[w] = "put_bucket" /\ pc'[w] = "put_part" => rover' = rover + 1 /\ wrov'[w] = rover + 1
      /\ pc[w] = "put_part" => wrov'[w] = wrov[w]
  BY <1>1, CalmData DEF CalmStep
<1>3. rover' \in Nat /\ rover <= rover'
  BY <1>1, <1>2
\* a readable object was so before, or was the object of a put that is charged
<1>4. ASSUME NEW o \in Live'
      PROVE  \/ o \in Live /\ orover'[o] = orover[o]
             \/ /\ pc[w] = "put_activate" /\ w \in At(Adding) /\ w \notin At(Adding)'
                /\ o = wobj[w] /\ orover'[o] = wrov[w]
  <2>1. o \in Oids /\ ostate'[o] = "Active"
    BY DEF Live
  <2>2. pc[w] = "put_activate" => ostate[wobj[w]] = "None"
    BY <1>1 DEF PutsOwn, At, Adding
  <2>3. CASE ostate[o] = "Active"
    BY <1>2, <2>1, <2>2, <2>3 DEF Live
  <2>4. CASE ostate[o] # "Active"
    <3>1. o = wobj[w] /\ pc[w] = "put_activate" /\ pc'[w] = "put_commit"
      BY <1>1, <2>1, <2>4 DEF Changes
    <3> QED
      BY <1>2, <3>1 DEF At, Adding
  <2> QED
    BY <2>3, <2>4
\* a put that is charged was so before, or has the newest rover
<1>5. ASSUME NEW v \in At(Adding)'
      PROVE  \/ v \in At(Adding) /\ wrov'[v] = wrov[v]
             \/ v = w /\ wrov'[v] = rover + 1 /\ rover' = rover + 1
  <2>1. CASE v = w
    <3>1. pc'[w] \in Adding
      BY <1>5, <2>1 DEF At
    <3>2. pc[w] \in {"put_bucket", "put_part"} /\ (pc[w] = "put_bucket" => pc'[w] = "put_part")
      BY <1>1, <3>1 DEF Flow, Labels, Adding
    <3> QED
      BY <1>2, <2>1, <3>2 DEF At, Adding
  <2>2. CASE v # w
    BY <1>1, <1>5, <2>2 DEF At, Alone
  <2> QED
    BY <2>1, <2>2
<1>6. \A o \in Live : orover[o] <= rover /\ orover[o] \in Nat
  BY <1>1 DEF RoversApart, Live
<1>7. \A v \in At(Adding) : wrov[v] <= rover /\ wrov[v] \in Nat
  BY <1>1 DEF RoversApart, At
<1>8. \A o \in Live' : orover'[o] <= rover'
  BY <1>1, <1>3, <1>4, <1>6, <1>7
<1>9. \A v \in At(Adding)' : wrov'[v] <= rover'
  BY <1>1, <1>3, <1>5, <1>7
<1>10. ASSUME NEW o \in Live', NEW p \in Live', orover'[o] = orover'[p] PROVE o = p
  BY <1>1, <1>4, <1>10 DEF RoversApart
<1>11. ASSUME NEW u \in At(Adding)', NEW v \in At(Adding)', wrov'[u] = wrov'[v] PROVE u = v
  BY <1>1, <1>5, <1>7, <1>11 DEF RoversApart
<1>12. ASSUME NEW v \in At(Adding)', NEW o \in Live' PROVE wrov'[v] # orover'[o]
  <2>1. CASE v \in At(Adding) /\ wrov'[v] = wrov[v]
    BY <1>1, <1>4, <2>1 DEF RoversApart
  <2>2. CASE v = w /\ wrov'[v] = rover + 1
    BY <1>1, <1>4, <1>6, <1>7, <2>2
  <2> QED
    BY <1>5, <2>1, <2>2
<1> QED
  BY <1>8, <1>9, <1>10, <1>11, <1>12 DEF RoversApart

\* A collection goes on until its list is empty.
LEMMA ListKept ==
    ASSUME TypeOK, NEW w \in Workers, Request(w) \/ Step(w) \/ GcStart(w), faults' = faults,
           pc[w] \in Dropping \cup {"drop_deact"}, NEW o \in wset[w]
    PROVE  /\ pc'[w] \in Dropping \cup {"drop_deact"}
           /\ (pc'[w] = "drop_deact" /\ wobj'[w] = o) \/ o \in wset'[w]
<1>1. /\ faults \in Nat /\ pc \in [Workers -> Labels] /\ wset \in [Workers -> SUBSET Oids]
      /\ wobj \in [Workers -> Oids \cup {Nil}]
  BY ObjectsAssumption DEF TypeOK
<1>2. ~DbFault
  BY <1>1 DEF DbFault
<1>3. ASSUME DropDone(w)
      PROVE  pc'[w] = "drop_deact" /\ (wobj'[w] = o \/ o \in wset'[w])
  BY <1>1, <1>3 DEF DropDone
<1>4. ASSUME NEW l, Goto(w, l) PROVE pc'[w] = l /\ o \in wset'[w]
  BY <1>1, <1>4 DEF Goto, locVars
<1>5. DropDeact(w) \/ DropParts(w) \/ DropBucket(w) \/ DropStats(w) \/ DropRemove(w)
  BY DEF Dropping, Request, PutBegin, CopyBegin, PutInsert, DelRequest, DelBucket, GcStart,
     Step, PutStats, PutUnstats, PutBucket, PutPart, PutActivate, PutCommit, PutUnpart,
     PutUnacct, Unacct, PutRemove, DelFind, BucketRemove
<1>6. ASSUME BucketAcct(w, -1, 0, 0), pc' = [pc EXCEPT ![w] = "drop_stats"]
      PROVE  pc'[w] = "drop_stats" /\ o \in wset'[w]
  BY <1>1, <1>6 DEF BucketAcct
<1>7. DropDone(w) \/ (pc'[w] \in Dropping /\ o \in wset'[w])
  BY <1>2, <1>4, <1>5, <1>6 DEF DropDeact, DropParts, DropBucket, Unacct, DropStats, DropRemove,
     Dropping
<1> QED
  BY <1>3, <1>7

\* The object a collection is started for is not older than the rest.
LEMMA Commits ==
    ASSUME TypeOK, NEW w \in Workers, Request(w) \/ Step(w) \/ GcStart(w), faults' = faults,
           pc[w] = "put_commit", bstate = "Active"
    PROVE  <<wobj[w], rover>> \in gcq'
<1>1. faults \in Nat
  BY ObjectsAssumption DEF TypeOK
<1>2. ~CommitFails(w)
  BY <1>1 DEF CommitFails, BucketAcctFails, DbFault
<1>3. PutCommit(w)
  BY DEF Request, PutBegin, CopyBegin, PutInsert, DelRequest, DelBucket, GcStart, Step, PutStats,
     PutUnstats, PutBucket, PutPart, PutActivate, PutUnpart, PutUnacct, Unacct, PutRemove,
     DelFind, BucketRemove, DropDeact, DropParts, DropBucket, DropStats, DropRemove
<1> QED
  BY <1>2, <1>3 DEF PutCommit, Committed

\* A collection that starts takes every older version on its list.
LEMMA Collects ==
    ASSUME TypeOK, NEW w \in Workers, Request(w) \/ Step(w) \/ GcStart(w), faults' = faults,
           NEW g \in gcq, g \notin gcq', NEW o \in Live, okey[g[1]] = okey[o], orover[o] < g[2]
    PROVE  pc'[w] = "drop_deact" /\ (wobj'[w] = o \/ o \in wset'[w])
<1>1. /\ faults \in Nat /\ pc \in [Workers -> Labels] /\ wset \in [Workers -> SUBSET Oids]
      /\ wobj \in [Workers -> Oids \cup {Nil}]
  BY ObjectsAssumption DEF TypeOK
<1>2. ~DbFault
  BY <1>1 DEF DbFault
<1>3. GcStart(w)
  <2>1. CASE Request(w)
    BY <2>1 DEF Request, PutBegin, CopyBegin, PutInsert, DelRequest, DelBucket
  <2>2. CASE PutCommit(w)
    BY <2>2 DEF PutCommit, Committed, CommitFails
  <2>3. CASE Step(w) /\ ~PutCommit(w)
    BY <2>3 DEF Step, PutStats, PutUnstats, PutBucket, PutPart, PutActivate, PutUnpart,
       PutUnacct, Unacct, PutRemove, DelFind, BucketRemove, DropDeact, DropParts, DropBucket,
       DropStats, DropRemove
  <2> QED
    BY <2>1, <2>2, <2>3
<1> DEFINE old(q) == {x \in LiveOf(okey[q[1]]) : orover[x] < q[2]}
<1>4. PICK q \in gcq : /\ gcq' = gcq \ {q}
                       /\ \/ /\ \E x \in Newest(old(q)) : /\ wobj' = [wobj EXCEPT ![w] = x]
                                                          /\ wset' = [wset EXCEPT ![w] = old(q) \ {x}]
                             /\ pc' = [pc EXCEPT ![w] = "drop_deact"]
                          \/ old(q) = {}
  BY <1>2, <1>3 DEF GcStart
<1>5. q = g
  BY <1>4
<1>6. o \in old(q)
  BY <1>5 DEF LiveOf
<1>7. \E x \in Newest(old(q)) : /\ wobj' = [wobj EXCEPT ![w] = x]
                                /\ wset' = [wset EXCEPT ![w] = old(q) \ {x}]
  BY <1>4, <1>6
<1> HIDE DEF old
<1> QED
  BY <1>1, <1>4, <1>6, <1>7

\* An older version stays on somebody's list until it is not readable.
LEMMA CalmDoomed ==
    ASSUME NEW w \in Workers, CalmStep(w)
    PROVE  OlderDoomed'
<1>1. /\ TypeOK /\ PutsOwn /\ Alone(w) /\ StatesFit /\ RoversApart /\ OlderDoomed /\ Flow(w)
      /\ pc[w] \in Labels
      /\ bstate # "Active" => Live = {}
      /\ \A o \in Oids : Changes(w, o)
      /\ pc'[w] \notin {"idle", "put_stats", "drop_deact"} => wobj'[w] = wobj[w]
      /\ rover \in Nat /\ orover \in [Oids -> Nat]
  BY CalmFacts DEF TypeOK
<1>2. /\ \A o \in Oids : okey'[o] = okey[o] \/ ostate[o] = "fresh"
      /\ \A o \in Oids : orover'[o] = orover[o] \/ (pc[w] = "put_activate" /\ o = wobj[w])
  BY <1>1, CalmData DEF CalmStep
<1>3. ASSUME NEW o \in Live'
      PROVE  \/ o \in Live /\ okey'[o] = okey[o] /\ orover'[o] = orover[o]
             \/ pc'[w] = "put_commit" /\ wobj'[w] = o
  <2>1. o \in Oids /\ ostate'[o] = "Active"
    BY DEF Live
  <2>2. CASE ostate[o] = "Active"
    <3>1. pc[w] = "put_activate" => ostate[wobj[w]] = "None"
      BY <1>1 DEF PutsOwn, At, Adding
    <3> QED
      BY <1>2, <2>1, <2>2, <3>1 DEF Live
  <2>3. CASE ostate[o] # "Active"
    <3>1. o = wobj[w] /\ pc'[w] = "put_commit"
      BY <1>1, <2>1, <2>3 DEF Changes
    <3> QED
      BY <1>1, <3>1
  <2> QED
    BY <2>2, <2>3
<1>4. ASSUME NEW o \in Live, o \in Live', okey'[o] = okey[o], orover'[o] = orover[o], Doomed(o)
      PROVE  Doomed(o)'
  <2>1. ASSUME NEW g \in gcq, okey[g[1]] = okey[o], orover[o] < g[2] PROVE Doomed(o)'
    <3>1. CASE g \in gcq'
      <4>1. g[1] \in Oids /\ ostate[g[1]] # "fresh"
        BY <1>1 DEF StatesFit, TypeOK
      <4>2. okey'[g[1]] = okey[g[1]]
        BY <1>2, <4>1
      <4> QED
        BY <1>4, <2>1, <3>1, <4>2 DEF Doomed
    <3>2. CASE g \notin gcq'
      <4>1. pc'[w] = "drop_deact" /\ (wobj'[w] = o \/ o \in wset'[w])
        BY <1>1, <2>1, <3>2, Collects DEF CalmStep
      <4> QED
        BY <4>1 DEF Doomed, At
    <3> QED
      BY <3>1, <3>2
  <2>2. ASSUME NEW v \in At(Dropping \cup {"drop_deact"}),
               (pc[v] = "drop_deact" /\ wobj[v] = o) \/ o \in wset[v]
        PROVE  Doomed(o)'
    <3>1. CASE v # w
      BY <1>1, <2>2, <3>1 DEF At, Alone, Doomed
    <3>2. CASE v = w /\ o \in wset[w]
      <4>1. /\ pc'[w] \in Dropping \cup {"drop_deact"}
            /\ (pc'[w] = "drop_deact" /\ wobj'[w] = o) \/ o \in wset'[w]
        BY <1>1, <2>2, <3>2, ListKept DEF CalmStep, At
      <4> QED
        BY <4>1 DEF Doomed, At
    <3>3. CASE v = w /\ pc[w] = "drop_deact" /\ wobj[w] = o
      <4>1. ostate'[wobj[w]] # "Active"
        BY <3>3, CalmSteps DEF CalmStep
      <4> QED
        BY <1>4, <3>3, <4>1 DEF Live
    <3> QED
      BY <2>2, <3>1, <3>2, <3>3
  <2> QED
    BY <1>4, <2>1, <2>2 DEF Doomed
<1>5. ASSUME NEW o \in Live', NEW p \in Live', okey'[o] = okey'[p], orover'[o] < orover'[p]
      PROVE  Doomed(o)' \/ \E v \in At({"put_commit"})' : wobj'[v] \in {o, p}
  <2>1. CASE pc'[w] = "put_commit" /\ wobj'[w] \in {o, p}
    BY <2>1 DEF At
  <2>2. CASE ~(pc'[w] = "put_commit" /\ wobj'[w] \in {o, p})
    <3>1. /\ o \in Live /\ okey'[o] = okey[o] /\ orover'[o] = orover[o]
          /\ p \in Live /\ okey'[p] = okey[p] /\ orover'[p] = orover[p]
      BY <1>3, <2>2
    <3>2. CASE Doomed(o)
      BY <1>4, <3>1, <3>2
    <3>3. ASSUME NEW v \in At({"put_commit"}), wobj[v] \in {o, p}
          PROVE  Doomed(o)' \/ \E u \in At({"put_commit"})' : wobj'[u] \in {o, p}
      <4>1. CASE v # w
        BY <1>1, <3>3, <4>1 DEF At, Alone
      <4>2. CASE v = w
        <5>1. pc[w] = "put_commit" /\ bstate = "Active"
          BY <1>1, <3>1, <3>3, <4>2 DEF At
        <5>2. <<wobj[w], rover>> \in gcq'
          BY <1>1, <5>1, Commits DEF CalmStep
        <5>3. okey'[wobj[w]] = okey'[o] /\ orover'[o] < rover
          <6>1. orover[p] <= rover /\ orover[o] \in Nat /\ orover[p] \in Nat
            BY <1>1, <3>1 DEF RoversApart, Live
          <6>2. okey'[wobj[w]] = okey'[o]
            BY <1>5, <3>3, <4>2
          <6>3. orover[o] < orover[p]
            BY <1>5, <3>1
          <6> QED
            BY <1>1, <3>1, <6>1, <6>2, <6>3
        <5> QED
          BY <5>2, <5>3 DEF Doomed
      <4> QED
        BY <4>1, <4>2
    <3> QED
      BY <1>1, <1>5, <3>1, <3>2, <3>3 DEF OlderDoomed
  <2> QED
    BY <2>1, <2>2
<1> QED
  BY <1>5 DEF OlderDoomed

\* CalmInv is an invariant.
LEMMA CalmInvHolds == Spec => []CalmInv
<1>1. Init => CalmInv
  <2> SUFFICES ASSUME Init PROVE CalmInv
    OBVIOUS
  <2>1. /\ \A S : "idle" \notin S => At(S) = {}
        /\ Live = {} /\ gcq = {} /\ odata = {} /\ hollow = {} /\ ref = 0 /\ bstate = "Active"
        /\ \A o \in Oids : ostate[o] = "fresh"
    BY DEF Init, At, Live
  <2>2. nAt(Referring) = 0
    <3>1. At(Referring) = {}
      BY <2>1 DEF Referring
    <3> QED
      BY <3>1, FS_EmptySet DEF nAt
  <2>3. RefCounts /\ EndedEmpty
    BY <2>1, <2>2 DEF RefCounts, EndedEmpty
  <2>4. At(GivenUp) = {} /\ At(Dropping) = {} /\ At(Adding) = {}
    BY <2>1 DEF GivenUp, Dropping, Adding
  <2>5. StatesFit /\ NoneLeft /\ DataKept
    BY <2>1, <2>4 DEF StatesFit, NoneLeft, DataKept
  <2>6. RoversApart /\ OlderDoomed
    BY <2>1, <2>4 DEF RoversApart, OlderDoomed
  <2> QED
    BY <2>3, <2>5, <2>6 DEF CalmInv
<1>2. CountInv /\ CalmInv /\ [Next]_vars => CalmInv'
  <2> SUFFICES ASSUME CountInv, CalmInv, [Next]_vars, Calm'
               PROVE  /\ RefCounts' /\ EndedEmpty' /\ StatesFit' /\ DataKept' /\ NoneLeft'
                      /\ RoversApart' /\ OlderDoomed'
    BY DEF CalmInv
  <2>1. faults \in Nat /\ restarts \in Nat
    BY ObjectsAssumption DEF CountInv, TypeOK
  <2>2. CASE Next
    <3>1. ~Restart
      BY <2>1 DEF Restart, Calm
    <3>2. PICK w \in Workers : Request(w) \/ Step(w) \/ GcStart(w)
      BY <2>2, <3>1 DEF Next
    <3>3. restarts' = restarts /\ (faults' = faults \/ faults' = faults + 1)
      BY <3>2 DEF Request, PutBegin, CopyBegin, PutInsert, DelRequest, DelBucket, GcStart, Step,
         PutStats, PutUnstats, PutBucket, PutPart, PutActivate, PutCommit, CommitFails,
         PutUnpart, PutUnacct, Unacct, PutRemove, DelFind, BucketRemove, DropDeact, DropParts,
         DropBucket, DropStats, DropRemove, BucketAcctFails, DbOk, DbFault
    <3>4. CalmStep(w)
      BY <2>1, <3>2, <3>3 DEF CalmStep, Calm
    <3> QED
      BY <3>4, CalmRefs, CalmEnded, CalmStates, CalmKept, CalmNone, CalmRovers, CalmDoomed
  <2>3. CASE UNCHANGED vars
    <3>1. UNCHANGED <<bstate, ref, rover, ostate, okey, orover, odata, gcq, pc, wobj, wrov, wset, hollow,
                      faults, restarts>>
      BY <2>3 DEF vars, bktVars, objVars, locVars, histVars
    <3>2. Calm
      BY <3>1 DEF Calm
    <3>3. /\ RefCounts /\ EndedEmpty /\ StatesFit /\ DataKept /\ NoneLeft
          /\ RoversApart /\ OlderDoomed
      BY <3>2 DEF CalmInv
    <3>4. RefCounts' /\ EndedEmpty' /\ StatesFit' /\ NoneLeft'
      BY <3>1, <3>3 DEF RefCounts, nAt, EndedEmpty, StatesFit, NoneLeft, At
    <3>5. DataKept' /\ RoversApart'
      BY <3>1, <3>3 DEF DataKept, RoversApart, Live, At
    <3>6. OlderDoomed'
      BY <3>1, <3>3 DEF OlderDoomed, Doomed, Live, At
    <3> QED
      BY <3>4, <3>5, <3>6
  <2> QED
    BY <2>2, <2>3
<1> QED
  BY <1>1, <1>2, CountInvHolds, PTL DEF Spec

\* Concurrent overwrites of a name leave one object, in whatever order they commit
\* and collect (Activate, gcOldVersions), while no database operation failed.
THEOREM OneVersion == Spec => []OneVersionAtRest
<1>1. CountInv /\ CalmInv => OneVersionAtRest
  <2> SUFFICES ASSUME CountInv, CalmInv, AtRest, faults = 0, restarts = 0, NEW k \in Keys
               PROVE  Cardinality(LiveOf(k)) <= 1
    BY DEF OneVersionAtRest
  <2>1. RoversApart /\ OlderDoomed
    BY DEF CalmInv, Calm
  <2>2. gcq = {} /\ \A S : "idle" \notin S => At(S) = {}
    BY DEF AtRest, At
  <2>3. At(Dropping \cup {"drop_deact"}) = {} /\ At({"put_commit"}) = {}
    BY <2>2 DEF Dropping
  <2>4. ASSUME NEW o \in LiveOf(k), NEW p \in LiveOf(k) PROVE ~(orover[o] < orover[p])
    BY <2>1, <2>2, <2>3, <2>4 DEF OlderDoomed, Doomed, LiveOf
  <2>5. ASSUME NEW o \in LiveOf(k), NEW p \in LiveOf(k) PROVE o = p
    <3>1. orover[o] \in Nat /\ orover[p] \in Nat
      BY DEF CountInv, TypeOK, LiveOf, Live
    <3> QED
      BY <2>1, <2>4, <3>1 DEF RoversApart, LiveOf
  <2>6. CASE LiveOf(k) = {}
    BY <2>6, FS_EmptySet
  <2>7. ASSUME NEW o \in LiveOf(k) PROVE Cardinality(LiveOf(k)) <= 1
    <3>1. LiveOf(k) = {o}
      BY <2>5
    <3>2. Cardinality({o}) = 1
      BY FS_Singleton
    <3> QED
      BY <3>1, <3>2
  <2> QED
    BY <2>6, <2>7
<1> QED
  BY <1>1, CountInvHolds, CalmInvHolds, PTL

\* What s3-fsck.go looks for holds once all is done and nothing failed: the counters
\* are the objects, the data is theirs, and nothing half-made is left.
THEOREM AlwaysFsckClean == Spec => []FsckClean
<1>1. CountInv /\ CalmInv => FsckClean
  <2> SUFFICES ASSUME CountInv, CalmInv, AtRest, faults = 0, restarts = 0
               PROVE  /\ cnt = nLive /\ ns = cnt
                      /\ bstate = "Active" => ref = 0
                      /\ odata = Live \ hollow
                      /\ \A o \in Oids : ostate[o] \notin {"None", "Inactive"}
    BY DEF FsckClean, nLive
  <2>1. /\ ns \in Int /\ cnt \in Int
        /\ NsCovers /\ BucketCovers /\ NsBounded /\ BucketBounded /\ BucketEnded
        /\ RefCounts /\ DataKept /\ NoneLeft
    BY DEF CountInv, TypeOK, CalmInv, Calm
  <2>2. \A S : "idle" \notin S => At(S) = {}
    BY DEF AtRest, At
  <2>3. /\ nAt(Admitted) = 0 /\ nAt(Returning) = 0 /\ nAt(Adding) = 0 /\ nAt(Undoing) = 0
        /\ nSure = nLive /\ nLive \in Nat
    BY IdleNumbers, Naturals DEF AtRest
  <2>4. Slack = 0
    <3>1. Cardinality(Workers) \in Nat
      BY ObjectsAssumption, FS_CardinalityType
    <3> QED
      BY <3>1 DEF Slack
  <2>5. cnt = nLive /\ ns = cnt
    BY <2>1, <2>3, <2>4 DEF NsCovers, BucketCovers, NsBounded, BucketBounded, BucketEnded
  <2>6. bstate = "Active" => ref = 0
    <3>1. At(Referring) = {}
      BY <2>2 DEF Referring
    <3>2. nAt(Referring) = 0
      BY <3>1, FS_EmptySet DEF nAt
    <3> QED
      BY <2>1, <3>2 DEF RefCounts
  <2>7. odata = Live \ hollow
    <3>1. \A o \in odata : ostate[o] = "Active"
      BY <2>1, <2>2 DEF DataKept
    <3>2. odata \subseteq Oids
      BY DEF CountInv, TypeOK
    <3> QED
      BY <2>1, <3>1, <3>2 DEF DataKept, Live
  <2>8. \A o \in Oids : ostate[o] \notin {"None", "Inactive"}
    <3>1. At(Putting \ {"put_commit"}) = {} /\ At(Dropping) = {}
      BY <2>2 DEF Putting, Dropping
    <3> QED
      BY <2>1, <3>1 DEF NoneLeft
  <2> QED
    BY <2>5, <2>6, <2>7, <2>8
<1> QED
  BY <1>1, CountInvHolds, CalmInvHolds, PTL
=============================================================================
