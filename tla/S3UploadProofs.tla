--------------------------- MODULE S3UploadProofs ---------------------------
(***************************************************************************)
(* The lock and the reference counter of an upload exclude each other for  *)
(* every number of goroutines, uploads, parts, database errors and         *)
(* restarts.  LockInv is inductive: most steps leave the two counters and  *)
(* the sets of holders alone (LEMMA QuietKeeps), the four operations of    *)
(* upload.go that touch them are taken one by one.                         *)
(*                                                                         *)
(* From the lock follows what a client relies on: KeptInv, which needs     *)
(* LockInv, gives that acknowledged parts are in the object made of them   *)
(* and that nothing but a restart changes the parts of such an object.     *)
(***************************************************************************)
EXTENDS S3Upload, FiniteSetTheorems, TLAPS

\* The goroutines that hold a reference are finitely many, now and next.
LEMMA HoldersFinite ==
    ASSUME NEW i
    PROVE  /\ IsFiniteSet(Holders(i)) /\ Cardinality(Holders(i)) \in Nat
           /\ IsFiniteSet(Holders(i)') /\ Cardinality(Holders(i)') \in Nat
<1>1. Holders(i) \in SUBSET Workers /\ Holders(i)' \in SUBSET Workers
  BY DEF Holders
<1> QED
  BY <1>1, FS_Subset, FS_CardinalityType, UploadAssumption

\* A goroutine with a reference (RefLabels) keeps the stored counter positive.
LEMMA HolderCounts ==
    ASSUME UpTypeOK, RefCovers, NEW w \in Workers, pc[w] \in RefLabels
    PROVE  wid[w] \in Ids /\ uref[wid[w]] \in Nat \ {0}
<1>1. wid[w] \in Ids
  BY DEF UpTypeOK, RefLabels
<1>2. w \in Holders(wid[w])
  BY DEF Holders
<1>3. Cardinality(Holders(wid[w])) # 0
  BY <1>2, HoldersFinite, FS_EmptySet
<1> QED
  BY <1>1, <1>3, HoldersFinite DEF RefCovers, UpTypeOK

-----------------------------------------------------------------------------
\* Every step of a request keeps the types; the counter stays a natural number
\* because only a holder decrements it.
LEMMA TypeStep ==
    ASSUME UpTypeOK, RefCovers, NEW w \in Workers, Step(w)
    PROVE  UpTypeOK'
<1> USE UploadAssumption DEF UpTypeOK, uplVars, partVars, objVars, histVars,
        Goto, Finish, Fail, DbFault, DbOk, Labels, RefLabels, LockLabels,
        FiniLabels, AbortLabels, DelLabels, UStates, PStates, OStates
<1>1. CASE PartRefInc(w)
  BY <1>1, SMTT(30) DEF PartRefInc
<1>2. CASE PartInsert(w)
  BY <1>2 DEF PartInsert
<1>3. CASE PartActivate(w)
  BY <1>3 DEF PartActivate
<1>4. CASE PartUndo(w)
  BY <1>4 DEF PartUndo
<1>5. CASE PartRefDec(w)
  <2>1. pc[w] \in RefLabels
    BY <1>5 DEF PartRefDec
  <2>2. wid[w] \in Ids /\ uref[wid[w]] - 1 \in Nat
    BY <2>1, HolderCounts
  <2> QED
    BY <1>5, <2>2 DEF PartRefDec
<1>6. CASE FiniLock(w)
  BY <1>6 DEF FiniLock, LockUpload
<1>7. CASE FiniResum(w)
  BY <1>7 DEF FiniResum, ActiveParts, PartsOf
<1>8. CASE FiniCreate(w)
  BY <1>8 DEF FiniCreate
<1>9. CASE FiniActivate(w)
  BY <1>9 DEF FiniActivate
<1>10. CASE FiniCommit(w)
  BY <1>10 DEF FiniCommit
<1>11. CASE FiniUndo(w)
  BY <1>11 DEF FiniUndo
<1>12. CASE UploadInact(w)
  BY <1>12 DEF UploadInact
<1>13. CASE UploadRemove(w)
  BY <1>13 DEF UploadRemove
<1>14. CASE UnlockUpload(w)
  BY <1>14 DEF UnlockUpload
<1>15. CASE AbortLock(w)
  BY <1>15 DEF AbortLock, LockUpload
<1>16. CASE AbortList(w)
  BY <1>16 DEF AbortList, ListParts, Stored, PartsOf
<1>17. CASE AbortDeact(w)
  BY <1>17 DEF AbortDeact, DeactPart
<1>18. CASE AbortDrop(w)
  BY <1>18 DEF AbortDrop, DropPart
<1>19. CASE DelDeact(w)
  BY <1>19 DEF DelDeact
<1>20. CASE DelList(w)
  BY <1>20, SMTT(30) DEF DelList, ListParts, ActiveParts, PartsOf
<1>21. CASE DelDeactPart(w)
  BY <1>21, SMTT(30) DEF DelDeactPart, DeactPart
<1>22. CASE DelDropPart(w)
  BY <1>22 DEF DelDropPart, DropPart
<1>23. CASE DelRemove(w)
  BY <1>23 DEF DelRemove
<1> QED
  BY <1>1, <1>2, <1>3, <1>4, <1>5, <1>6, <1>7, <1>8, <1>9, <1>10, <1>11, <1>12, <1>13,
     <1>14, <1>15, <1>16, <1>17, <1>18, <1>19, <1>20, <1>21, <1>22, <1>23 DEF Step

\* The remaining disjuncts of UpNext keep the types.
LEMMA TypeNext ==
    ASSUME UpTypeOK, RefCovers, [UpNext]_upVars
    PROVE  UpTypeOK'
<1> USE UploadAssumption DEF UpTypeOK, uplVars, partVars, objVars, histVars,
        Begin, Labels, RefLabels, LockLabels,
        FiniLabels, AbortLabels, DelLabels, UStates, PStates, OStates
<1>1. ASSUME NEW i \in Ids, UploadInit(i) PROVE UpTypeOK'
  BY <1>1 DEF UploadInit
<1>2. ASSUME NEW w \in Workers, Request(w) PROVE UpTypeOK'
  BY <1>2 DEF Request, PartFind, FiniFind, AbortFind, DelFind
<1>3. ASSUME NEW w \in Workers, Step(w) PROVE UpTypeOK'
  BY <1>3, TypeStep
<1>4. CASE Restart
  BY <1>4 DEF Restart
<1>5. CASE UNCHANGED upVars
  BY <1>5 DEF upVars
<1> QED
  BY <1>1, <1>2, <1>3, <1>4, <1>5 DEF UpNext

-----------------------------------------------------------------------------
\* What a step must do to leave the lock and the references as they are: the
\* counters stay, nobody gains or drops a reference, nobody gains the lock.
Quiet ==
    /\ uref' = uref
    /\ ulock' = ulock
    /\ \A v \in Workers :
          /\ pc'[v] \in RefLabels <=> pc[v] \in RefLabels
          /\ pc'[v] \in LockLabels => pc[v] \in LockLabels
          /\ pc'[v] \in RefLabels \cup LockLabels => wid'[v] = wid[v]

\* A quiet step keeps what LockInv says of the counters.
LEMMA QuietKeeps ==
    ASSUME RefCovers, LockedUnreferenced, LockHeld, Quiet
    PROVE  RefCovers' /\ LockedUnreferenced' /\ LockHeld'
<1>1. ASSUME NEW i PROVE Holders(i)' = Holders(i)
  BY DEF Quiet, Holders
<1>2. RefCovers'
  BY <1>1 DEF RefCovers, Quiet
<1>3. LockedUnreferenced'
  BY DEF LockedUnreferenced, Quiet
<1>4. LockHeld'
  BY DEF LockHeld, Quiet
<1> QED
  BY <1>2, <1>3, <1>4

\* The steps of a request that touch neither counter are quiet.
LEMMA QuietSteps ==
    ASSUME UpTypeOK, NEW w \in Workers,
           \/ PartInsert(w) \/ PartActivate(w) \/ PartUndo(w) \/ FiniResum(w) \/ FiniCreate(w)
           \/ FiniActivate(w) \/ FiniCommit(w) \/ FiniUndo(w) \/ UploadInact(w) \/ UploadRemove(w)
           \/ AbortList(w) \/ AbortDeact(w) \/ AbortDrop(w) \/ DelDeact(w) \/ DelList(w)
           \/ DelDeactPart(w) \/ DelDropPart(w) \/ DelRemove(w)
    PROVE  Quiet
<1> USE DEF UpTypeOK, Quiet, uplVars, Goto, Finish, Fail, Labels, RefLabels, LockLabels,
        FiniLabels, AbortLabels, DelLabels
<1>1. CASE PartInsert(w)
  BY <1>1 DEF PartInsert
<1>2. CASE PartActivate(w)
  BY <1>2 DEF PartActivate
<1>3. CASE PartUndo(w)
  BY <1>3 DEF PartUndo
<1>4. CASE FiniResum(w)
  BY <1>4 DEF FiniResum
<1>5. CASE FiniCreate(w)
  BY <1>5 DEF FiniCreate
<1>6. CASE FiniActivate(w)
  BY <1>6 DEF FiniActivate
<1>7. CASE FiniCommit(w)
  BY <1>7 DEF FiniCommit
<1>8. CASE FiniUndo(w)
  BY <1>8 DEF FiniUndo
<1>9. CASE UploadInact(w)
  BY <1>9 DEF UploadInact
<1>10. CASE UploadRemove(w)
  BY <1>10 DEF UploadRemove
<1>11. CASE AbortList(w)
  BY <1>11 DEF AbortList, ListParts
<1>12. CASE AbortDeact(w)
  BY <1>12 DEF AbortDeact, DeactPart
<1>13. CASE AbortDrop(w)
  BY <1>13 DEF AbortDrop, DropPart
<1>14. CASE DelDeact(w)
  BY <1>14 DEF DelDeact
<1>15. CASE DelList(w)
  BY <1>15 DEF DelList, ListParts
<1>16. CASE DelDeactPart(w)
  BY <1>16 DEF DelDeactPart, DeactPart
<1>17. CASE DelDropPart(w)
  BY <1>17 DEF DelDropPart, DropPart
<1>18. CASE DelRemove(w)
  BY <1>18 DEF DelRemove
<1> QED
  BY <1>1, <1>2, <1>3, <1>4, <1>5, <1>6, <1>7, <1>8, <1>9, <1>10, <1>11, <1>12, <1>13,
     <1>14, <1>15, <1>16, <1>17, <1>18

-----------------------------------------------------------------------------
\* dbRefInc adds one holder and one to the counter, on an unlocked upload.
LEMMA RefIncKeeps ==
    ASSUME LockInv, NEW w \in Workers, PartRefInc(w)
    PROVE  RefCovers' /\ LockedUnreferenced' /\ LockHeld'
<1> USE DEF LockInv
<1>1. wid[w] \in Ids /\ pc[w] = "part_refinc"
  BY DEF PartRefInc, UpTypeOK
<1>2. CASE Quiet
  BY <1>2, QuietKeeps
<1>3. CASE ~Quiet
  <2>1. /\ ulock[wid[w]] = 0 /\ ulock' = ulock /\ wid' = wid
        /\ uref' = [uref EXCEPT ![wid[w]] = @ + 1]
        /\ pc' = [pc EXCEPT ![w] = "part_insert"]
    BY <1>1, <1>3 DEF PartRefInc, Quiet, Goto, Finish, UpTypeOK, RefLabels, LockLabels,
       FiniLabels, AbortLabels
  <2>2. ASSUME NEW i \in Ids PROVE Cardinality(Holders(i)') <= uref'[i]
    <3>1. CASE i = wid[w]
      <4>1. Holders(i)' = Holders(i) \cup {w}
        BY <1>1, <2>1, <3>1 DEF Holders, UpTypeOK, RefLabels
      <4>2. w \notin Holders(i)
        BY <1>1 DEF Holders, RefLabels
      <4>3. Cardinality(Holders(i)') = Cardinality(Holders(i)) + 1
        BY <4>1, <4>2, HoldersFinite, FS_AddElement
      <4>4. uref'[i] = uref[i] + 1
        BY <2>1, <3>1 DEF UpTypeOK
      <4> QED
        BY <4>3, <4>4, HoldersFinite DEF RefCovers, UpTypeOK
    <3>2. CASE i # wid[w]
      <4>1. Holders(i)' = Holders(i)
        BY <1>1, <2>1, <3>2 DEF Holders, UpTypeOK, RefLabels
      <4> QED
        BY <2>1, <3>2, <4>1 DEF RefCovers, UpTypeOK
    <3> QED
      BY <3>1, <3>2
  <2>3. LockedUnreferenced'
    BY <2>1 DEF LockedUnreferenced, UpTypeOK
  <2>4. LockHeld'
    BY <2>1 DEF LockHeld, UpTypeOK, LockLabels, FiniLabels, AbortLabels
  <2> QED
    BY <2>2, <2>3, <2>4 DEF RefCovers
<1> QED
  BY <1>2, <1>3

\* dbRefDec takes one holder away and at most one from the counter.
LEMMA RefDecKeeps ==
    ASSUME LockInv, NEW w \in Workers, PartRefDec(w)
    PROVE  RefCovers' /\ LockedUnreferenced' /\ LockHeld'
<1> USE DEF LockInv
<1>1. /\ pc[w] \in {"refdec_ok", "refdec_err"} /\ pc[w] \in RefLabels
      /\ pc' = [pc EXCEPT ![w] = "idle"]
      /\ wid' = [wid EXCEPT ![w] = Nil]
      /\ ulock' = ulock
      /\ \/ uref' = uref
         \/ uref' = [uref EXCEPT ![wid[w]] = @ - 1] /\ ulock[wid[w]] = 0
  BY DEF PartRefDec, Finish, RefLabels
<1>2. wid[w] \in Ids /\ uref[wid[w]] \in Nat \ {0}
  BY <1>1, HolderCounts
<1>3. ASSUME NEW i \in Ids PROVE Cardinality(Holders(i)') <= uref'[i]
  <2>1. CASE i = wid[w]
    <3>1. Holders(i)' = Holders(i) \ {w}
      BY <1>1, <2>1 DEF Holders, UpTypeOK, RefLabels
    <3>2. w \in Holders(i)
      BY <1>1, <2>1 DEF Holders
    <3>3. Cardinality(Holders(i)') = Cardinality(Holders(i)) - 1
      BY <3>1, <3>2, HoldersFinite, FS_RemoveElement
    <3>4. uref'[i] >= uref[i] - 1 /\ uref'[i] \in Int
      BY <1>1, <1>2, <2>1 DEF UpTypeOK
    <3> QED
      BY <1>2, <2>1, <3>3, <3>4, HoldersFinite DEF RefCovers, UpTypeOK
  <2>2. CASE i # wid[w]
    <3>1. Holders(i)' = Holders(i)
      BY <1>1, <2>2 DEF Holders, UpTypeOK, RefLabels
    <3>2. uref'[i] = uref[i]
      BY <1>1, <2>2 DEF UpTypeOK
    <3> QED
      BY <3>1, <3>2 DEF RefCovers
  <2> QED
    BY <2>1, <2>2
<1>4. LockedUnreferenced'
  BY <1>1, <1>2 DEF LockedUnreferenced, UpTypeOK
<1>5. LockHeld'
  BY <1>1 DEF LockHeld, UpTypeOK, LockLabels, FiniLabels, AbortLabels
<1> QED
  BY <1>3, <1>4, <1>5 DEF RefCovers

\* dbLock succeeds only on an unlocked upload without references.
LEMMA LockKeeps ==
    ASSUME LockInv, NEW w \in Workers, FiniLock(w) \/ AbortLock(w)
    PROVE  RefCovers' /\ LockedUnreferenced' /\ LockHeld'
<1> USE DEF LockInv
<1>1. PICK l \in {"fini_lock", "abort_lock"}, to \in {"fini_resum", "abort_inact"} :
        LockUpload(w, l, to)
  BY DEF FiniLock, AbortLock
<1>2. wid[w] \in Ids /\ pc[w] = l
  BY <1>1 DEF LockUpload, UpTypeOK
<1>3. CASE Quiet
  BY <1>3, QuietKeeps
<1>4. CASE ~Quiet
  <2>1. /\ ulock[wid[w]] = 0 /\ uref[wid[w]] = 0 /\ uref' = uref /\ wid' = wid
        /\ ulock' = [ulock EXCEPT ![wid[w]] = @ + 1]
        /\ pc' = [pc EXCEPT ![w] = to]
    BY <1>1, <1>2, <1>4 DEF LockUpload, Quiet, Goto, Finish, UpTypeOK, RefLabels,
       LockLabels, FiniLabels, AbortLabels
  <2>2. ASSUME NEW i PROVE Holders(i)' = Holders(i)
    BY <1>2, <2>1 DEF Holders, UpTypeOK, RefLabels
  <2>3. RefCovers'
    BY <2>1, <2>2 DEF RefCovers
  <2>4. LockedUnreferenced'
    BY <2>1 DEF LockedUnreferenced, UpTypeOK
  <2>5. LockHeld'
    BY <1>2, <2>1 DEF LockHeld, UpTypeOK, LockLabels, FiniLabels, AbortLabels
  <2> QED
    BY <2>3, <2>4, <2>5
<1> QED
  BY <1>3, <1>4

\* dbUnlock is called by the one goroutine that holds the lock.
LEMMA UnlockKeeps ==
    ASSUME LockInv, NEW w \in Workers, UnlockUpload(w)
    PROVE  RefCovers' /\ LockedUnreferenced' /\ LockHeld'
<1> USE DEF LockInv
<1>1. /\ pc[w] = "unlock" /\ wid[w] \in Ids
      /\ pc' = [pc EXCEPT ![w] = "idle"]
      /\ wid' = [wid EXCEPT ![w] = Nil]
      /\ uref' = uref
      /\ ulock' = ulock \/ ulock' = [ulock EXCEPT ![wid[w]] = 0]
  BY DEF UnlockUpload, Finish, UpTypeOK
<1>2. ASSUME NEW i PROVE Holders(i)' = Holders(i)
  BY <1>1 DEF Holders, UpTypeOK, RefLabels
<1>3. RefCovers'
  BY <1>1, <1>2 DEF RefCovers
<1>4. LockedUnreferenced'
  BY <1>1 DEF LockedUnreferenced, UpTypeOK
<1>5. LockHeld'
  BY <1>1 DEF LockHeld, UpTypeOK, LockLabels, FiniLabels, AbortLabels
<1> QED
  BY <1>3, <1>4, <1>5

-----------------------------------------------------------------------------
\* LockInv holds before the first request.
LEMMA LockInvInit == UpInit => LockInv
<1> SUFFICES ASSUME UpInit PROVE LockInv
  OBVIOUS
<1>1. UpTypeOK
  BY UploadAssumption DEF UpInit, UpTypeOK, UStates, PStates, OStates, Labels
<1>2. ASSUME NEW i PROVE Holders(i) = {}
  BY DEF UpInit, Holders, RefLabels
<1>3. RefCovers
  <2>1. ASSUME NEW i PROVE Cardinality(Holders(i)) = 0
    BY <1>2, FS_EmptySet
  <2> QED
    BY <1>2, <2>1, FS_EmptySet DEF RefCovers, UpInit
<1>4. LockedUnreferenced /\ LockHeld
  BY DEF UpInit, LockedUnreferenced, LockHeld, LockLabels, FiniLabels, AbortLabels
<1> QED
  BY <1>1, <1>3, <1>4 DEF LockInv

\* LockInv is inductive.
LEMMA LockInvNext == LockInv /\ [UpNext]_upVars => LockInv'
<1> SUFFICES ASSUME LockInv, [UpNext]_upVars PROVE LockInv'
  OBVIOUS
<1> USE DEF LockInv
<1>1. UpTypeOK'
  BY TypeNext
<1>2. ASSUME NEW i \in Ids, UploadInit(i) PROVE Quiet
  BY <1>2 DEF UploadInit, Quiet
<1>3. ASSUME NEW w \in Workers, Request(w) PROVE Quiet
  BY <1>3 DEF Request, PartFind, FiniFind, AbortFind, DelFind, Begin, Quiet, uplVars,
     UpTypeOK, RefLabels, LockLabels, FiniLabels, AbortLabels
<1>4. ASSUME NEW w \in Workers, Step(w)
      PROVE  RefCovers' /\ LockedUnreferenced' /\ LockHeld'
  BY <1>4, QuietSteps, QuietKeeps, RefIncKeeps, RefDecKeeps, LockKeeps, UnlockKeeps DEF Step
<1>5. ASSUME Restart PROVE RefCovers' /\ LockedUnreferenced' /\ LockHeld'
  <2>1. ASSUME NEW i PROVE Holders(i)' = {}
    BY <1>5 DEF Restart, Holders, RefLabels
  <2>2. RefCovers'
    <3>1. uref' = uref
      BY <1>5 DEF Restart
    <3>2. ASSUME NEW i \in Ids PROVE Cardinality(Holders(i)') = 0
      BY <2>1, FS_EmptySet
    <3> QED
      BY <3>1, <3>2 DEF RefCovers, UpTypeOK
  <2>3. LockedUnreferenced' /\ LockHeld'
    BY <1>5 DEF Restart, LockedUnreferenced, LockHeld, LockLabels, FiniLabels, AbortLabels
  <2> QED
    BY <2>2, <2>3
<1>6. ASSUME UNCHANGED upVars PROVE Quiet
  BY <1>6 DEF upVars, uplVars, Quiet
<1> QED
  BY <1>1, <1>2, <1>3, <1>4, <1>5, <1>6, QuietKeeps DEF UpNext

\* While LockInv holds, the lock of upload.go's dbLock is exclusive.
LEMMA LockInvExcludes == LockInv => LockExclusive
<1> SUFFICES ASSUME LockInv, NEW i \in Ids, NEW w \in Lockers(i)
             PROVE  Lockers(i) = {w} /\ Holders(i) = {}
  BY DEF LockExclusive
<1>1. ulock[i] = 1 /\ Lockers(i) = {w}
  BY DEF LockInv, LockHeld, Lockers
<1>2. Cardinality(Holders(i)) = 0
  BY <1>1, HoldersFinite DEF LockInv, LockedUnreferenced, RefCovers
<1> QED
  BY <1>1, <1>2, HoldersFinite, FS_EmptySet

\* The variables of the upload service keep their types; in particular the
\* reference counter kept in the database (upload.go dbRefInc, dbRefDec) never
\* drops below zero and the lock (dbLock, dbUnlock) is never taken twice.
THEOREM UploadTypes == UpSpec => []UpTypeOK
<1>1. LockInv => UpTypeOK
  BY DEF LockInv
<1> QED
  BY LockInvInit, LockInvNext, <1>1, PTL DEF UpSpec

\* For every number of goroutines, uploads, parts, database errors and restarts:
\* a completion or an abort that locked an upload (upload.go dbLock) excludes
\* every other one and every request storing a part of it.
THEOREM UploadLockExclusive == UpSpec => []LockExclusive
  BY LockInvInit, LockInvNext, LockInvExcludes, PTL DEF UpSpec
-----------------------------------------------------------------------------
(* The inductive invariant behind UploadKept and CommittedFrozen.  The     *)
(* object of an upload becomes visible before commitObj settles it, and    *)
(* from then on the lock is never given back: whoever still holds it is on *)
(* its way out, so that no part is stored, aborted or summed up again.     *)

\* goroutines that store a part they inserted
StoringLabels == {"part_activate", "part_undo", "refdec_ok"}
\* goroutines that go through the parts of their upload or object
LoopLabels    == {"abort_parts", "abort_drop", "del_parts", "del_drop"}
\* deletions that took the object out of sight
GoneLabels    == DelLabels \ {"del_deact"}
\* completions whose object was made visible
ShownLabels   == {"fini_commit", "fini_inact", "fini_remove"}

\* Part records belong to the upload they were inserted for (AddPart), and a
\* goroutine works on parts of its own upload only (PartsFind, DeletePart).
PartsOwned ==
    /\ \A p \in PIds : pstate[p] = "fresh" => pup[p] = Nil
    /\ \A w \in Workers :
          /\ pc[w] \in StoringLabels \cup {"abort_drop", "del_drop"}
                => wpart[w] \in PIds /\ pup[wpart[w]] = wid[w]
          /\ pc[w] \in LoopLabels => wset[w] \subseteq PartsOf(wid[w])

\* A part that is being stored is nobody else's and was not answered yet.
PartsApart ==
    /\ \A p \in acked : pup[p] \in Ids
    /\ \A w \in Workers : pc[w] \in StoringLabels =>
          /\ wpart[w] \notin acked
          /\ \A v \in Workers :
                pc[v] \in StoringLabels /\ wpart[v] = wpart[w] => v = w

\* What the record of the upload says while a goroutine works on it: parts are
\* stored only for uploads that were begun, a completion works on an Active one
\* and an abort deletes the parts of one that is Inactive.
UploadPhase ==
    /\ \A p \in PIds : pup[p] \in Ids => ustate[pup[p]] # "fresh"
    /\ \A w \in Workers :
          /\ pc[w] \in RefLabels \cup {"part_refinc"} => ustate[wid[w]] # "fresh"
          /\ pc[w] \in FiniLabels \ {"fini_inact", "fini_remove"} => ustate[wid[w]] = "Active"
          /\ pc[w] \in AbortLabels \ {"abort_inact"} => ustate[wid[w]] \in {"Inactive", "gone"}

\* a completion has made the object visible, and commitObj has not failed
Made(i) == i \in committed \/ \E w \in Workers : pc[w] = "fini_commit" /\ wid[w] = i

\* a deletion has taken the object out of sight and not ended yet
Deleting(i) == \E w \in Workers : pc[w] \in GoneLabels /\ wid[w] = i

\* An object that was ever visible, but for those taken back, has its upload
\* locked for ever; a deletion of it does not see it come back.
ShownIsLocked ==
    \A i \in Ids \ undone :
        /\ Made(i) \/ Deleting(i) \/ ostate[i] \in {"Active", "Inactive"} =>
              /\ ulock[i] = 1
              /\ \A w \in Workers : pc[w] \in LockLabels /\ wid[w] = i => pc[w] \in ShownLabels
        /\ Deleting(i) => ostate[i] # "Active"

\* The parts a completion summed up are the Active ones until the object is
\* visible, and make the object after that.
SumHolds ==
    /\ \A w \in Workers : pc[w] \in {"fini_create", "fini_activate"} /\ wid[w] \notin undone
          => wset[w] = ActiveParts(wid[w])
    /\ restarts = 0 =>
          \A i \in Ids \ undone : ostate[i] = "Active" => ActiveParts(i) = manifest[i]

\* the parts of an upload that were answered with an etag or are about to be
Answered(i) ==
    {p \in PartsOf(i) : p \in acked \/ \E w \in Workers : pc[w] = "refdec_ok" /\ wpart[w] = p}

\* Parts that were answered are Active until the object is made of them.
AnsweredKept ==
    restarts = 0 =>
        \A i \in Ids \ undone :
            /\ Deleting(i) \/ ostate[i] \in {"Active", "Inactive"} => Made(i)
            /\ Made(i) => Answered(i) \subseteq manifest[i]
            /\ ~Made(i) /\ ustate[i] = "Active" => Answered(i) \subseteq ActiveParts(i)

KeptInv ==
    /\ LockInv /\ PartsOwned /\ PartsApart /\ UploadPhase
    /\ ShownIsLocked /\ SumHolds /\ AnsweredKept

\* A step of a request keeps parts with their uploads: only AddPart gives a part an
\* owner, and lists are taken from the owner's parts.
LEMMA OwnedStep ==
    ASSUME KeptInv, UpTypeOK', NEW w \in Workers, Step(w)
    PROVE  PartsOwned'
<1> USE UploadAssumption DEF KeptInv, LockInv, UpTypeOK, uplVars, partVars, objVars, histVars,
        Goto, Finish, Fail, DbFault, DbOk, Labels, RefLabels, LockLabels, FiniLabels, AbortLabels,
        DelLabels, UStates, PStates, OStates, PartsOwned, StoringLabels, LoopLabels, PartsOf,
        Stored, ActiveParts
<1>1. CASE PartRefInc(w)
  BY <1>1 DEF PartRefInc
<1>2. CASE PartInsert(w)
  BY <1>2 DEF PartInsert
<1>3. CASE PartActivate(w)
  BY <1>3 DEF PartActivate
<1>4. CASE PartUndo(w)
  BY <1>4 DEF PartUndo
<1>5. CASE PartRefDec(w)
  BY <1>5 DEF PartRefDec
<1>6. CASE FiniLock(w)
  BY <1>6 DEF FiniLock, LockUpload
<1>7. CASE FiniResum(w)
  BY <1>7 DEF FiniResum
<1>8. CASE FiniCreate(w)
  BY <1>8 DEF FiniCreate
<1>9. CASE FiniActivate(w)
  BY <1>9 DEF FiniActivate
<1>10. CASE FiniCommit(w)
  BY <1>10 DEF FiniCommit
<1>11. CASE FiniUndo(w)
  BY <1>11 DEF FiniUndo
<1>12. CASE UploadInact(w)
  BY <1>12 DEF UploadInact
<1>13. CASE UploadRemove(w)
  BY <1>13 DEF UploadRemove
<1>14. CASE UnlockUpload(w)
  BY <1>14 DEF UnlockUpload
<1>15. CASE AbortLock(w)
  BY <1>15 DEF AbortLock, LockUpload
<1>16. CASE AbortList(w)
  BY <1>16 DEF AbortList, ListParts
<1>17. CASE AbortDeact(w)
  BY <1>17 DEF AbortDeact, DeactPart
<1>18. CASE AbortDrop(w)
  BY <1>18 DEF AbortDrop, DropPart
<1>19. CASE DelDeact(w)
  BY <1>19 DEF DelDeact
<1>20. CASE DelList(w)
  BY <1>20 DEF DelList, ListParts
<1>21. CASE DelDeactPart(w)
  BY <1>21 DEF DelDeactPart, DeactPart
<1>22. CASE DelDropPart(w)
  BY <1>22 DEF DelDropPart, DropPart
<1>23. CASE DelRemove(w)
  BY <1>23 DEF DelRemove
<1> QED
  BY <1>1, <1>2, <1>3, <1>4, <1>5, <1>6, <1>7, <1>8, <1>9, <1>10, <1>11, <1>12, <1>13,
     <1>14, <1>15, <1>16, <1>17, <1>18, <1>19, <1>20, <1>21, <1>22, <1>23 DEF Step

\* A step of a request stores a part under a fresh ObjID, so nobody else has it.
LEMMA ApartStep ==
    ASSUME KeptInv, UpTypeOK', NEW w \in Workers, Step(w)
    PROVE  PartsApart'
<1> USE UploadAssumption DEF KeptInv, LockInv, UpTypeOK, uplVars, partVars, objVars, histVars,
        Goto, Finish, Fail, DbFault, DbOk, Labels, RefLabels, LockLabels, FiniLabels, AbortLabels,
        DelLabels, UStates, PStates, OStates, PartsOwned, PartsApart, StoringLabels, LoopLabels,
        PartsOf, Stored, ActiveParts
<1>1. CASE PartRefInc(w)
  BY <1>1 DEF PartRefInc
<1>2. CASE PartInsert(w)
  BY <1>2 DEF PartInsert
<1>3. CASE PartActivate(w)
  BY <1>3 DEF PartActivate
<1>4. CASE PartUndo(w)
  BY <1>4 DEF PartUndo
<1>5. CASE PartRefDec(w)
  BY <1>5 DEF PartRefDec
<1>6. CASE FiniLock(w)
  BY <1>6 DEF FiniLock, LockUpload
<1>7. CASE FiniResum(w)
  BY <1>7 DEF FiniResum
<1>8. CASE FiniCreate(w)
  BY <1>8 DEF FiniCreate
<1>9. CASE FiniActivate(w)
  BY <1>9 DEF FiniActivate
<1>10. CASE FiniCommit(w)
  BY <1>10 DEF FiniCommit
<1>11. CASE FiniUndo(w)
  BY <1>11 DEF FiniUndo
<1>12. CASE UploadInact(w)
  BY <1>12 DEF UploadInact
<1>13. CASE UploadRemove(w)
  BY <1>13 DEF UploadRemove
<1>14. CASE UnlockUpload(w)
  BY <1>14 DEF UnlockUpload
<1>15. CASE AbortLock(w)
  BY <1>15 DEF AbortLock, LockUpload
<1>16. CASE AbortList(w)
  BY <1>16 DEF AbortList, ListParts
<1>17. CASE AbortDeact(w)
  BY <1>17 DEF AbortDeact, DeactPart
<1>18. CASE AbortDrop(w)
  BY <1>18 DEF AbortDrop, DropPart
<1>19. CASE DelDeact(w)
  BY <1>19 DEF DelDeact
<1>20. CASE DelList(w)
  BY <1>20 DEF DelList, ListParts
<1>21. CASE DelDeactPart(w)
  BY <1>21 DEF DelDeactPart, DeactPart
<1>22. CASE DelDropPart(w)
  BY <1>22 DEF DelDropPart, DropPart
<1>23. CASE DelRemove(w)
  BY <1>23 DEF DelRemove
<1> QED
  BY <1>1, <1>2, <1>3, <1>4, <1>5, <1>6, <1>7, <1>8, <1>9, <1>10, <1>11, <1>12, <1>13,
     <1>14, <1>15, <1>16, <1>17, <1>18, <1>19, <1>20, <1>21, <1>22, <1>23 DEF Step

\* Only the goroutine that holds the lock changes the state of an upload.
LEMMA PhaseStep ==
    ASSUME KeptInv, UpTypeOK', NEW w \in Workers, Step(w)
    PROVE  UploadPhase'
<1> USE UploadAssumption DEF KeptInv, LockInv, UpTypeOK, uplVars, partVars, objVars, histVars,
        Goto, Finish, Fail, DbFault, DbOk, Labels, RefLabels, LockLabels, FiniLabels, AbortLabels,
        DelLabels, UStates, PStates, OStates, PartsOwned, UploadPhase, LockHeld, StoringLabels,
        LoopLabels, PartsOf, Stored, ActiveParts
<1>1. CASE PartRefInc(w)
  BY <1>1 DEF PartRefInc
<1>2. CASE PartInsert(w)
  BY <1>2 DEF PartInsert
<1>3. CASE PartActivate(w)
  BY <1>3 DEF PartActivate
<1>4. CASE PartUndo(w)
  BY <1>4 DEF PartUndo
<1>5. CASE PartRefDec(w)
  BY <1>5 DEF PartRefDec
<1>6. CASE FiniLock(w)
  BY <1>6 DEF FiniLock, LockUpload
<1>7. CASE FiniResum(w)
  BY <1>7 DEF FiniResum
<1>8. CASE FiniCreate(w)
  BY <1>8 DEF FiniCreate
<1>9. CASE FiniActivate(w)
  BY <1>9 DEF FiniActivate
<1>10. CASE FiniCommit(w)
  BY <1>10 DEF FiniCommit
<1>11. CASE FiniUndo(w)
  BY <1>11 DEF FiniUndo
<1>12. CASE UploadInact(w)
  BY <1>12 DEF UploadInact
<1>13. CASE UploadRemove(w)
  BY <1>13 DEF UploadRemove
<1>14. CASE UnlockUpload(w)
  BY <1>14 DEF UnlockUpload
<1>15. CASE AbortLock(w)
  BY <1>15 DEF AbortLock, LockUpload
<1>16. CASE AbortList(w)
  BY <1>16 DEF AbortList, ListParts
<1>17. CASE AbortDeact(w)
  BY <1>17 DEF AbortDeact, DeactPart
<1>18. CASE AbortDrop(w)
  BY <1>18 DEF AbortDrop, DropPart
<1>19. CASE DelDeact(w)
  BY <1>19 DEF DelDeact
<1>20. CASE DelList(w)
  BY <1>20 DEF DelList, ListParts
<1>21. CASE DelDeactPart(w)
  BY <1>21 DEF DelDeactPart, DeactPart
<1>22. CASE DelDropPart(w)
  BY <1>22 DEF DelDropPart, DropPart
<1>23. CASE DelRemove(w)
  BY <1>23 DEF DelRemove
<1> QED
  BY <1>1, <1>2, <1>3, <1>4, <1>5, <1>6, <1>7, <1>8, <1>9, <1>10, <1>11, <1>12, <1>13,
     <1>14, <1>15, <1>16, <1>17, <1>18, <1>19, <1>20, <1>21, <1>22, <1>23 DEF Step


\* A goroutine that holds a reference is at an upload nobody has locked.
LEMMA HolderUnlocked ==
    ASSUME LockInv, NEW w \in Workers, pc[w] \in RefLabels
    PROVE  wid[w] \in Ids /\ ulock[wid[w]] # 1
  BY HolderCounts DEF LockInv, LockedUnreferenced

\* An object becomes visible under the lock, which is then never given back.
LEMMA ShownStep ==
    ASSUME KeptInv, UpTypeOK', NEW w \in Workers, Step(w)
    PROVE  ShownIsLocked'
<1> USE UploadAssumption DEF KeptInv, LockInv, UpTypeOK, uplVars, partVars, objVars, histVars,
        Goto, Finish, Fail, DbFault, DbOk, Labels, RefLabels, LockLabels, FiniLabels, AbortLabels,
        DelLabels, UStates, PStates, OStates, LockHeld, ShownIsLocked, ShownLabels, GoneLabels,
        Made, Deleting
<1>1. CASE PartRefInc(w)
  BY <1>1 DEF PartRefInc
<1>2. CASE PartInsert(w)
  BY <1>2, SMTT(30) DEF PartInsert
<1>3. CASE PartActivate(w)
  BY <1>3, SMTT(30) DEF PartActivate
<1>4. CASE PartUndo(w)
  BY <1>4 DEF PartUndo
<1>5. CASE PartRefDec(w)
  BY <1>5 DEF PartRefDec
<1>6. CASE FiniLock(w)
  BY <1>6 DEF FiniLock, LockUpload
<1>7. CASE FiniResum(w)
  BY <1>7 DEF FiniResum
<1>8. CASE FiniCreate(w)
  BY <1>8, SMTT(30) DEF FiniCreate
<1>9. CASE FiniActivate(w)
  BY <1>9 DEF FiniActivate
<1>10. CASE FiniCommit(w)
  BY <1>10 DEF FiniCommit
<1>11. CASE FiniUndo(w)
  BY <1>11 DEF FiniUndo
<1>12. CASE UploadInact(w)
  BY <1>12, SMTT(30) DEF UploadInact
<1>13. CASE UploadRemove(w)
  BY <1>13 DEF UploadRemove
<1>14. CASE UnlockUpload(w)
  BY <1>14 DEF UnlockUpload
<1>15. CASE AbortLock(w)
  BY <1>15 DEF AbortLock, LockUpload
<1>16. CASE AbortList(w)
  BY <1>16 DEF AbortList, ListParts
<1>17. CASE AbortDeact(w)
  BY <1>17 DEF AbortDeact, DeactPart
<1>18. CASE AbortDrop(w)
  BY <1>18 DEF AbortDrop, DropPart
<1>19. CASE DelDeact(w)
  BY <1>19 DEF DelDeact
<1>20. CASE DelList(w)
  BY <1>20, SMTT(30) DEF DelList, ListParts
<1>21. CASE DelDeactPart(w)
  BY <1>21, SMTT(30) DEF DelDeactPart, DeactPart
<1>22. CASE DelDropPart(w)
  BY <1>22, SMTT(30) DEF DelDropPart, DropPart
<1>23. CASE DelRemove(w)
  BY <1>23 DEF DelRemove
<1> QED
  BY <1>1, <1>2, <1>3, <1>4, <1>5, <1>6, <1>7, <1>8, <1>9, <1>10, <1>11, <1>12, <1>13,
     <1>14, <1>15, <1>16, <1>17, <1>18, <1>19, <1>20, <1>21, <1>22, <1>23 DEF Step

\* Nobody changes the parts of an upload between ResumParts and the answer.
LEMMA SumStep ==
    ASSUME KeptInv, UpTypeOK', NEW w \in Workers, Step(w)
    PROVE  SumHolds'
<1> USE UploadAssumption DEF KeptInv, LockInv, UpTypeOK, uplVars, partVars, objVars, histVars,
        Goto, Finish, Fail, DbFault, DbOk, Labels, RefLabels, LockLabels, FiniLabels, AbortLabels,
        DelLabels, UStates, PStates, OStates, LockHeld, PartsOwned, ShownIsLocked, SumHolds,
        ShownLabels, GoneLabels, StoringLabels, LoopLabels, Made, Deleting, PartsOf, ActiveParts
<1>1. CASE PartRefInc(w)
  BY <1>1 DEF PartRefInc
<1>2. CASE PartInsert(w)
  BY <1>2, SMTT(30) DEF PartInsert
<1>3. CASE PartActivate(w)
  BY <1>3, HolderUnlocked DEF PartActivate
<1>4. CASE PartUndo(w)
  BY <1>4, HolderUnlocked DEF PartUndo
<1>5. CASE PartRefDec(w)
  BY <1>5 DEF PartRefDec
<1>6. CASE FiniLock(w)
  BY <1>6 DEF FiniLock, LockUpload
<1>7. CASE FiniResum(w)
  BY <1>7 DEF FiniResum
<1>8. CASE FiniCreate(w)
  BY <1>8 DEF FiniCreate
<1>9. CASE FiniActivate(w)
  BY <1>9 DEF FiniActivate
<1>10. CASE FiniCommit(w)
  BY <1>10 DEF FiniCommit
<1>11. CASE FiniUndo(w)
  BY <1>11 DEF FiniUndo
<1>12. CASE UploadInact(w)
  BY <1>12 DEF UploadInact
<1>13. CASE UploadRemove(w)
  BY <1>13 DEF UploadRemove
<1>14. CASE UnlockUpload(w)
  BY <1>14 DEF UnlockUpload
<1>15. CASE AbortLock(w)
  BY <1>15 DEF AbortLock, LockUpload
<1>16. CASE AbortList(w)
  BY <1>16, SMTT(30) DEF AbortList, ListParts
<1>17. CASE AbortDeact(w)
  BY <1>17, SMTT(30) DEF AbortDeact, DeactPart
<1>18. CASE AbortDrop(w)
  BY <1>18 DEF AbortDrop, DropPart
<1>19. CASE DelDeact(w)
  BY <1>19, SMTT(30) DEF DelDeact
<1>20. CASE DelList(w)
  BY <1>20, SMTT(30) DEF DelList, ListParts
<1>21. CASE DelDeactPart(w)
  BY <1>21, SMTT(30) DEF DelDeactPart, DeactPart
<1>22. CASE DelDropPart(w)
  BY <1>22 DEF DelDropPart, DropPart
<1>23. CASE DelRemove(w)
  BY <1>23 DEF DelRemove
<1> QED
  BY <1>1, <1>2, <1>3, <1>4, <1>5, <1>6, <1>7, <1>8, <1>9, <1>10, <1>11, <1>12, <1>13,
     <1>14, <1>15, <1>16, <1>17, <1>18, <1>19, <1>20, <1>21, <1>22, <1>23 DEF Step

\* What a step must do to leave the answered parts where they are.
AnsweredQuiet ==
    /\ UNCHANGED <<manifest, restarts, undone>>
    /\ \A i \in Ids :
          /\ Answered(i)' = Answered(i)
          /\ ActiveParts(i)' = ActiveParts(i)
          /\ Made(i)' <=> Made(i)
          /\ Deleting(i)' \/ ostate'[i] \in {"Active", "Inactive"}
                => Deleting(i) \/ ostate[i] \in {"Active", "Inactive"}
          /\ ustate'[i] = "Active" => ustate[i] = "Active"

\* The steps that neither store a part, nor make an object visible, nor delete
\* one of its parts are quiet.
LEMMA AnsweredQuietSteps ==
    ASSUME KeptInv, NEW w \in Workers,
           \/ PartRefInc(w) \/ PartInsert(w) \/ FiniLock(w) \/ FiniResum(w) \/ FiniCreate(w)
           \/ FiniUndo(w) \/ UploadInact(w) \/ UploadRemove(w) \/ UnlockUpload(w)
           \/ AbortLock(w) \/ AbortList(w) \/ AbortDrop(w) \/ DelDeact(w) \/ DelList(w)
           \/ DelDropPart(w) \/ DelRemove(w)
    PROVE  AnsweredQuiet
<1> USE DEF KeptInv, LockInv, UpTypeOK, uplVars, partVars, objVars, histVars, Goto, Finish, Fail,
        RefLabels, LockLabels, FiniLabels, AbortLabels, DelLabels, GoneLabels,
        PartsOwned, Made, Deleting, Answered, PartsOf, ActiveParts, AnsweredQuiet
<1>1. CASE PartRefInc(w)
  BY <1>1, SMTT(30) DEF PartRefInc
<1>2. CASE PartInsert(w)
  BY <1>2, UploadAssumption DEF PartInsert, PartsApart, StoringLabels
<1>3. CASE FiniLock(w)
  BY <1>3 DEF FiniLock, LockUpload
<1>4. CASE FiniResum(w)
  BY <1>4 DEF FiniResum
<1>5. CASE FiniCreate(w)
  BY <1>5 DEF FiniCreate
<1>6. CASE FiniUndo(w)
  BY <1>6 DEF FiniUndo
<1>7. CASE UploadInact(w)
  BY <1>7 DEF UploadInact
<1>8. CASE UploadRemove(w)
  BY <1>8 DEF UploadRemove
<1>9. CASE UnlockUpload(w)
  BY <1>9 DEF UnlockUpload
<1>10. CASE AbortLock(w)
  BY <1>10 DEF AbortLock, LockUpload
<1>11. CASE AbortList(w)
  BY <1>11 DEF AbortList, ListParts
<1>12. CASE AbortDrop(w)
  BY <1>12 DEF AbortDrop, DropPart
<1>13. CASE DelDeact(w)
  BY <1>13 DEF DelDeact
<1>14. CASE DelList(w)
  BY <1>14 DEF DelList, ListParts
<1>15. CASE DelDropPart(w)
  BY <1>15 DEF DelDropPart, DropPart
<1>16. CASE DelRemove(w)
  BY <1>16 DEF DelRemove
<1> QED
  BY <1>1, <1>2, <1>3, <1>4, <1>5, <1>6, <1>7, <1>8, <1>9, <1>10, <1>11, <1>12, <1>13, <1>14, <1>15, <1>16

\* A step of a request loses no answered part.
LEMMA AnsweredStep ==
    ASSUME KeptInv, UpTypeOK', NEW w \in Workers, Step(w)
    PROVE  AnsweredKept'
<1> USE UploadAssumption DEF KeptInv, LockInv, UpTypeOK, uplVars, partVars, objVars, histVars,
        Goto, Finish, Fail, DbFault, DbOk, Labels, RefLabels, LockLabels, FiniLabels, AbortLabels,
        DelLabels, UStates, PStates, OStates, LockHeld, PartsOwned, PartsApart, UploadPhase,
        ShownIsLocked, SumHolds, AnsweredKept, ShownLabels, GoneLabels, StoringLabels, LoopLabels,
        Made, Deleting, Answered, PartsOf, ActiveParts
<1>1. CASE PartActivate(w)
  <2>1. \A i \in Ids : (Made(i)' <=> Made(i)) /\ (Deleting(i)' => Deleting(i))
    BY <1>1 DEF PartActivate
  <2>2. UNCHANGED <<ustate, ostate, manifest, restarts, undone>>
    BY <1>1 DEF PartActivate
  <2>3. wid[w] \in Ids /\ ulock[wid[w]] # 1 /\ pup[wpart[w]] = wid[w]
    BY <1>1, HolderUnlocked DEF PartActivate
  <2>4. \A i \in Ids \ undone : Made(i) => ulock[i] = 1
    OBVIOUS
  <2>5. ASSUME NEW i \in Ids
        PROVE  /\ Answered(i)' \subseteq Answered(i) \cup (ActiveParts(i)' \cap {wpart[w]})
               /\ ActiveParts(i) \subseteq ActiveParts(i)'
               /\ i # wid[w] => Answered(i)' = Answered(i)
    BY <1>1, <2>3 DEF PartActivate
  <2> HIDE DEF Answered, ActiveParts, Made, Deleting
  <2> QED
    BY <2>1, <2>2, <2>3, <2>4, <2>5
<1>2. CASE PartUndo(w)
  BY <1>2 DEF PartUndo
<1>3. CASE PartRefDec(w)
  BY <1>3 DEF PartRefDec
<1>4. CASE FiniActivate(w)
  BY <1>4, SMTT(30) DEF FiniActivate
<1>5. CASE FiniCommit(w)
  BY <1>5 DEF FiniCommit
<1>6. CASE AbortDeact(w)
  BY <1>6, SMTT(30) DEF AbortDeact, DeactPart
<1>7. CASE DelDeactPart(w)
  BY <1>7, SMTT(30) DEF DelDeactPart, DeactPart
<1>8. ASSUME AnsweredQuiet PROVE AnsweredKept'
  <2> HIDE DEF Answered, ActiveParts, Made, Deleting
  <2> QED
    BY <1>8 DEF AnsweredQuiet
<1> QED
  BY <1>1, <1>2, <1>3, <1>4, <1>5, <1>6, <1>7, <1>8, AnsweredQuietSteps DEF Step

-----------------------------------------------------------------------------
\* A request that only looked its upload or object up changes no part, upload or
\* object, and works on nothing yet.
LEMMA KeptRequest ==
    ASSUME KeptInv, NEW w \in Workers, Request(w)
    PROVE  /\ PartsOwned' /\ PartsApart' /\ UploadPhase'
           /\ ShownIsLocked' /\ SumHolds' /\ AnsweredKept'
<1>1. PICK i \in Ids, l \in {"part_refinc", "fini_lock", "abort_lock", "del_deact"} :
        /\ Begin(w, l, i)
        /\ l = "part_refinc" => ustate[i] = "Active"
        /\ UNCHANGED <<uplVars, partVars, objVars, histVars, restarts>>
  BY DEF Request, PartFind, FiniFind, AbortFind, DelFind
<1> USE <1>1 DEF KeptInv, LockInv, UpTypeOK, uplVars, partVars, objVars, histVars, Begin,
        Labels, RefLabels, LockLabels, FiniLabels, AbortLabels, DelLabels
<1>2. PartsOwned'
  BY DEF PartsOwned, StoringLabels, LoopLabels, PartsOf
<1>3. PartsApart'
  BY DEF PartsApart, StoringLabels
<1>4. UploadPhase'
  BY DEF UploadPhase
<1>5. \A j \in Ids : (Made(j)' <=> Made(j)) /\ (Deleting(j)' <=> Deleting(j))
  BY DEF Made, Deleting, GoneLabels
<1>6. \A j \in Ids : Answered(j)' = Answered(j) /\ ActiveParts(j)' = ActiveParts(j)
  BY DEF Answered, ActiveParts, PartsOf
<1>7. ShownIsLocked'
  BY <1>5 DEF ShownIsLocked
<1>8. SumHolds'
  BY <1>6 DEF SumHolds
<1>9. AnsweredKept'
  BY <1>5, <1>6 DEF AnsweredKept
<1> QED
  BY <1>2, <1>3, <1>4, <1>7, <1>8, <1>9

\* s3UploadInit begins an upload that has no parts yet.
LEMMA KeptUploadInit ==
    ASSUME KeptInv, NEW i \in Ids, UploadInit(i)
    PROVE  /\ PartsOwned' /\ PartsApart' /\ UploadPhase'
           /\ ShownIsLocked' /\ SumHolds' /\ AnsweredKept'
<1> USE DEF KeptInv, LockInv, UpTypeOK, partVars, objVars, histVars, UploadInit
<1>1. PartsOwned' /\ PartsApart' /\ ShownIsLocked' /\ SumHolds'
  BY DEF PartsOwned, PartsApart, ShownIsLocked, SumHolds, PartsOf, ActiveParts, Made, Deleting
<1>2. UploadPhase'
  BY DEF UploadPhase, UStates, RefLabels, FiniLabels, AbortLabels, Labels
<1>3. Answered(i) = {}
  BY DEF UploadPhase, Answered, PartsOf
<1>4. \A j \in Ids : Answered(j)' = Answered(j) /\ ActiveParts(j)' = ActiveParts(j)
  BY DEF Answered, ActiveParts, PartsOf
<1>5. \A j \in Ids : (Made(j)' <=> Made(j)) /\ (Deleting(j)' <=> Deleting(j))
  BY DEF Made, Deleting
<1>6. AnsweredKept'
  BY <1>3, <1>4, <1>5 DEF AnsweredKept
<1> QED
  BY <1>1, <1>2, <1>6

\* A restart ends every goroutine and keeps the locks; what it says about parts
\* that were answered ends with it.
LEMMA KeptRestart ==
    ASSUME KeptInv, Restart
    PROVE  /\ PartsOwned' /\ PartsApart' /\ UploadPhase'
           /\ ShownIsLocked' /\ SumHolds' /\ AnsweredKept'
<1> USE DEF KeptInv, LockInv, UpTypeOK, histVars, Restart, StoringLabels, LoopLabels, RefLabels,
        LockLabels, FiniLabels, AbortLabels, DelLabels, GoneLabels, ShownLabels
<1>1. \A p \in PIds : pstate'[p] = "fresh" => pstate[p] = "fresh"
  BY DEF PStates
<1>2. PartsOwned' /\ PartsApart'
  BY <1>1 DEF PartsOwned, PartsApart
<1>3. UploadPhase'
  BY DEF UploadPhase, StaleUploads
<1>4. ShownIsLocked'
  BY DEF ShownIsLocked, Made, Deleting, StaleObjects
<1>5. restarts' # 0
  OBVIOUS
<1>6. SumHolds' /\ AnsweredKept'
  BY <1>5 DEF SumHolds, AnsweredKept
<1> QED
  BY <1>2, <1>3, <1>4, <1>6

\* KeptInv holds before the first request.
LEMMA KeptInvInit == UpInit => KeptInv
<1> SUFFICES ASSUME UpInit PROVE KeptInv
  OBVIOUS
<1>1. LockInv
  BY LockInvInit
<1> USE UploadAssumption DEF UpInit, StoringLabels, LoopLabels, RefLabels, LockLabels, FiniLabels,
        AbortLabels, DelLabels, GoneLabels, ShownLabels
<1>2. PartsOwned /\ PartsApart /\ UploadPhase
  BY DEF PartsOwned, PartsApart, UploadPhase
<1>3. \A i \in Ids : ~Made(i) /\ ~Deleting(i) /\ ActiveParts(i) = {} /\ Answered(i) = {}
  BY DEF Made, Deleting, ActiveParts, Answered, PartsOf
<1>4. ShownIsLocked /\ SumHolds /\ AnsweredKept
  BY <1>3 DEF ShownIsLocked, SumHolds, AnsweredKept
<1> QED
  BY <1>1, <1>2, <1>4 DEF KeptInv

\* KeptInv is inductive.
LEMMA KeptInvNext == KeptInv /\ [UpNext]_upVars => KeptInv'
<1> SUFFICES ASSUME KeptInv, [UpNext]_upVars PROVE KeptInv'
  OBVIOUS
<1>1. LockInv' /\ UpTypeOK'
  BY LockInvNext DEF KeptInv, LockInv
<1>2. ASSUME NEW i \in Ids, UploadInit(i) PROVE KeptInv'
  BY <1>1, <1>2, KeptUploadInit DEF KeptInv
<1>3. ASSUME NEW w \in Workers, Request(w) PROVE KeptInv'
  BY <1>1, <1>3, KeptRequest DEF KeptInv
<1>4. ASSUME NEW w \in Workers, Step(w) PROVE KeptInv'
  BY <1>1, <1>4, OwnedStep, ApartStep, PhaseStep, ShownStep, SumStep, AnsweredStep DEF KeptInv
<1>5. CASE Restart
  BY <1>1, <1>5, KeptRestart DEF KeptInv
<1>6. CASE UNCHANGED upVars
  BY <1>1, <1>6 DEF upVars, uplVars, partVars, objVars, histVars, KeptInv, PartsOwned, PartsApart,
     UploadPhase, ShownIsLocked, SumHolds, AnsweredKept, Made, Deleting, Answered, ActiveParts, PartsOf
<1> QED
  BY <1>2, <1>3, <1>4, <1>5, <1>6 DEF UpNext

\* While KeptInv holds, no acknowledged data is missing from a committed object.
LEMMA KeptInvKeeps == KeptInv => UploadKept
<1> SUFFICES ASSUME KeptInv PROVE UploadKept
  OBVIOUS
<1> USE DEF KeptInv, LockInv, UpTypeOK
<1>1. FirstCommitIntact
  BY DEF SumHolds, FirstCommitIntact
<1>2. AckedInObject
  <2> SUFFICES ASSUME restarts = 0, NEW p \in acked, pup[p] \in committed \ undone
               PROVE  p \in manifest[pup[p]]
    BY DEF AckedInObject
  <2>1. pup[p] \in Ids \ undone /\ Made(pup[p])
    BY DEF PartsApart, Made
  <2>2. p \in Answered(pup[p])
    BY DEF Answered, PartsOf
  <2> QED
    BY <2>1, <2>2 DEF AnsweredKept
<1> QED
  BY <1>1, <1>2 DEF UploadKept

\* Under KeptInv a step of a request leaves the parts of a committed object alone.
LEMMA FrozenStep ==
    ASSUME KeptInv, NEW w \in Workers, Step(w),
           NEW i \in committed \ undone, ostate[i] = "Active", ostate'[i] = "Active"
    PROVE  ActiveParts(i)' = ActiveParts(i)
<1> USE DEF KeptInv, LockInv, UpTypeOK, uplVars, partVars, objVars, histVars, Goto, Finish, Fail,
        ActiveParts, PartsOf
<1>1. i \in Ids \ undone /\ Made(i) /\ ulock[i] = 1 /\ ~Deleting(i)
  BY DEF ShownIsLocked, Made
<1>2. pc[w] \in RefLabels => wid[w] # i
  BY <1>1, HolderUnlocked
<1>3. pc[w] \in LockLabels /\ wid[w] = i => pc[w] \in ShownLabels
  BY <1>1 DEF ShownIsLocked
<1>4. pc[w] \in GoneLabels => wid[w] # i
  BY <1>1 DEF Deleting
<1> USE <1>2, <1>3, <1>4 DEF PartsOwned, RefLabels, LockLabels, FiniLabels, AbortLabels, DelLabels,
        GoneLabels, ShownLabels, StoringLabels, LoopLabels
<1>5. CASE PartInsert(w)
  BY <1>5 DEF PartInsert
<1>6. CASE PartActivate(w)
  BY <1>6 DEF PartActivate
<1>7. CASE PartUndo(w)
  BY <1>7 DEF PartUndo
<1>8. CASE AbortDeact(w)
  BY <1>8 DEF AbortDeact, DeactPart
<1>9. CASE AbortDrop(w)
  BY <1>9 DEF AbortDrop, DropPart
<1>10. CASE DelDeactPart(w)
  BY <1>10 DEF DelDeactPart, DeactPart
<1>11. CASE DelDropPart(w)
  BY <1>11 DEF DelDropPart, DropPart
<1>12. CASE \/ PartRefInc(w) \/ PartRefDec(w) \/ FiniLock(w) \/ FiniResum(w) \/ FiniCreate(w)
            \/ FiniActivate(w) \/ FiniCommit(w) \/ FiniUndo(w) \/ UploadInact(w)
            \/ UploadRemove(w) \/ UnlockUpload(w) \/ AbortLock(w) \/ AbortList(w)
            \/ DelDeact(w) \/ DelList(w) \/ DelRemove(w)
  BY <1>12 DEF PartRefInc, PartRefDec, FiniLock, LockUpload, FiniResum, FiniCreate,
     FiniActivate, FiniCommit, FiniUndo, UploadInact, UploadRemove, UnlockUpload,
     AbortLock, AbortList, ListParts, DelDeact, DelList, DelRemove
<1> QED
  BY <1>5, <1>6, <1>7, <1>8, <1>9, <1>10, <1>11, <1>12 DEF Step

\* For every number of goroutines, uploads, parts and database errors: as long as
\* the daemon runs, an object that its first completion committed consists of the
\* parts its size and etag were computed from, and a part whose upload was
\* answered with an etag is one of them (upload.go s3UploadPart, s3UploadFini).
THEOREM UploadIsKept == UpSpec => []UploadKept
  BY KeptInvInit, KeptInvNext, KeptInvKeeps, PTL DEF UpSpec

\* For every number of goroutines, uploads, parts, database errors and restarts:
\* no step of a request removes or adds a part of a committed object that is
\* visible before and after it (upload.go dbLock, object.go DropObject).
THEOREM CommittedIsFrozen == UpSpec => CommittedFrozen
<1> DEFINE Frozen(i) == ostate[i] = "Active" /\ ostate'[i] = "Active" /\ restarts' = restarts
                           => ActiveParts(i)' = ActiveParts(i)
           Keeps == \A i \in committed \ undone : Frozen(i)
<1>1. KeptInv /\ [UpNext]_upVars => [Keeps]_upVars
  <2> SUFFICES ASSUME KeptInv, [UpNext]_upVars, NEW i \in committed \ undone,
                      ostate[i] = "Active", ostate'[i] = "Active", restarts' = restarts
               PROVE  ActiveParts(i)' = ActiveParts(i)
    OBVIOUS
  <2>1. ASSUME NEW w \in Workers, Step(w) PROVE ActiveParts(i)' = ActiveParts(i)
    BY <2>1, FrozenStep
  <2>2. ASSUME NEW w \in Workers, Request(w) PROVE ActiveParts(i)' = ActiveParts(i)
    BY <2>2 DEF Request, PartFind, FiniFind, AbortFind, DelFind, partVars, ActiveParts, PartsOf
  <2>3. ASSUME NEW j \in Ids, UploadInit(j) PROVE ActiveParts(i)' = ActiveParts(i)
    BY <2>3 DEF UploadInit, partVars, ActiveParts, PartsOf
  <2>4. ~Restart
    BY DEF Restart, KeptInv, LockInv, UpTypeOK
  <2>5. CASE UNCHANGED upVars
    BY <2>5 DEF upVars, partVars, ActiveParts, PartsOf
  <2> QED
    BY <2>1, <2>2, <2>3, <2>4, <2>5 DEF UpNext
<1> QED
  BY <1>1, KeptInvInit, KeptInvNext, PTL DEF UpSpec, CommittedFrozen
=============================================================================
