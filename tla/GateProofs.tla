----------------------------- MODULE GateProofs -----------------------------
(***************************************************************************)
(* What the gate keeps in two places agrees, for every number of requests, *)
(* packages, items, commits and failures: a deployment and its items       *)
(* (Deploy), a clone, its record and the function that follows it (Repos), *)
(* a tenant's packages and the cached list and size (Packages), an         *)
(* account, its secret and the environment of a function (Accounts),       *)
(* middleware at its server, in its record and its secret (Mware), a web   *)
(* socket's clients and the list of them (WebSock).  The components share  *)
(* no state; each has its inductive invariant here and the theorems that   *)
(* follow from it, and so has the gate that MCGate puts together from them. *)
(***************************************************************************)
EXTENDS MCGate, FiniteSetTheorems, SequenceTheorems, TLAPS

-----------------------------------------------------------------------------
(* Deploy: what StartItems and StopItems leave of deployments of several   *)
(* items.  The invariant follows the goroutine that works on a deployment  *)
(* through its list of items.  While it starts, the first m items of the   *)
(* list are the deployment's and no others; what it undoes is of these m,  *)
(* each at a place of its own (UndoIsOwn); while it stops, all that is     *)
(* left is still before it.  Once a goroutine worked on the record of      *)
(* another deployment (dpmixed) nothing of this is kept, and the           *)
(* properties exclude it.                                                  *)

\* the items of a deployment, and the m that are started first
ItemsOf(d) == Range(StartList(d))
First(d, m) == {StartList(d)[i] : i \in 1 .. m}

\* What is left to be started is the rest of the list.
IsRest(r) ==
    /\ Started(r) \in 0 .. Len(StartList(r.dep))
    /\ r.todo = SubSeq(StartList(r.dep), Started(r) + 1, Len(StartList(r.dep)))

\* the fields of a goroutine's record
DprocFields ==
    [op : Ops, dep : Deps \cup {NoDep}, todo : Seq(Names), err : BOOLEAN, ids : BOOLEAN]
USE DEF DprocFields

\* What goroutines do: with the items of their deployment, and nothing when idle.
DprocRec ==
    {r \in DprocFields :
        /\ r.op = "idle" <=> r.dep = NoDep
        /\ r.op = "idle" => r.todo = <<>>
        /\ r.op # "idle" => Range(r.todo) \subseteq ItemsOf(r.dep)
        /\ r.op = "start" => IsRest(r)}

\* DpTypeOK with the types of goroutines; what a deployment has is of its items.
DpTypes ==
    /\ dprec \in [Deps -> DpStates] /\ dpids \subseteq Deps
    /\ item \in [Names -> {NoItem, User} \cup Deps]
    /\ \A d \in Deps, n \in Names : item[n] = d => n \in ItemsOf(d)
    /\ dproc \in [DpProcs -> DprocRec]
    /\ dpdown \in BOOLEAN
    /\ dpmixed \subseteq Deps /\ dptaken \subseteq Names
    /\ dpfaults \in Nat /\ dprestarts \in Nat /\ dpfaults + dprestarts <= DpMaxFaults
    /\ dpuser \in 0 .. DpMaxUser

\* The first m items are made, unless others took them.
FirstMade(d, m) ==
    /\ \A n \in First(d, m) : item[n] = d \/ n \in dptaken
    /\ \A i, j \in 1 .. m : StartList(d)[i] = StartList(d)[j] /\ i # j => StartList(d)[i] \in dptaken

\* A goroutine that starts has made the items it is through with and no other.
Starting(d, r) == FirstMade(d, Started(r)) /\ Made(d) \subseteq First(d, Started(r))

\* One that undoes has its own items before it, each once, and what else there is
\* of them is the last ones.
Undoing(d, r) ==
    /\ \A i \in 1 .. Len(r.todo) : item[r.todo[i]] = d \/ r.todo[i] \in dptaken
    /\ \A i, j \in 1 .. Len(r.todo) : r.todo[i] = r.todo[j] /\ i # j => r.todo[i] \in dptaken
    /\ dpfaults = 0 =>
          Made(d) \subseteq Range(r.todo) \cup LastOf(OfDep(d, MW)) \cup LastOf(OfDep(d, FN))

\* One that stops has before it all that there is, unless something could not be
\* stopped; then it does not come to the end.
Stopping(d, r) ==
    \/ r.err = TRUE /\ r.todo # <<>>
    \/ r.err = FALSE /\ Made(d) \subseteq Range(r.todo)

\* Where a deployment stands while a goroutine works on it.
Underway(d, r) ==
    /\ r.op \in {"start", "undo", "restop"} => dprec[d] = "ini"
    /\ r.op \in {"del", "fin"} => dprec[d] = "trm"
    /\ r.op = "start" => Starting(d, r)
    /\ r.op = "undo" => Undoing(d, r)
    /\ r.op \in {"restop", "del", "fin"} => Stopping(d, r)

\* Where it stands when nobody does.
Standing(d) ==
    /\ dprec[d] = "none" => Made(d) = {}
    /\ dprec[d] = "rdy" => \A n \in ItemsOf(d) : item[n] = d \/ n \in dptaken
    /\ dprec[d] = "stl" /\ dpfaults = 0 =>
          Made(d) \subseteq LastOf(OfDep(d, MW)) \cup LastOf(OfDep(d, FN))

\* Unless it was mixed up, one goroutine works on a deployment.
DpKept(d) ==
    /\ \A p, q \in DpProcs : dproc[p].dep = d /\ dproc[q].dep = d => p = q
    /\ \A p \in DpProcs : dproc[p].dep = d => Underway(d, dproc[p])
    /\ ~Working(d) => Standing(d)

\* The inductive invariant of deployments.
DpInv == DpTypes /\ \A d \in Deps \ dpmixed : DpKept(d)

-----------------------------------------------------------------------------
\* The lists of a deployment.
LEMMA ItemLists ==
  ASSUME NEW d \in Deps
  PROVE  /\ \A k \in Kind : OfDep(d, k) \in Seq(Names)
         /\ StartList(d) \in Seq(Names) /\ StopList(d) \in Seq(Names)
         /\ Range(StopList(d)) = ItemsOf(d)
         /\ Len(StartList(d)) = Len(OfDep(d, MW)) + Len(OfDep(d, FN)) + Len(OfDep(d, RT))
         /\ \A i \in 1 .. Len(StartList(d)) :
               StartList(d)[i] = IF i <= Len(OfDep(d, MW)) THEN OfDep(d, MW)[i]
                                 ELSE IF i <= Len(OfDep(d, MW)) + Len(OfDep(d, FN))
                                 THEN OfDep(d, FN)[i - Len(OfDep(d, MW))]
                                 ELSE OfDep(d, RT)[i - Len(OfDep(d, MW)) - Len(OfDep(d, FN))]
<1> DEFINE m == OfDep(d, MW)
<1> DEFINE f == OfDep(d, FN)
<1> DEFINE r == OfDep(d, RT)
<1>1. m \in Seq(Names) /\ f \in Seq(Names) /\ r \in Seq(Names)
      /\ \A k \in Kind : OfDep(d, k) \in Seq(Names)
  BY DpAssumption DEF Kind
<1>2. StartList(d) = (m \o f) \o r /\ StopList(d) = (r \o f) \o m
  BY DEF StartList, StopList
<1> HIDE DEF m, f, r
<1>3. m \o f \in Seq(Names) /\ r \o f \in Seq(Names) /\ Len(m \o f) = Len(m) + Len(f)
      /\ Range(m \o f) = Range(m) \cup Range(f) /\ Range(r \o f) = Range(r) \cup Range(f)
  BY <1>1, ConcatProperties, RangeConcatenation
<1> DEFINE mf == m \o f
<1> DEFINE rf == r \o f
<1> HIDE DEF mf, rf
<1>4. mf \o r \in Seq(Names) /\ rf \o m \in Seq(Names)
      /\ Len(mf \o r) = Len(mf) + Len(r)
      /\ Range(mf \o r) = Range(mf) \cup Range(r)
      /\ Range(rf \o m) = Range(rf) \cup Range(m)
  <2>1. mf \in Seq(Names) /\ rf \in Seq(Names)
    BY <1>3 DEF mf, rf
  <2>2. QED BY <1>1, <2>1, ConcatProperties, RangeConcatenation
<1>5. ASSUME NEW i \in 1 .. Len(mf \o r)
      PROVE  (mf \o r)[i] = IF i <= Len(m) THEN m[i]
                            ELSE IF i <= Len(m) + Len(f) THEN f[i - Len(m)]
                            ELSE r[i - Len(m) - Len(f)]
  <2>1. mf \in Seq(Names) /\ Len(mf) = Len(m) + Len(f)
    BY <1>3 DEF mf
  <2>2. Len(m) \in Nat /\ Len(f) \in Nat /\ Len(r) \in Nat
    BY <1>1, LenProperties
  <2>3. (mf \o r)[i] = IF i <= Len(mf) THEN mf[i] ELSE r[i - Len(mf)]
    BY <1>1, <1>4, <2>1, ConcatProperties
  <2>4. i <= Len(mf) => mf[i] = IF i <= Len(m) THEN m[i] ELSE f[i - Len(m)]
    BY <1>1, <2>1, <2>2, ConcatProperties DEF mf
  <2>5. i - (Len(m) + Len(f)) = i - Len(m) - Len(f)
    BY <2>2
  <2>6. QED BY <2>1, <2>2, <2>3, <2>4, <2>5
<1>6. Len(mf) = Len(m) + Len(f) /\ Range(mf) = Range(m) \cup Range(f)
      /\ Range(rf) = Range(r) \cup Range(f)
  BY <1>3 DEF mf, rf
<1>7. StartList(d) = mf \o r /\ StopList(d) = rf \o m
  BY <1>2 DEF mf, rf
<1>8. QED BY <1>1, <1>4, <1>5, <1>6, <1>7 DEF ItemsOf, m, f, r

\* Head and tail of what is to be done.
LEMMA HeadAndTail ==
  ASSUME NEW s \in Seq(Names), s # <<>>
  PROVE  /\ Head(s) \in Names /\ Tail(s) \in Seq(Names) /\ Len(s) \in Nat \ {0}
         /\ Len(Tail(s)) = Len(s) - 1
         /\ Head(s) = s[1] /\ \A i \in 1 .. Len(Tail(s)) : Tail(s)[i] = s[i + 1]
         /\ Head(s) \in Range(s) /\ Range(Tail(s)) \subseteq Range(s)
         /\ Range(s) \subseteq Range(Tail(s)) \cup {Head(s)}
<1>1. /\ Head(s) \in Names /\ Tail(s) \in Seq(Names) /\ Len(s) \in Nat \ {0}
      /\ Len(Tail(s)) = Len(s) - 1
      /\ Head(s) = s[1] /\ \A i \in 1 .. Len(Tail(s)) : Tail(s)[i] = s[i + 1]
  BY HeadTailProperties, EmptySeq
<1>2. Range(s) = {s[i] : i \in 1 .. Len(s)} /\ Range(Tail(s)) = {Tail(s)[i] : i \in 1 .. Len(Tail(s))}
  BY <1>1, RangeEquality, ZenonT(40)
<1>3. Head(s) \in Range(s)
  BY <1>1, <1>2
<1>4. ASSUME NEW x \in Range(Tail(s)) PROVE x \in Range(s)
  <2>1. PICK i \in 1 .. Len(Tail(s)) : x = s[i + 1]
    BY <1>1, <1>2, <1>4
  <2>2. i + 1 \in 1 .. Len(s)
    BY <1>1, <2>1
  <2>3. QED BY <1>2, <2>1, <2>2
<1>5. ASSUME NEW x \in Range(s) PROVE x \in Range(Tail(s)) \cup {Head(s)}
  <2>1. PICK i \in 1 .. Len(s) : x = s[i]
    BY <1>2, <1>5
  <2>2. CASE i = 1
    BY <1>1, <2>1, <2>2
  <2>3. CASE i # 1
    <3>1. i - 1 \in 1 .. Len(Tail(s)) /\ (i - 1) + 1 = i
      BY <1>1, <2>1, <2>3
    <3>2. Tail(s)[i - 1] = x
      BY <1>1, <2>1, <3>1
    <3>3. QED BY <1>2, <3>1, <3>2
  <2>4. QED BY <2>2, <2>3
<1>6. QED BY <1>1, <1>3, <1>4, <1>5

\* What is left to be started, and what is through.
LEMMA RestOfList ==
  ASSUME NEW r \in DprocRec, r.dep \in Deps, IsRest(r),
         NEW m, m = Started(r), NEW S, S = StartList(r.dep)
  PROVE  /\ m \in 0 .. Len(S) /\ Len(S) \in Nat /\ S \in Seq(Names)
         /\ r.todo = <<>> => m = Len(S)
         /\ r.todo # <<>> => /\ m + 1 \in 1 .. Len(S) /\ Head(r.todo) = S[m + 1]
                             /\ Tail(r.todo) = SubSeq(S, m + 2, Len(S))
                             /\ Len(Tail(r.todo)) = Len(S) - (m + 1)
<1>1. r.todo \in Seq(Names) /\ S \in Seq(Names) /\ Len(S) \in Nat /\ Len(r.todo) \in Nat
  BY ItemLists, LenProperties DEF DprocRec
<1>2. m \in 0 .. Len(S) /\ m = Len(S) - Len(r.todo)
  BY DEF IsRest, Started
<1>6. r.todo = SubSeq(S, m + 1, Len(S))
  BY DEF IsRest
<1>3. ASSUME r.todo = <<>> PROVE m = Len(S)
  <2>1. Len(r.todo) = 0
    BY <1>3, EmptySeq
  <2>2. QED BY <1>1, <1>2, <2>1
<1>4. ASSUME r.todo # <<>>
      PROVE  /\ m + 1 \in 1 .. Len(S) /\ Head(r.todo) = S[m + 1]
             /\ Tail(r.todo) = SubSeq(S, m + 2, Len(S))
             /\ Len(Tail(r.todo)) = Len(S) - (m + 1)
  <2>1. Len(r.todo) \in Nat \ {0} /\ Len(Tail(r.todo)) = Len(r.todo) - 1
        /\ Head(r.todo) = r.todo[1] /\ Tail(r.todo) \in Seq(Names)
        /\ \A i \in 1 .. Len(Tail(r.todo)) : Tail(r.todo)[i] = r.todo[i + 1]
    BY <1>1, <1>4, HeadAndTail
  <2>2. m + 1 \in 1 .. Len(S)
    BY <1>1, <1>2, <2>1
  <2>3. \A i \in 1 .. Len(S) : S[i] \in Names
    BY <1>1, LenProperties
  <2>4. \A i \in (m + 1) .. Len(S) : S[i] \in Names
    BY <1>1, <1>2, <2>3
  <2>5. \A i \in 1 .. Len(S) - (m + 1) + 1 : r.todo[i] = S[(m + 1) + i - 1]
    <3>1. m + 1 \in Int /\ Len(S) \in Int
      BY <1>1, <1>2
    <3>2. QED BY <1>6, <2>4, <3>1, SubSeqProperties
  <2>6. \A i \in (m + 2) .. Len(S) : S[i] \in Names
    BY <1>1, <1>2, <2>3
  <2> DEFINE t == SubSeq(S, m + 2, Len(S))
  <2>7. /\ t \in Seq(Names) /\ Len(t) = IF m + 2 <= Len(S) THEN Len(S) - (m + 2) + 1 ELSE 0
        /\ \A i \in 1 .. Len(S) - (m + 2) + 1 : t[i] = S[(m + 2) + i - 1]
    <3>1. m + 2 \in Int /\ Len(S) \in Int
      BY <1>1, <1>2
    <3>2. QED BY <2>6, <3>1, SubSeqProperties
  <2> HIDE DEF t
  <2>8. Len(t) = Len(Tail(r.todo)) /\ Len(t) = Len(S) - (m + 1)
    BY <1>1, <1>2, <2>1, <2>2, <2>7
  <2>9. \A i \in 1 .. Len(t) : t[i] = Tail(r.todo)[i]
    <3> SUFFICES ASSUME NEW i \in 1 .. Len(t) PROVE t[i] = Tail(r.todo)[i]
      OBVIOUS
    <3>1. i \in 1 .. Len(Tail(r.todo)) /\ i + 1 \in 1 .. Len(S) - (m + 1) + 1
          /\ i \in 1 .. Len(S) - (m + 2) + 1
      BY <1>1, <1>2, <2>2, <2>8
    <3>2. Tail(r.todo)[i] = S[(m + 1) + (i + 1) - 1] /\ t[i] = S[(m + 2) + i - 1]
      BY <2>1, <2>5, <2>7, <3>1
    <3>3. (m + 1) + (i + 1) - 1 = (m + 2) + i - 1
      BY <1>1, <1>2
    <3>4. QED BY <3>2, <3>3
  <2>10. t = Tail(r.todo)
    BY <2>1, <2>7, <2>8, <2>9, SeqEqual
  <2>11. Head(r.todo) = S[m + 1]
    <3>1. 1 \in 1 .. Len(S) - (m + 1) + 1 /\ (m + 1) + 1 - 1 = m + 1
      BY <1>1, <1>2, <2>2
    <3>2. QED BY <2>1, <2>5, <3>1
  <2>12. QED BY <2>2, <2>8, <2>10, <2>11 DEF t
<1>7. QED BY <1>1, <1>2, <1>3, <1>4

\* What AllButLast leaves out.
LEMMA ButLast ==
  ASSUME NEW s \in Seq(Names), NEW u, u = AllButLast(s)
  PROVE  /\ u \in Seq(Names) /\ Len(s) \in Nat /\ Len(u) \in Nat
         /\ Len(u) <= Len(s)
         /\ \A i \in 1 .. Len(u) : u[i] = s[i]
         /\ \A i \in 1 .. Len(s) : i \in 1 .. Len(u) \/ s[i] \in LastOf(s)
<1>1. CASE s = <<>>
  <2>1. u = <<>> /\ Len(s) = 0 /\ u \in Seq(Names)
    BY <1>1, EmptySeq DEF AllButLast
  <2>2. QED BY <1>1, <2>1
<1>2. CASE s # <<>>
  <2>1. Len(s) \in Nat \ {0} /\ \A i \in 1 .. Len(s) : s[i] \in Names
    BY <1>2, EmptySeq, LenProperties
  <2>2. u = SubSeq(s, 1, Len(s) - 1)
    BY <1>2 DEF AllButLast, Front
  <2>3. \A i \in 1 .. Len(s) - 1 : s[i] \in Names
    BY <2>1
  <2>4. 1 \in Int /\ Len(s) - 1 \in Int
    BY <2>1
  <2>5. /\ u \in Seq(Names) /\ Len(u) = IF 1 <= Len(s) - 1 THEN Len(s) - 1 - 1 + 1 ELSE 0
        /\ \A i \in 1 .. Len(s) - 1 - 1 + 1 : u[i] = s[1 + i - 1]
    BY <2>2, <2>3, <2>4, SubSeqProperties
  <2>6. Len(u) = Len(s) - 1
    <3>1. Len(s) \in Nat /\ Len(s) >= 1
      BY <2>1
    <3>2. Len(u) = IF 1 <= Len(s) - 1 THEN Len(s) - 1 - 1 + 1 ELSE 0
      BY <2>5
    <3>3. \A n, k \in Nat : n >= 1 /\ k = (IF 1 <= n - 1 THEN n - 1 - 1 + 1 ELSE 0) => k = n - 1
      OBVIOUS
    <3>4. Len(u) \in Nat
      BY <2>5, LenProperties
    <3>5. QED BY <3>1, <3>2, <3>3, <3>4, Zenon
  <2>7. \A i \in 1 .. Len(u) : u[i] = s[i]
    BY <2>1, <2>5, <2>6
  <2>8. s[Len(s)] \in LastOf(s)
    BY <1>2 DEF LastOf, Last
  <2>9. \A i \in 1 .. Len(s) : i \in 1 .. Len(u) \/ i = Len(s)
    BY <2>1, <2>6
  <2>10. QED BY <2>1, <2>5, <2>6, <2>7, <2>8, <2>9
<1>3. QED BY <1>1, <1>2

\* The beginning of a sequence.
LEMMA Beginning ==
  ASSUME NEW s \in Seq(Names), NEW c \in 0 .. Len(s), NEW u, u = SubSeq(s, 1, c)
  PROVE  u \in Seq(Names) /\ Len(u) = c /\ \A i \in 1 .. c : u[i] = s[i]
<1>1. Len(s) \in Nat /\ c \in Nat /\ c <= Len(s)
  BY LenProperties
<1>2. \A i \in 1 .. c : s[i] \in Names
  BY <1>1, LenProperties
<1>3. 1 \in Int /\ c \in Int
  BY <1>1
<1>4. /\ u \in Seq(Names) /\ Len(u) = IF 1 <= c THEN c - 1 + 1 ELSE 0
      /\ \A i \in 1 .. c - 1 + 1 : u[i] = s[1 + i - 1]
  BY <1>2, <1>3, SubSeqProperties
<1>5. \A i \in 1 .. c : i \in 1 .. c - 1 + 1 /\ 1 + i - 1 = i
  BY <1>1
<1>6. QED BY <1>1, <1>4, <1>5

\* What is undone after m items are m items at most, each at a place of its own,
\* and all of them but the last of a kind (StartItems).
LEMMA UndoIsOwn ==
  ASSUME NEW d \in Deps, NEW S, S = StartList(d), NEW m \in 0 .. Len(S), m < Len(S),
         NEW u, u = UndoList(d, m)
  PROVE  /\ u \in Seq(Names)
         /\ \E g \in [1 .. Len(u) -> 1 .. m] :
               /\ \A i \in 1 .. Len(u) : u[i] = S[g[i]]
               /\ \A i, j \in 1 .. Len(u) : g[i] = g[j] => i = j
         /\ \A j \in 1 .. m : \/ \E i \in 1 .. Len(u) : u[i] = S[j]
                             \/ S[j] \in LastOf(OfDep(d, MW)) \cup LastOf(OfDep(d, FN))
<1> DEFINE mw == OfDep(d, MW)
<1> DEFINE fn == OfDep(d, FN)
<1> DEFINE rt == OfDep(d, RT)
<1> DEFINE a == Len(mw)
<1> DEFINE b == Len(fn)
<1>1. mw \in Seq(Names) /\ fn \in Seq(Names) /\ rt \in Seq(Names)
  BY ItemLists DEF Kind
<1>2. a \in Nat /\ b \in Nat /\ Len(rt) \in Nat /\ m \in Nat /\ Len(S) = a + b + Len(rt)
      /\ Len(S) \in Nat /\ m < Len(S)
  BY <1>1, ItemLists, LenProperties
<1>3. \A i \in 1 .. Len(S) : S[i] = IF i <= a THEN mw[i] ELSE IF i <= a + b THEN fn[i - a] ELSE rt[i - a - b]
  BY ItemLists
<1>4. CASE m < a
  <2>1. u = SubSeq(mw, 1, m)
    <3>1. ~(m \in a .. a + b - 1) /\ ~(m >= a + b)
      BY <1>2, <1>4
    <3>2. QED BY <1>4, <3>1 DEF UndoList
  <2>2. m \in 0 .. Len(mw)
    BY <1>2, <1>4
  <2>3. u \in Seq(Names) /\ Len(u) = m /\ \A i \in 1 .. m : u[i] = mw[i]
    BY <1>1, <2>1, <2>2, Beginning
  <2>4. \A i \in 1 .. m : u[i] = S[i]
    BY <1>2, <1>3, <1>4, <2>3
  <2> DEFINE g == [i \in 1 .. m |-> i]
  <2>5. g \in [1 .. Len(u) -> 1 .. m] /\ \A i \in 1 .. Len(u) : g[i] = i
    BY <2>3
  <2> HIDE DEF g
  <2>6. \E h \in [1 .. Len(u) -> 1 .. m] :
           /\ \A i \in 1 .. Len(u) : u[i] = S[h[i]]
           /\ \A i, j \in 1 .. Len(u) : h[i] = h[j] => i = j
    <3>1. \A i \in 1 .. Len(u) : u[i] = S[g[i]]
      BY <2>3, <2>4, <2>5
    <3>2. \A i, j \in 1 .. Len(u) : g[i] = g[j] => i = j
      BY <2>5
    <3> QED
      BY <2>5, <3>1, <3>2
  <2>7. QED BY <2>3, <2>4, <2>6
<1> DEFINE y == AllButLast(mw)
<1>5. /\ y \in Seq(Names) /\ Len(y) \in Nat /\ Len(y) <= a
      /\ \A i \in 1 .. Len(y) : y[i] = mw[i]
      /\ \A i \in 1 .. a : i \in 1 .. Len(y) \/ mw[i] \in LastOf(mw)
  BY <1>1, ButLast
<1>6. CASE m >= a /\ m < a + b
  <2> DEFINE c == m - a
  <2> DEFINE x == SubSeq(fn, 1, c)
  <2>1. u = x \o y
    <3>1. m \in a .. a + b - 1 /\ ~(m < a) /\ ~(m >= a + b)
      BY <1>2, <1>6
    <3>2. QED BY <1>6, <3>1 DEF UndoList
  <2>2. c \in Nat /\ c \in 0 .. Len(fn) /\ m = a + c
    BY <1>2, <1>6
  <2>3. x \in Seq(Names) /\ Len(x) = c /\ \A i \in 1 .. c : x[i] = fn[i]
    BY <1>1, <2>2, Beginning
  <2> HIDE DEF c, x, y, mw, fn, rt
  <2>4. /\ u \in Seq(Names) /\ Len(u) = c + Len(y)
        /\ \A i \in 1 .. c + Len(y) : u[i] = IF i <= c THEN x[i] ELSE y[i - c]
    BY <1>5, <2>1, <2>3, ConcatProperties
  <2> DEFINE g == [i \in 1 .. c + Len(y) |-> IF i <= c THEN a + i ELSE i - c]
  <2>5. \A i \in 1 .. c + Len(y) : /\ g[i] = IF i <= c THEN a + i ELSE i - c
                                   /\ g[i] \in 1 .. m
    <3> HIDE DEF a
    <3>1. \A i \in 1 .. c + Len(y) : g[i] = IF i <= c THEN a + i ELSE i - c
      OBVIOUS
    <3> HIDE DEF g
    <3>2. ASSUME NEW i \in 1 .. c + Len(y) PROVE g[i] \in 1 .. m
      <4>1. CASE i <= c
        BY <1>2, <1>5, <2>2, <3>1, <4>1
      <4>2. CASE ~(i <= c)
        BY <1>2, <1>5, <2>2, <3>1, <4>2
      <4>3. QED BY <4>1, <4>2
    <3>3. QED BY <3>1, <3>2
  <2>6. g \in [1 .. Len(u) -> 1 .. m]
    BY <2>4, <2>5
  <2> HIDE DEF g
  <2>7. ASSUME NEW i \in 1 .. Len(u) PROVE u[i] = S[g[i]]
    <3> HIDE DEF a
    <3>1. CASE i <= c
      <4>1. g[i] = a + i /\ u[i] = fn[i]
        BY <1>5, <2>2, <2>3, <2>4, <2>5, <3>1
      <4>2. a + i \in 1 .. Len(S) /\ ~(a + i <= a) /\ a + i <= a + b /\ (a + i) - a = i
        BY <1>2, <1>6, <2>2, <2>4, <1>5, <3>1
      <4>3. QED BY <1>3, <4>1, <4>2
    <3>2. CASE ~(i <= c)
      <4>1. i \in 1 .. c + Len(y) /\ i - c \in 1 .. Len(y) /\ i - c \in 1 .. Len(S) /\ i - c <= a
        BY <1>2, <1>5, <2>2, <2>4, <3>2
      <4>2. g[i] = i - c /\ u[i] = mw[i - c]
        BY <1>5, <2>4, <2>5, <3>2, <4>1
      <4>3. QED BY <1>3, <4>1, <4>2
    <3>3. QED BY <3>1, <3>2
  <2>8. ASSUME NEW i \in 1 .. Len(u), NEW j \in 1 .. Len(u), g[i] = g[j] PROVE i = j
    <3> HIDE DEF a
    <3>1. i \in 1 .. c + Len(y) /\ j \in 1 .. c + Len(y)
      BY <2>4
    <3>2. g[i] = (IF i <= c THEN a + i ELSE i - c) /\ g[j] = IF j <= c THEN a + j ELSE j - c
      BY <2>5, <3>1
    <3>3. /\ c \in Nat /\ a \in Nat /\ i \in Nat /\ j \in Nat /\ Len(y) \in Nat /\ Len(y) <= a
          /\ i >= 1 /\ j >= 1 /\ i <= c + Len(y) /\ j <= c + Len(y)
      BY <1>2, <1>5, <2>2, <3>1
    <3>4. CASE i <= c /\ j <= c
      <4>1. a + i = a + j
        BY <2>8, <3>2, <3>4
      <4>2. QED BY <3>3, <4>1
    <3>5. CASE ~(i <= c) /\ ~(j <= c)
      <4>1. i - c = j - c
        BY <2>8, <3>2, <3>5
      <4>2. QED BY <3>3, <4>1
    <3>6. CASE i <= c /\ ~(j <= c)
      <4>1. a + i = j - c
        BY <2>8, <3>2, <3>6
      <4>2. QED BY <3>3, <4>1, <3>6
    <3>7. CASE ~(i <= c) /\ j <= c
      <4>1. i - c = a + j
        BY <2>8, <3>2, <3>7
      <4>2. QED BY <3>3, <4>1, <3>7
    <3>8. QED BY <3>4, <3>5, <3>6, <3>7
  <2>9. ASSUME NEW j \in 1 .. m
        PROVE  (\E i \in 1 .. Len(u) : u[i] = S[j]) \/ S[j] \in LastOf(mw) \cup LastOf(fn)
    <3> HIDE DEF a
    <3>1. CASE j <= a
      <4>1. S[j] = mw[j] /\ j \in 1 .. a
        BY <1>2, <1>3, <3>1
      <4>2. CASE j \in 1 .. Len(y)
        <5>1. c + j \in 1 .. c + Len(y) /\ ~(c + j <= c) /\ (c + j) - c = j
          BY <1>5, <2>2, <4>2
        <5>2. u[c + j] = S[j] /\ c + j \in 1 .. Len(u)
          BY <1>5, <2>4, <4>1, <4>2, <5>1
        <5>3. QED BY <5>2
      <4>3. QED BY <1>5, <4>1, <4>2
    <3>2. CASE ~(j <= a)
      <4>1. j - a \in 1 .. c /\ j \in 1 .. Len(S) /\ j <= a + b /\ j - a \in 1 .. c + Len(y)
        BY <1>2, <1>5, <1>6, <2>2, <3>2
      <4>2. S[j] = fn[j - a] /\ u[j - a] = fn[j - a] /\ j - a \in 1 .. Len(u)
        BY <1>3, <2>3, <2>4, <3>2, <4>1
      <4>3. QED BY <4>2
    <3>3. QED BY <3>1, <3>2
  <2>10. \E h \in [1 .. Len(u) -> 1 .. m] :
           /\ \A i \in 1 .. Len(u) : u[i] = S[h[i]]
           /\ \A i, j \in 1 .. Len(u) : h[i] = h[j] => i = j
    BY <2>6, <2>7, <2>8
  <2>11. QED BY <2>4, <2>9, <2>10 DEF mw, fn
<1> DEFINE v == AllButLast(fn)
<1>7. /\ v \in Seq(Names) /\ Len(v) \in Nat /\ Len(v) <= b
      /\ \A i \in 1 .. Len(v) : v[i] = fn[i]
      /\ \A i \in 1 .. b : i \in 1 .. Len(v) \/ fn[i] \in LastOf(fn)
  BY <1>1, ButLast
<1>8. CASE m >= a + b
  <2> DEFINE c == m - a - b
  <2> DEFINE x == SubSeq(rt, 1, c)
  <2> DEFINE l == Len(v)
  <2>1. u = (x \o v) \o y
    <3>1. ~(m \in a .. a + b - 1) /\ ~(m < a)
      BY <1>2, <1>8
    <3>2. QED BY <1>8, <3>1 DEF UndoList
  <2>2. c \in Nat /\ c \in 0 .. Len(rt) /\ m = a + b + c
    BY <1>2, <1>8
  <2>3. x \in Seq(Names) /\ Len(x) = c /\ \A i \in 1 .. c : x[i] = rt[i]
    BY <1>1, <2>2, Beginning
  <2> HIDE DEF c, x, y, v, mw, fn, rt
  <2> DEFINE w == x \o v
  <2>12. /\ w \in Seq(Names) /\ Len(w) = c + l
        /\ \A i \in 1 .. c + l : w[i] = IF i <= c THEN x[i] ELSE v[i - c]
    BY <1>7, <2>3, ConcatProperties
  <2>13. u = w \o y
    BY <2>1
  <2> HIDE DEF w
  <2>4. /\ u \in Seq(Names) /\ Len(u) = c + l + Len(y)
        /\ \A i \in 1 .. c + l + Len(y) : u[i] = IF i <= c + l THEN w[i] ELSE y[i - (c + l)]
    BY <1>5, <2>13, <2>12, ConcatProperties
  <2> DEFINE g == [i \in 1 .. c + l + Len(y) |->
                     IF i <= c THEN a + b + i ELSE IF i <= c + l THEN a + (i - c) ELSE i - (c + l)]
  <2> HIDE DEF a, b, l
  <2>14. l \in Nat /\ l <= b /\ Len(y) \in Nat /\ Len(y) <= a /\ c \in Nat /\ m = a + b + c
        /\ a \in Nat /\ b \in Nat /\ Len(S) \in Nat /\ m < Len(S)
    BY <1>2, <1>5, <1>7, <2>2 DEF l
  <2>15. Len(S) = a + b + Len(rt) /\ Len(rt) \in Nat
    BY <1>2
  <2>5. \A i \in 1 .. c + l + Len(y) :
           /\ g[i] = IF i <= c THEN a + b + i ELSE IF i <= c + l THEN a + (i - c) ELSE i - (c + l)
           /\ g[i] \in 1 .. m
    <3>1. \A i \in 1 .. c + l + Len(y) :
             g[i] = IF i <= c THEN a + b + i ELSE IF i <= c + l THEN a + (i - c) ELSE i - (c + l)
      OBVIOUS
    <3> HIDE DEF g
    <3>2. ASSUME NEW i \in 1 .. c + l + Len(y) PROVE g[i] \in 1 .. m
      <4>1. CASE i <= c
        BY <2>14, <3>1, <4>1
      <4>2. CASE ~(i <= c) /\ i <= c + l
        BY <2>14, <3>1, <4>2
      <4>3. CASE ~(i <= c) /\ ~(i <= c + l)
        BY <2>14, <3>1, <4>3
      <4>4. QED BY <4>1, <4>2, <4>3
    <3>3. QED BY <3>1, <3>2
  <2>6. g \in [1 .. Len(u) -> 1 .. m]
    BY <2>4, <2>5
  <2> HIDE DEF g
  <2>7. ASSUME NEW i \in 1 .. Len(u) PROVE u[i] = S[g[i]]
    <3>0. i \in 1 .. c + l + Len(y)
      BY <2>4
    <3>1. CASE i <= c
      <4>1. g[i] = a + b + i /\ i \in 1 .. c /\ i <= c + l /\ i \in 1 .. c + l
        BY <2>5, <2>14, <3>0, <3>1
      <4>2. u[i] = rt[i]
        BY <2>3, <2>4, <2>12, <3>0, <4>1
      <4>3. a + b + i \in 1 .. Len(S) /\ ~(a + b + i <= a) /\ ~(a + b + i <= a + b)
            /\ (a + b + i) - a - b = i
        BY <2>14, <4>1
      <4>4. QED BY <1>3, <4>1, <4>2, <4>3
    <3>2. CASE ~(i <= c) /\ i <= c + l
      <4>1. g[i] = a + (i - c) /\ i - c \in 1 .. l /\ i \in 1 .. c + l
        BY <2>5, <2>14, <3>0, <3>2
      <4>2. u[i] = fn[i - c]
        BY <1>7, <2>4, <2>12, <3>0, <3>2, <4>1 DEF l
      <4>3. a + (i - c) \in 1 .. Len(S) /\ ~(a + (i - c) <= a) /\ a + (i - c) <= a + b
            /\ (a + (i - c)) - a = i - c
        BY <2>14, <4>1
      <4>4. QED BY <1>3, <4>1, <4>2, <4>3
    <3>3. CASE ~(i <= c) /\ ~(i <= c + l)
      <4>1. g[i] = i - (c + l) /\ i - (c + l) \in 1 .. Len(y)
        BY <2>5, <2>14, <3>0, <3>3
      <4>2. u[i] = mw[i - (c + l)]
        BY <1>5, <2>4, <3>0, <3>3, <4>1
      <4>3. i - (c + l) \in 1 .. Len(S) /\ i - (c + l) <= a
        BY <2>14, <4>1
      <4>4. QED BY <1>3, <4>1, <4>2, <4>3
    <3>4. QED BY <3>1, <3>2, <3>3
  <2>8. ASSUME NEW i \in 1 .. Len(u), NEW j \in 1 .. Len(u), g[i] = g[j] PROVE i = j
    <3>1. i \in 1 .. c + l + Len(y) /\ j \in 1 .. c + l + Len(y)
      BY <2>4
    <3>2. /\ g[i] = IF i <= c THEN a + b + i ELSE IF i <= c + l THEN a + (i - c) ELSE i - (c + l)
          /\ g[j] = IF j <= c THEN a + b + j ELSE IF j <= c + l THEN a + (j - c) ELSE j - (c + l)
      BY <2>5, <3>1
    <3>3. /\ c \in Nat /\ a \in Nat /\ b \in Nat /\ l \in Nat /\ i \in Nat /\ j \in Nat
          /\ Len(y) \in Nat /\ Len(y) <= a /\ l <= b
          /\ i >= 1 /\ j >= 1 /\ i <= c + l + Len(y) /\ j <= c + l + Len(y)
      BY <2>14, <3>1
    <3>4. \A k \in {i, j} : /\ k <= c => g[k] > a + b
                            /\ ~(k <= c) /\ k <= c + l => g[k] > a /\ g[k] <= a + b
                            /\ ~(k <= c) /\ ~(k <= c + l) => g[k] <= a
      <4>1. /\ i <= c => g[i] > a + b
            /\ ~(i <= c) /\ i <= c + l => g[i] > a /\ g[i] <= a + b
            /\ ~(i <= c) /\ ~(i <= c + l) => g[i] <= a
        BY <3>2, <3>3
      <4>2. /\ j <= c => g[j] > a + b
            /\ ~(j <= c) /\ j <= c + l => g[j] > a /\ g[j] <= a + b
            /\ ~(j <= c) /\ ~(j <= c + l) => g[j] <= a
        BY <3>2, <3>3
      <4>3. QED BY <4>1, <4>2
    <3>5. g[i] \in 1 .. m /\ g[j] \in 1 .. m /\ m \in Nat
      BY <2>5, <2>14, <3>1, <3>3
    <3>6. CASE i <= c /\ j <= c
      <4>1. a + b + i = a + b + j
        BY <2>8, <3>2, <3>6
      <4>2. QED BY <3>3, <4>1
    <3>7. CASE ~(i <= c) /\ i <= c + l /\ ~(j <= c) /\ j <= c + l
      <4>1. a + (i - c) = a + (j - c)
        BY <2>8, <3>2, <3>7
      <4>2. QED BY <3>3, <4>1
    <3>8. CASE ~(i <= c) /\ ~(i <= c + l) /\ ~(j <= c) /\ ~(j <= c + l)
      <4>1. i - (c + l) = j - (c + l)
        BY <2>8, <3>2, <3>8
      <4>2. QED BY <3>3, <4>1
    <3>9. i <= c <=> j <= c
      BY <2>8, <3>3, <3>4, <3>5
    <3>10. i <= c + l <=> j <= c + l
      BY <2>8, <3>3, <3>4, <3>5, <3>9
    <3>11. QED BY <3>6, <3>7, <3>8, <3>9, <3>10
  <2>9. ASSUME NEW j \in 1 .. m
        PROVE  (\E i \in 1 .. Len(u) : u[i] = S[j]) \/ S[j] \in LastOf(mw) \cup LastOf(fn)
    <3>0. j \in 1 .. Len(S)
      BY <2>14
    <3>1. CASE j <= a
      <4>1. S[j] = mw[j] /\ j \in 1 .. a
        BY <1>3, <2>14, <3>0, <3>1
      <4>2. CASE j \in 1 .. Len(y)
        <5>1. c + l + j \in 1 .. c + l + Len(y) /\ ~(c + l + j <= c + l) /\ (c + l + j) - (c + l) = j
          BY <2>14, <4>2
        <5>2. u[c + l + j] = S[j] /\ c + l + j \in 1 .. Len(u)
          BY <1>5, <2>4, <4>1, <4>2, <5>1
        <5>3. QED BY <5>2
      <4>3. QED BY <1>5, <4>1, <4>2
    <3>2. CASE ~(j <= a) /\ j <= a + b
      <4>1. S[j] = fn[j - a] /\ j - a \in 1 .. b
        BY <1>3, <2>14, <3>0, <3>2
      <4>2. CASE j - a \in 1 .. l
        <5>1. c + (j - a) \in 1 .. c + l + Len(y) /\ ~(c + (j - a) <= c) /\ c + (j - a) <= c + l
              /\ (c + (j - a)) - c = j - a /\ c + (j - a) \in 1 .. c + l
          BY <2>14, <4>2
        <5>2. u[c + (j - a)] = S[j] /\ c + (j - a) \in 1 .. Len(u)
          BY <1>7, <2>4, <2>12, <4>1, <4>2, <5>1 DEF l
        <5>3. QED BY <5>2
      <4>3. QED BY <1>7, <4>1, <4>2 DEF l
    <3>3. CASE ~(j <= a) /\ ~(j <= a + b)
      <4>1. S[j] = rt[j - a - b] /\ j - a - b \in 1 .. c /\ j - a - b <= c
            /\ j - a - b \in 1 .. c + l /\ j - a - b \in 1 .. c + l + Len(y) /\ j - a - b <= c + l
        BY <1>3, <2>14, <3>0, <3>3
      <4>2. u[j - a - b] = rt[j - a - b] /\ j - a - b \in 1 .. Len(u)
        BY <2>3, <2>4, <2>12, <4>1
      <4>3. QED BY <4>1, <4>2
    <3>4. QED BY <3>1, <3>2, <3>3
  <2>10. \E h \in [1 .. Len(u) -> 1 .. m] :
           /\ \A i \in 1 .. Len(u) : u[i] = S[h[i]]
           /\ \A i, j \in 1 .. Len(u) : h[i] = h[j] => i = j
    BY <2>6, <2>7, <2>8
  <2>11. QED BY <2>4, <2>9, <2>10 DEF mw, fn
<1>9. m < a \/ (m >= a /\ m < a + b) \/ m >= a + b
  <2> HIDE DEF a, b
  <2>1. QED BY <1>2
<1>10. QED BY <1>4, <1>6, <1>8, <1>9

-----------------------------------------------------------------------------
(* Steps: what they do to the deployment they work on, and to the others.  *)

\* A deployment gets no items, and keeps those that are not taken from it.
OnlyTaken(d) ==
    /\ \A n \in Names : item'[n] = d => item[n] = d
    /\ \A n \in Names : item[n] = d => item'[n] = d \/ n \in dptaken'
    /\ dptaken \subseteq dptaken' /\ (dpfaults' = 0 => dpfaults = 0)

LEMMA DeployElsewhere ==
  ASSUME DpTypes, NEW d \in Deps, DpKept(d), OnlyTaken(d), dprec'[d] = dprec[d],
         \A p \in DpProcs : dproc'[p].dep = d \/ dproc[p].dep = d => dproc'[p] = dproc[p]
  PROVE  DpKept(d)'
<1>1. \A p, q \in DpProcs : dproc'[p].dep = d /\ dproc'[q].dep = d => p = q
  BY DEF DpKept
<1>2. Made(d)' \subseteq Made(d)
  BY DEF Made, OnlyTaken
<1>3. ASSUME NEW p \in DpProcs, dproc'[p].dep = d PROVE Underway(d, dproc[p])'
  <2>1. Underway(d, dproc[p]) /\ dproc'[p] = dproc[p]
    BY <1>3 DEF DpKept
  <2>2. CASE dproc[p].op = "start"
    <3>1. Starting(d, dproc[p]) /\ dprec[d] = "ini"
      BY <2>1, <2>2 DEF Underway
    <3>2. dproc[p] \in DprocRec /\ IsRest(dproc[p]) /\ dproc[p].dep = d
      BY <1>3, <2>1, <2>2 DEF DpTypes, DprocRec
    <3> DEFINE m == Started(dproc[p])
    <3>3. m \in 0 .. Len(StartList(d)) /\ StartList(d) \in Seq(Names)
      BY <3>2, ItemLists DEF IsRest
    <3>4. First(d, m) \subseteq Names
      BY <3>3, LenProperties DEF First
    <3> HIDE DEF m
    <3>5. FirstMade(d, m) /\ Made(d) \subseteq First(d, m)
      BY <3>1 DEF Starting, m
    <3>6. /\ \A n \in First(d, m) : item'[n] = d \/ n \in dptaken'
          /\ \A i, j \in 1 .. m :
                StartList(d)[i] = StartList(d)[j] /\ i # j => StartList(d)[i] \in dptaken'
      BY <3>4, <3>5 DEF FirstMade, OnlyTaken
    <3>7. m = Started(dproc'[p])
      BY <2>1 DEF m
    <3>8. Starting(d, dproc[p])'
      BY <1>2, <3>5, <3>6, <3>7 DEF Starting, FirstMade
    <3>9. QED BY <2>1, <2>2, <3>1, <3>8 DEF Underway
  <2>3. CASE dproc[p].op = "undo"
    <3>1. Undoing(d, dproc[p]) /\ dprec[d] = "ini"
      BY <2>1, <2>3 DEF Underway
    <3>2. \A i \in 1 .. Len(dproc[p].todo) : dproc[p].todo[i] \in Names
      BY LenProperties DEF DpTypes, DprocRec
    <3>3. Undoing(d, dproc[p])'
      BY <1>2, <2>1, <3>1, <3>2 DEF Undoing, OnlyTaken
    <3>4. QED BY <2>1, <2>3, <3>1, <3>3 DEF Underway
  <2>4. CASE dproc[p].op \in {"restop", "del", "fin"}
    BY <1>2, <2>1, <2>4 DEF Underway, Stopping
  <2>5. CASE dproc[p].op = "idle"
    BY <2>1, <2>5 DEF Underway
  <2>6. dproc[p].op \in Ops
    BY DEF DpTypes, DprocRec
  <2>7. QED BY <2>2, <2>3, <2>4, <2>5, <2>6 DEF Ops
<1>4. ASSUME ~Working(d)' PROVE Standing(d)'
  <2>1. Standing(d)
    BY <1>4 DEF Working, DpKept
  <2>2. ItemsOf(d) \subseteq Names
    BY ItemLists, RangeEquality, LenProperties DEF ItemsOf
  <2>3. QED BY <1>2, <2>1, <2>2 DEF Standing, OnlyTaken
<1>5. QED BY <1>1, <1>3, <1>4 DEF DpKept

LEMMA DeployHere ==
  ASSUME DpTypes, NEW d \in Deps, NEW p \in DpProcs,
         \A q \in DpProcs : q # p => dproc[q].dep # d /\ dproc'[q] = dproc[q],
         dproc'[p].dep = d => Underway(d, dproc[p])', dproc'[p].dep # d => Standing(d)'
  PROVE  DpKept(d)'
<1>1. \A q \in DpProcs : dproc'[q].dep = d => q = p
  OBVIOUS
<1>2. \A q \in DpProcs : dproc'[q].dep = d => Underway(d, dproc[q])'
  BY <1>1
<1>3. ~Working(d)' => dproc'[p].dep # d
  BY DEF Working
<1>4. QED BY <1>1, <1>2, <1>3 DEF DpKept

\* A step of a goroutine is about one deployment.
LEMMA KeptOthers ==
  ASSUME DpInv, NEW p \in DpProcs, NEW d \in Deps, dpmixed \subseteq dpmixed',
         dproc[p].dep \in {d, NoDep}, dproc'[p].dep \in {d, NoDep},
         \A q \in DpProcs : q # p => dproc'[q] = dproc[q],
         \A e \in Deps : e # d => dprec'[e] = dprec[e] /\ OnlyTaken(e),
         d \notin dpmixed' => DpKept(d)'
  PROVE  \A e \in Deps \ dpmixed' : DpKept(e)'
<1> SUFFICES ASSUME NEW e \in Deps, e \notin dpmixed', e # d PROVE DpKept(e)'
  OBVIOUS
<1>1. DpTypes /\ DpKept(e) /\ OnlyTaken(e) /\ dprec'[e] = dprec[e]
  BY DEF DpInv
<1>2. e # NoDep
  BY DpAssumption
<1>3. \A q \in DpProcs : dproc'[q].dep = e \/ dproc[q].dep = e => dproc'[q] = dproc[q]
  BY <1>2
<1>4. QED BY <1>1, <1>3, DeployElsewhere

\* Nothing is taken where items are left alone.
LEMMA NothingTaken ==
  ASSUME NEW e \in Deps, UNCHANGED <<item, dptaken>>, dpfaults \in Nat,
         dpfaults' = dpfaults \/ dpfaults' = dpfaults + 1
  PROVE  OnlyTaken(e)
BY DEF OnlyTaken

\* An item is taken from who has it.
LEMMA ItemTaken ==
  ASSUME DpTypes, NEW n \in Names, NEW d \in Deps \cup {User}, TakeItem(n, d),
         UNCHANGED dpfaults
  PROVE  /\ item' \in [Names -> {NoItem, User} \cup Deps] /\ dptaken' \subseteq Names
         /\ \A e \in Deps, x \in Names : item'[x] = e => item[x] = e
         /\ item'[n] = NoItem /\ dptaken \subseteq dptaken'
         /\ \A x \in Names : x # n => item'[x] = item[x]
         /\ \A e \in Deps : e # d => OnlyTaken(e)
<1>1. /\ item' = [item EXCEPT ![n] = NoItem] /\ dptaken \subseteq dptaken'
      /\ dptaken' \subseteq dptaken \cup {n}
      /\ item[n] \notin {d, NoItem} => n \in dptaken'
  BY DEF TakeItem
<1>2. /\ item \in [Names -> {NoItem, User} \cup Deps] /\ dptaken \subseteq Names
      /\ NoItem \notin Deps /\ User \notin Deps
  BY DpAssumption DEF DpTypes
<1>3. /\ item' \in [Names -> {NoItem, User} \cup Deps] /\ item'[n] = NoItem
      /\ \A x \in Names : x # n => item'[x] = item[x]
  BY <1>1, <1>2
<1>4. dptaken' \subseteq Names
  BY <1>1, <1>2
<1>5. \A e \in Deps, x \in Names : item'[x] = e => item[x] = e
  BY <1>2, <1>3
<1>6. ASSUME NEW e \in Deps, e # d PROVE OnlyTaken(e)
  <2>1. \A x \in Names : item[x] = e => item'[x] = e \/ x \in dptaken'
    BY <1>1, <1>2, <1>3, <1>6
  <2>2. QED BY <1>1, <1>5, <2>1 DEF OnlyTaken
<1>7. QED BY <1>1, <1>3, <1>4, <1>5, <1>6

\* What a goroutine at work has, by its type.
LEMMA AtItsWork ==
  ASSUME DpTypes, NEW p \in DpProcs, dproc[p].op # "idle", NEW d, d = dproc[p].dep
  PROVE  /\ d \in Deps /\ dproc[p] \in DprocRec /\ dproc[p].todo \in Seq(Names)
         /\ dproc[p].op \in Ops /\ dproc[p].err \in BOOLEAN /\ dproc[p].ids \in BOOLEAN
         /\ Range(dproc[p].todo) \subseteq ItemsOf(d) /\ ItemsOf(d) \subseteq Names
         /\ dproc[p].op = "start" => IsRest(dproc[p])
         /\ dproc[p] = [op |-> dproc[p].op, dep |-> d, todo |-> dproc[p].todo,
                       err |-> dproc[p].err, ids |-> dproc[p].ids]
<1>1. dproc[p] \in DprocRec
  BY DEF DpTypes
<1>2. d \in Deps
  BY <1>1 DEF DprocRec
<1>3. ItemsOf(d) \subseteq Names
  BY <1>2, ItemLists, RangeEquality, LenProperties DEF ItemsOf
<1>4. QED BY <1>1, <1>2, <1>3 DEF DprocRec

\* A goroutine goes on with another record.
LEMMA GoesOn ==
  ASSUME DpTypes, NEW p \in DpProcs, NEW r \in DprocRec, DpSet(p, r)
  PROVE  /\ dproc' \in [DpProcs -> DprocRec] /\ dproc'[p] = r
         /\ \A q \in DpProcs : q # p => dproc'[q] = dproc[q]
BY DEF DpTypes, DpSet

LEMMA IdleIsIdle == Idle \in DprocRec /\ Idle.dep = NoDep /\ Idle.op = "idle" /\ NoDep \notin Deps
<1>1. <<>> \in Seq(Names)
  BY EmptySeq
<1>2. QED BY <1>1, DpAssumption DEF Idle, DprocRec, Ops

\* The others at an unmixed deployment do not work on it.
LEMMA WorksAlone ==
  ASSUME DpInv, NEW p \in DpProcs, dproc[p].op # "idle", NEW d, d = dproc[p].dep, d \notin dpmixed
  PROVE  /\ DpKept(d) /\ Underway(d, dproc[p])
         /\ \A q \in DpProcs : q # p => dproc[q].dep # d
<1>1. d \in Deps
  BY AtItsWork DEF DpInv
<1>2. QED BY <1>1 DEF DpInv, DpKept

-----------------------------------------------------------------------------
LEMMA DpStartStep ==
  ASSUME DpInv, NEW p \in DpProcs, NEW d \in Deps, DpStart(p, d)
  PROVE  DpInv'
<1> DEFINE r == [Idle EXCEPT !.op = "start", !.dep = d, !.todo = StartList(d)]
<1>1. DpTypes
  BY DEF DpInv
<1>2. StartList(d) \in Seq(Names) /\ Len(StartList(d)) \in Nat /\ Range(StartList(d)) = ItemsOf(d)
  BY ItemLists, LenProperties DEF ItemsOf
<1>3. /\ d # NoDep /\ r.op = "start" /\ r.dep = d /\ r.todo = StartList(d)
      /\ r \in DprocFields
  <2>1. d # NoDep
    BY DpAssumption
  <2>2. Idle \in DprocFields
    BY IdleIsIdle DEF DprocRec
  <2>3. r.op = "start" /\ r.dep = d /\ r.todo = StartList(d)
    BY DEF Idle
  <2>4. r \in DprocFields
    BY <1>2, <2>2 DEF Ops
  <2>5. QED BY <2>1, <2>3, <2>4
<1>4. Started(r) = 0 /\ IsRest(r)
  <2>1. Started(r) = 0
    BY <1>2, <1>3 DEF Started
  <2>2. StartList(d) = SubSeq(StartList(d), 0 + 1, Len(StartList(d)))
    BY <1>2, SubSeqFull
  <2>3. QED BY <1>2, <1>3, <2>1, <2>2 DEF IsRest
<1>5. r \in DprocRec
  BY <1>2, <1>3, <1>4 DEF DprocRec, Ops
<1> HIDE DEF r
<1>6. /\ dproc' \in [DpProcs -> DprocRec] /\ dproc'[p] = r
      /\ \A q \in DpProcs : q # p => dproc'[q] = dproc[q]
  <2>1. DpSet(p, r)
    BY DEF DpStart, r
  <2>2. QED BY <1>1, <1>5, <2>1, GoesOn
<1>7. /\ dprec' \in [Deps -> DpStates] /\ dprec'[d] = "ini"
      /\ \A e \in Deps : e # d => dprec'[e] = dprec[e]
  BY <1>1 DEF DpStart, DpTypes, DpStates
<1>8. DpTypes'
  BY <1>1, <1>6, <1>7 DEF DpTypes, DpStart, dpBounds
<1>9. \A e \in Deps : OnlyTaken(e)
  BY <1>1, NothingTaken DEF DpStart, dpBounds, DpTypes
<1>10. DpKept(d)'
  <2>1. Made(d)' = {}
    BY DEF Made, DpStart
  <2>2. Starting(d, dproc[p])'
    BY <1>4, <1>6, <2>1 DEF Starting, FirstMade, First
  <2>3. Underway(d, dproc[p])' /\ dproc'[p].dep = d
    BY <1>3, <1>6, <1>7, <2>2 DEF Underway
  <2>4. \A q \in DpProcs : q # p => dproc[q].dep # d
    BY DEF DpStart, Working
  <2>5. QED BY <1>1, <1>6, <2>3, <2>4, DeployHere
<1>11. dproc[p].dep \in {d, NoDep} /\ dproc'[p].dep \in {d, NoDep} /\ dpmixed \subseteq dpmixed'
  BY <1>1, <1>3, <1>6 DEF DpTypes, DprocRec, DpStart
<1>12. \A e \in Deps \ dpmixed' : DpKept(e)'
  BY <1>6, <1>7, <1>9, <1>10, <1>11, KeptOthers
<1>13. QED BY <1>8, <1>12 DEF DpInv

\* Starting fails, and what was started is to be undone.
LEMMA StartFails ==
  ASSUME DpInv, NEW p \in DpProcs, dproc[p].op = "start", dproc[p].todo # <<>>,
         NEW d, d = dproc[p].dep,
         DpSet(p, [dproc[p] EXCEPT !.op = "undo", !.todo = UndoList(d, Started(dproc[p]))]),
         UNCHANGED <<dprec, dpids, item, dpmixed, dptaken, dprestarts, dpuser>>,
         dpdown' \in BOOLEAN, dpfaults' = dpfaults \/ dpfaults' = dpfaults + 1,
         dpfaults' + dprestarts <= DpMaxFaults
  PROVE  DpInv'
<1> DEFINE S == StartList(d)
<1> DEFINE m == Started(dproc[p])
<1> DEFINE u == UndoList(d, m)
<1> DEFINE r == [dproc[p] EXCEPT !.op = "undo", !.todo = u]
<1>1. DpTypes /\ dpfaults \in Nat
  BY DEF DpInv, DpTypes
<1>2. /\ d \in Deps /\ dproc[p] \in DprocRec /\ IsRest(dproc[p])
      /\ dproc[p] \in DprocFields
  <2>1. d \in Deps /\ dproc[p] \in DprocRec /\ IsRest(dproc[p])
    BY <1>1, AtItsWork
  <2>2. QED BY <2>1 DEF DprocRec
<1>3. m \in 0 .. Len(S) /\ Len(S) \in Nat /\ m < Len(S) /\ S \in Seq(Names)
  <2>1. m \in 0 .. Len(S) /\ Len(S) \in Nat /\ m + 1 \in 1 .. Len(S) /\ S \in Seq(Names)
    BY <1>2, RestOfList
  <2> HIDE DEF m, S
  <2>2. QED BY <2>1
<1>4. /\ u \in Seq(Names)
      /\ \E g \in [1 .. Len(u) -> 1 .. m] :
            /\ \A i \in 1 .. Len(u) : u[i] = S[g[i]]
            /\ \A i, j \in 1 .. Len(u) : g[i] = g[j] => i = j
      /\ \A j \in 1 .. m : \/ \E i \in 1 .. Len(u) : u[i] = S[j]
                          \/ S[j] \in LastOf(OfDep(d, MW)) \cup LastOf(OfDep(d, FN))
  <2>1. d \in Deps /\ S = StartList(d) /\ u = UndoList(d, m)
    BY <1>2
  <2> HIDE DEF S, m, u
  <2>2. m \in 0 .. Len(S) /\ m < Len(S)
    BY <1>3
  <2>3. QED BY <2>1, <2>2, UndoIsOwn
<1> HIDE DEF m, u
<1>5. PICK g \in [1 .. Len(u) -> 1 .. m] :
        /\ \A i \in 1 .. Len(u) : u[i] = S[g[i]]
        /\ \A i, j \in 1 .. Len(u) : g[i] = g[j] => i = j
  BY <1>4
<1>6. Range(u) = {u[i] : i \in 1 .. Len(u)} /\ ItemsOf(d) = {S[i] : i \in 1 .. Len(S)}
  BY <1>3, <1>4, RangeEquality DEF ItemsOf
<1>7. Range(u) \subseteq ItemsOf(d)
  <2>1. \A i \in 1 .. m : i \in 1 .. Len(S)
    BY <1>3
  <2>2. QED BY <1>5, <1>6, <2>1
<1>8. r \in DprocRec /\ r.op = "undo" /\ r.dep = d /\ r.todo = u
  <2>1. r.op = "undo" /\ r.dep = d /\ r.todo = u
    BY <1>2
  <2>2. r \in DprocFields
    BY <1>2, <1>4 DEF Ops
  <2>3. d # NoDep
    BY <1>2, DpAssumption
  <2> HIDE DEF r
  <2>4. QED BY <1>7, <2>1, <2>2, <2>3 DEF DprocRec
<1> HIDE DEF r
<1>9. /\ dproc' \in [DpProcs -> DprocRec] /\ dproc'[p] = r
      /\ \A q \in DpProcs : q # p => dproc'[q] = dproc[q]
  <2>1. DpSet(p, r)
    BY DEF r, u, m
  <2>2. QED BY <1>1, <1>8, <2>1, GoesOn
<1>10. DpTypes'
  BY <1>1, <1>9 DEF DpTypes
<1>11. \A e \in Deps : OnlyTaken(e)
  BY <1>1, NothingTaken
<1>12. ASSUME d \notin dpmixed' PROVE DpKept(d)'
  <2>1. Underway(d, dproc[p]) /\ \A q \in DpProcs : q # p => dproc[q].dep # d
    BY <1>12, WorksAlone
  <2>2. Starting(d, dproc[p]) /\ dprec[d] = "ini"
    BY <2>1 DEF Underway
  <2>3. /\ \A i \in 1 .. m : item[S[i]] = d \/ S[i] \in dptaken
        /\ \A i, j \in 1 .. m : S[i] = S[j] /\ i # j => S[i] \in dptaken
        /\ \A n \in Made(d) : \E i \in 1 .. m : n = S[i]
    BY <2>2 DEF Starting, FirstMade, First, m
  <2>4. \A i \in 1 .. Len(u) : item[u[i]] = d \/ u[i] \in dptaken
    BY <1>5, <2>3
  <2>5. \A i, j \in 1 .. Len(u) : u[i] = u[j] /\ i # j => u[i] \in dptaken
    BY <1>5, <2>3
  <2>6. Made(d) \subseteq Range(u) \cup LastOf(OfDep(d, MW)) \cup LastOf(OfDep(d, FN))
    BY <1>4, <1>6, <2>3
  <2>7. Made(d)' = Made(d)
    BY DEF Made
  <2>8. Undoing(d, dproc[p])'
    BY <1>8, <1>9, <2>4, <2>5, <2>6, <2>7 DEF Undoing
  <2>9. Underway(d, dproc[p])'
    BY <1>8, <1>9, <2>2, <2>8 DEF Underway
  <2>10. QED BY <1>1, <1>2, <1>9, <2>1, <2>9, <1>8, DeployHere
<1>13. \A e \in Deps \ dpmixed' : DpKept(e)'
  BY <1>2, <1>8, <1>9, <1>11, <1>12, KeptOthers
<1>14. QED BY <1>10, <1>13 DEF DpInv

LEMMA StartItemStep ==
  ASSUME DpInv, NEW p \in DpProcs, StartItem(p)
  PROVE  DpInv'
<1>1. DpTypes /\ dpfaults \in Nat /\ dprestarts \in Nat /\ dpdown \in BOOLEAN /\ dpfaults + dprestarts <= DpMaxFaults
  BY DEF DpInv, DpTypes
<1>2. dproc[p].op = "start" /\ dproc[p].todo # <<>>
      /\ UNCHANGED <<dprec, dpids, dpdown, dpmixed, dptaken, dprestarts, dpuser>>
  BY DEF StartItem
<1>3. PICK d \in Deps : d = dproc[p].dep
  BY <1>1, <1>2, AtItsWork
<1> DEFINE S == StartList(d)
<1> DEFINE m == Started(dproc[p])
<1> DEFINE n == Head(dproc[p].todo)
<1>4. /\ d \in Deps /\ dproc[p] \in DprocRec /\ IsRest(dproc[p]) /\ dproc[p].todo \in Seq(Names)
      /\ Range(dproc[p].todo) \subseteq ItemsOf(d) /\ ItemsOf(d) \subseteq Names
  BY <1>1, <1>2, <1>3, AtItsWork
<1>5. CASE /\ (item[n] # NoItem /\ DpOk) \/ (item[n] = NoItem /\ DpFault)
           /\ DpSet(p, [dproc[p] EXCEPT !.op = "undo", !.todo = UndoList(d, Started(dproc[p]))])
           /\ UNCHANGED item
  <2>1. /\ dpfaults' = dpfaults \/ dpfaults' = dpfaults + 1
        /\ dpfaults' + dprestarts <= DpMaxFaults
    BY <1>1, <1>5, DpAssumption DEF DpOk, DpFault
  <2>2. QED BY <1>1, <1>2, <1>3, <1>5, <2>1, StartFails
<1>6. CASE /\ item[n] = NoItem /\ item' = [item EXCEPT ![n] = d]
           /\ DpSet(p, [dproc[p] EXCEPT !.todo = Tail(@)]) /\ DpOk
  <2> DEFINE r == [dproc[p] EXCEPT !.todo = Tail(@)]
  <2>1. /\ m \in 0 .. Len(S) /\ Len(S) \in Nat /\ m + 1 \in 1 .. Len(S) /\ n = S[m + 1]
        /\ Tail(dproc[p].todo) = SubSeq(S, m + 2, Len(S)) /\ S \in Seq(Names)
        /\ Len(Tail(dproc[p].todo)) = Len(S) - (m + 1)
    BY <1>2, <1>3, <1>4, RestOfList
  <2>2. /\ n \in Names /\ n \in ItemsOf(d) /\ Tail(dproc[p].todo) \in Seq(Names)
        /\ Range(Tail(dproc[p].todo)) \subseteq ItemsOf(d)
    BY <1>2, <1>3, <1>4, HeadAndTail
  <2>3. r.op = "start" /\ r.dep = d /\ r.todo = Tail(dproc[p].todo) /\ r \in DprocRec
        /\ Started(r) = m + 1
    <3>1. dproc[p] \in DprocFields
      BY <1>3, <1>4 DEF DprocRec
    <3>2. r.op = "start" /\ r.dep = d /\ r.todo = Tail(dproc[p].todo)
      BY <1>2, <1>3, <3>1
    <3>3. r \in DprocFields
      BY <2>2, <3>1
    <3>4. d # NoDep
      BY <1>3, <1>4, DpAssumption
    <3> HIDE DEF r
    <3>5. Started(r) = m + 1
      <4>1. Started(r) = Len(S) - (Len(S) - (m + 1))
        BY <2>1, <3>2 DEF Started
      <4> HIDE DEF m, S
      <4>2. QED BY <2>1, <4>1
    <3>6. IsRest(r)
      <4>1. m + 1 \in 0 .. Len(S) /\ (m + 1) + 1 = m + 2
        <5> HIDE DEF m, S
        <5>1. QED BY <2>1
      <4>2. QED BY <2>1, <3>2, <3>5, <4>1 DEF IsRest
    <3>7. QED BY <2>2, <3>2, <3>3, <3>4, <3>5, <3>6 DEF DprocRec
  <2> HIDE DEF r
  <2>4. /\ dproc' \in [DpProcs -> DprocRec] /\ dproc'[p] = r
        /\ \A q \in DpProcs : q # p => dproc'[q] = dproc[q]
    <3>1. DpSet(p, r)
      BY <1>6 DEF r
    <3>2. QED BY <1>1, <2>3, <3>1, GoesOn
  <2>5. /\ item \in [Names -> {NoItem, User} \cup Deps] /\ NoItem \notin Deps
        /\ item' \in [Names -> {NoItem, User} \cup Deps] /\ item'[n] = d /\ item[n] = NoItem
        /\ \A x \in Names : x # n => item'[x] = item[x]
    BY <1>1, <1>3, <1>4, <1>6, <2>2, DpAssumption DEF DpTypes
  <2> HIDE DEF n, m, S
  <2>6. \A e \in Deps : e # d => OnlyTaken(e)
    BY <1>2, <1>6, <2>2, <2>5 DEF OnlyTaken, DpOk
  <2>7. DpTypes'
    <3>1. \A e \in Deps, x \in Names : item'[x] = e => x \in ItemsOf(e)
      BY <1>1, <2>2, <2>5 DEF DpTypes
    <3>2. QED BY <1>1, <1>2, <1>6, <2>4, <2>5, <3>1 DEF DpTypes, DpOk
  <2>8. ASSUME d \notin dpmixed' PROVE DpKept(d)'
    <3>1. Underway(d, dproc[p]) /\ \A q \in DpProcs : q # p => dproc[q].dep # d
      BY <1>2, <1>3, <2>8, WorksAlone
    <3>2. Starting(d, dproc[p]) /\ dprec[d] = "ini"
      BY <1>2, <3>1 DEF Underway
    <3>3. /\ \A i \in 1 .. m : item[S[i]] = d \/ S[i] \in dptaken
          /\ \A i, j \in 1 .. m : S[i] = S[j] /\ i # j => S[i] \in dptaken
          /\ \A x \in Made(d) : \E i \in 1 .. m : x = S[i]
      BY <3>2 DEF Starting, FirstMade, First, m, S
    <3>4. \A i \in 1 .. m + 1 : i \in 1 .. m \/ i = m + 1
      BY <2>1
    <3>5. \A i \in 1 .. m : S[i] = n => n \in dptaken
      BY <1>3, <1>4, <2>5, <3>3
    <3>6. \A i \in 1 .. m : S[i] \in Names
      BY <2>1, LenProperties
    <3>7. \A i \in 1 .. m + 1 : item'[S[i]] = d \/ S[i] \in dptaken'
      BY <1>2, <2>1, <2>5, <3>3, <3>4, <3>6
    <3>8. \A i, j \in 1 .. m + 1 : S[i] = S[j] /\ i # j => S[i] \in dptaken'
      BY <1>2, <2>1, <3>3, <3>4, <3>5
    <3>9. \A x \in Made(d)' : \E i \in 1 .. m + 1 : x = S[i]
      <4>1. \A x \in Made(d)' : x = n \/ x \in Made(d)
        BY <2>5 DEF Made
      <4>2. \A i \in 1 .. m : i \in 1 .. m + 1
        BY <2>1
      <4>3. m + 1 \in 1 .. m + 1
        BY <2>1
      <4>4. QED BY <2>1, <3>3, <4>1, <4>2, <4>3
    <3>10. Starting(d, dproc[p])'
      <4>1. /\ \A x \in {S[i] : i \in 1 .. m + 1} : item'[x] = d \/ x \in dptaken'
            /\ Made(d)' \subseteq {S[i] : i \in 1 .. m + 1}
        BY <3>7, <3>9
      <4>2. Started(dproc'[p]) = m + 1
        BY <2>3, <2>4
      <4>3. QED BY <3>8, <4>1, <4>2 DEF Starting, FirstMade, First, S
    <3>11. Underway(d, dproc[p])'
      BY <1>2, <2>3, <2>4, <3>2, <3>10 DEF Underway
    <3>12. QED BY <1>1, <1>3, <1>4, <2>3, <2>4, <3>1, <3>11, DeployHere
  <2>9. \A e \in Deps \ dpmixed' : DpKept(e)'
    BY <1>2, <1>3, <1>4, <2>3, <2>4, <2>6, <2>8, KeptOthers
  <2>10. QED BY <2>7, <2>9 DEF DpInv
<1>7. QED BY <1>3, <1>5, <1>6 DEF StartItem

LEMMA StartIdsStep ==
  ASSUME DpInv, NEW p \in DpProcs, StartIds(p)
  PROVE  DpInv'
<1>1. DpTypes /\ dpfaults \in Nat /\ dprestarts \in Nat /\ dpdown \in BOOLEAN /\ dpfaults + dprestarts <= DpMaxFaults
  BY DEF DpInv, DpTypes
<1>2. CASE KindOf(dproc[p].dep, Head(dproc[p].todo)) = FN
  BY <1>1, <1>2, StartFails DEF StartIds, dpBounds
<1>3. CASE KindOf(dproc[p].dep, Head(dproc[p].todo)) # FN
  <2>1. UNCHANGED <<dprec, dpids, item, dproc, dpmixed, dptaken, dpfaults, dprestarts, dpuser>> /\ dpdown' \in BOOLEAN
    BY <1>3 DEF StartIds, dpBounds
  <2>2. DpTypes'
    BY <1>1, <2>1 DEF DpTypes
  <2>3. ASSUME NEW e \in Deps, e \notin dpmixed' PROVE DpKept(e)'
    <3>1. OnlyTaken(e)
      BY <1>1, <2>1, NothingTaken
    <3>2. QED BY <1>1, <2>1, <2>3, <3>1, DeployElsewhere DEF DpInv
  <2>4. QED BY <2>2, <2>3 DEF DpInv
<1>4. QED BY <1>2, <1>3

LEMMA StartDoneStep ==
  ASSUME DpInv, NEW p \in DpProcs, StartDone(p)
  PROVE  DpInv'
<1>1. DpTypes
  BY DEF DpInv
<1>2. /\ dproc[p].op = "start" /\ dproc[p].todo = <<>>
      /\ UNCHANGED <<item, dpdown, dpmixed, dptaken, dpfaults, dprestarts, dpuser>>
  BY DEF StartDone, dpBounds
<1>3. PICK d \in Deps : d = dproc[p].dep
  BY <1>1, <1>2, AtItsWork
<1>4. IsRest(dproc[p]) /\ dproc[p] \in DprocRec
  BY <1>1, <1>2, AtItsWork
<1>5. /\ dprec' = [dprec EXCEPT ![d] = IF @ = "none" THEN @ ELSE "rdy"]
      /\ dpids' = dpids \cup {d} /\ DpSet(p, Idle)
  BY <1>3 DEF StartDone
<1>6. /\ dproc' \in [DpProcs -> DprocRec] /\ dproc'[p] = Idle
      /\ \A q \in DpProcs : q # p => dproc'[q] = dproc[q]
  BY <1>1, <1>5, GoesOn, IdleIsIdle
<1>7. /\ dprec \in [Deps -> DpStates] /\ dprec' \in [Deps -> DpStates]
      /\ dprec[d] # "none" => dprec'[d] = "rdy"
      /\ \A e \in Deps : e # d => dprec'[e] = dprec[e]
  BY <1>1, <1>5 DEF DpTypes, DpStates
<1>8. DpTypes'
  BY <1>1, <1>2, <1>5, <1>6, <1>7 DEF DpTypes
<1>9. \A e \in Deps : OnlyTaken(e)
  BY <1>1, <1>2, NothingTaken DEF DpTypes
<1>10. ASSUME d \notin dpmixed' PROVE DpKept(d)'
  <2>1. Underway(d, dproc[p]) /\ \A q \in DpProcs : q # p => dproc[q].dep # d
    BY <1>2, <1>3, <1>10, WorksAlone
  <2>2. Starting(d, dproc[p]) /\ dprec[d] = "ini"
    BY <1>2, <2>1 DEF Underway
  <2>3. Started(dproc[p]) = Len(StartList(d)) /\ StartList(d) \in Seq(Names)
    BY <1>2, <1>3, <1>4, RestOfList
  <2>4. First(d, Started(dproc[p])) = ItemsOf(d)
    BY <2>3, RangeEquality DEF First, ItemsOf
  <2>5. \A n \in ItemsOf(d) : item[n] = d \/ n \in dptaken
    BY <2>2, <2>4 DEF Starting, FirstMade
  <2>6. Standing(d)'
    BY <1>2, <1>7, <2>2, <2>5 DEF Standing
  <2>7. dproc'[p].dep # d
    BY <1>6, IdleIsIdle
  <2>8. QED BY <1>1, <1>6, <2>1, <2>6, <2>7, DeployHere
<1>11. \A e \in Deps \ dpmixed' : DpKept(e)'
  BY <1>2, <1>3, <1>6, <1>7, <1>9, <1>10, KeptOthers, IdleIsIdle
<1>12. QED BY <1>8, <1>11 DEF DpInv

\* What a goroutine goes on with after the next item.
LEMMA NextItem ==
  ASSUME DpTypes, NEW p \in DpProcs, dproc[p].op \notin {"idle", "start"}, dproc[p].todo # <<>>,
         NEW r, r.op = dproc[p].op, r.dep = dproc[p].dep, r.todo = Tail(dproc[p].todo),
         dproc[p] \in DprocFields
         /\ Tail(dproc[p].todo) \in Seq(Names)
         => r \in DprocFields
  PROVE  r \in DprocRec /\ Head(dproc[p].todo) \in Names
<1>1. /\ dproc[p] \in DprocFields
      /\ dproc[p].dep # NoDep /\ Range(dproc[p].todo) \subseteq ItemsOf(dproc[p].dep)
  BY DEF DpTypes, DprocRec
<1>2. /\ Tail(dproc[p].todo) \in Seq(Names) /\ Head(dproc[p].todo) \in Names
      /\ Range(Tail(dproc[p].todo)) \subseteq ItemsOf(dproc[p].dep)
  BY <1>1, HeadAndTail
<1>3. r \in DprocFields
  BY <1>1, <1>2
<1>4. QED BY <1>1, <1>2, <1>3 DEF DprocRec

LEMMA UndoItemStep ==
  ASSUME DpInv, NEW p \in DpProcs, UndoItem(p)
  PROVE  DpInv'
<1> DEFINE n == Head(dproc[p].todo)
<1> DEFINE t == dproc[p].todo
<1> DEFINE r == [dproc[p] EXCEPT !.todo = Tail(@)]
<1>1. DpTypes /\ dpfaults \in Nat /\ dprestarts \in Nat /\ dpfaults + dprestarts <= DpMaxFaults
  BY DEF DpInv, DpTypes
<1>2. /\ dproc[p].op = "undo" /\ t # <<>>
      /\ UNCHANGED <<dprec, dpids, dpdown, dpmixed, dprestarts, dpuser>>
  BY DEF UndoItem
<1>3. PICK d \in Deps : d = dproc[p].dep
  BY <1>1, <1>2, AtItsWork
<1>4. t \in Seq(Names) /\ dproc[p] \in DprocRec /\ dproc[p].err \in BOOLEAN
  BY <1>1, <1>2, AtItsWork
<1>5. r \in DprocRec /\ r.op = "undo" /\ r.dep = d /\ r.todo = Tail(t) /\ n \in Names
  <2>1. dproc[p].op \notin {"idle", "start"} /\ dproc[p].op = "undo"
    BY <1>2
  <2>2. r.op = "undo" /\ r.dep = d /\ r.todo = Tail(t)
    BY <1>2, <1>3, <1>4 DEF DprocRec
  <2>3. dproc[p] \in DprocFields
        /\ Tail(t) \in Seq(Names)
        => r \in DprocFields
    OBVIOUS
  <2> HIDE DEF r
  <2>4. QED BY <1>1, <1>2, <1>3, <1>4, <2>1, <2>2, <2>3, NextItem
<1>6. DpSet(p, r)
  BY DEF UndoItem
<1> HIDE DEF r
<1>7. /\ dproc' \in [DpProcs -> DprocRec] /\ dproc'[p] = r
      /\ \A q \in DpProcs : q # p => dproc'[q] = dproc[q]
  BY <1>1, <1>5, <1>6, GoesOn
<1>8. /\ Len(t) \in Nat \ {0} /\ Len(Tail(t)) = Len(t) - 1 /\ n = t[1]
      /\ \A i \in 1 .. Len(Tail(t)) : Tail(t)[i] = t[i + 1]
      /\ Range(t) \subseteq Range(Tail(t)) \cup {n}
  BY <1>2, <1>4, HeadAndTail
<1>9. d \notin dpmixed' =>
        /\ \A q \in DpProcs : q # p => dproc[q].dep # d
        /\ Undoing(d, dproc[p]) /\ dprec[d] = "ini"
  BY <1>2, <1>3, WorksAlone DEF Underway
<1>10. \A i \in 1 .. Len(Tail(t)) : i + 1 \in 1 .. Len(t) /\ i + 1 # 1 /\ t[i + 1] \in Names
  <2>1. \A i \in 1 .. Len(t) : t[i] \in Names
    BY <1>4, LenProperties
  <2> HIDE DEF t
  <2>2. \A i \in 1 .. Len(Tail(t)) : i + 1 \in 1 .. Len(t) /\ i + 1 # 1
    BY <1>8
  <2>3. QED BY <2>1, <2>2
<1>11. 1 \in 1 .. Len(t)
  BY <1>8
<1>12. /\ item' \in [Names -> {NoItem, User} \cup Deps] /\ dptaken' \subseteq Names
       /\ \A e \in Deps, x \in Names : item'[x] = e => item[x] = e
       /\ dpfaults' \in Nat /\ dpfaults' + dprestarts <= DpMaxFaults
       /\ \A e \in Deps : e # d => OnlyTaken(e)
       /\ dptaken \subseteq dptaken'
       /\ \A x \in Names : x # n => item'[x] = item[x]
       /\ dpfaults' = 0 => dpfaults = 0 /\ item'[n] = NoItem
  <2>1. CASE TakeItem(n, d) /\ DpOk
    BY <1>1, <1>5, <2>1, ItemTaken DEF DpOk
  <2>2. CASE DpFault /\ UNCHANGED <<item, dptaken>>
    <3>1. dpfaults' = dpfaults + 1 /\ dpfaults' + dprestarts <= DpMaxFaults /\ dpfaults' # 0
      BY <1>1, <2>2, DpAssumption DEF DpFault
    <3>2. \A e \in Deps : OnlyTaken(e)
      BY <1>1, <2>2, <3>1, NothingTaken
    <3>3. QED BY <1>1, <2>2, <3>1, <3>2 DEF DpTypes
  <2>3. QED BY <1>3, <2>1, <2>2 DEF UndoItem
<1>13. DpTypes'
  BY <1>1, <1>2, <1>7, <1>12 DEF DpTypes
<1>14. ASSUME d \notin dpmixed' PROVE DpKept(d)'
  <2>1. /\ \A i \in 1 .. Len(t) : item[t[i]] = d \/ t[i] \in dptaken
        /\ \A i, j \in 1 .. Len(t) : t[i] = t[j] /\ i # j => t[i] \in dptaken
        /\ dpfaults = 0 =>
              Made(d) \subseteq Range(t) \cup LastOf(OfDep(d, MW)) \cup LastOf(OfDep(d, FN))
    BY <1>9, <1>14 DEF Undoing
  <2>2. \A i \in 1 .. Len(Tail(t)) : item'[Tail(t)[i]] = d \/ Tail(t)[i] \in dptaken'
    <3> SUFFICES ASSUME NEW i \in 1 .. Len(Tail(t)) PROVE item'[Tail(t)[i]] = d \/ Tail(t)[i] \in dptaken'
      OBVIOUS
    <3>1. Tail(t)[i] = t[i + 1] /\ i + 1 \in 1 .. Len(t) /\ i + 1 # 1 /\ t[i + 1] \in Names
      BY <1>8, <1>10
    <3>2. t[i + 1] = n => t[i + 1] \in dptaken
      BY <1>8, <1>11, <2>1, <3>1
    <3> HIDE DEF n, t
    <3>3. QED BY <1>12, <2>1, <3>1, <3>2
  <2>3. \A i, j \in 1 .. Len(Tail(t)) : Tail(t)[i] = Tail(t)[j] /\ i # j => Tail(t)[i] \in dptaken'
    <3> SUFFICES ASSUME NEW i \in 1 .. Len(Tail(t)), NEW j \in 1 .. Len(Tail(t)), i # j,
                        Tail(t)[i] = Tail(t)[j]
                 PROVE  Tail(t)[i] \in dptaken'
      OBVIOUS
    <3>1. Tail(t)[i] = t[i + 1] /\ i + 1 \in 1 .. Len(t) /\ Tail(t)[j] = t[j + 1] /\ j + 1 \in 1 .. Len(t)
      BY <1>8, <1>10
    <3>2. i + 1 # j + 1
      OBVIOUS
    <3>3. t[i + 1] \in dptaken
      BY <2>1, <3>1, <3>2
    <3>4. QED BY <1>12, <3>1, <3>3
  <2>4. ASSUME dpfaults' = 0
        PROVE  Made(d)' \subseteq Range(Tail(t)) \cup LastOf(OfDep(d, MW)) \cup LastOf(OfDep(d, FN))
    <3>1. Made(d)' \subseteq Made(d) \ {n}
      BY <1>12, <2>4, DpAssumption DEF Made
    <3>2. QED BY <1>8, <1>12, <2>1, <2>4, <3>1
  <2>5. Undoing(d, dproc[p])'
    BY <1>5, <1>7, <2>2, <2>3, <2>4 DEF Undoing
  <2>6. Underway(d, dproc[p])'
    BY <1>2, <1>5, <1>7, <1>9, <1>14, <2>5 DEF Underway
  <2>7. QED BY <1>1, <1>5, <1>7, <1>9, <1>14, <2>6, DeployHere
<1>15. \A e \in Deps \ dpmixed' : DpKept(e)'
  BY <1>2, <1>3, <1>5, <1>7, <1>12, <1>14, KeptOthers
<1>16. QED BY <1>13, <1>15 DEF DpInv

LEMMA UndoDoneStep ==
  ASSUME DpInv, NEW p \in DpProcs, UndoDone(p)
  PROVE  DpInv'
<1>1. DpTypes
  BY DEF DpInv
<1>2. /\ dproc[p].op = "undo" /\ dproc[p].todo = <<>>
      /\ UNCHANGED <<dpids, item, dpdown, dpmixed, dptaken, dpfaults, dprestarts, dpuser>>
  BY DEF UndoDone, dpBounds
<1>3. PICK d \in Deps : d = dproc[p].dep
  BY <1>1, <1>2, AtItsWork
<1>4. dprec' = [dprec EXCEPT ![d] = IF @ = "none" THEN @ ELSE "stl"] /\ DpSet(p, Idle)
  BY <1>3 DEF UndoDone
<1>5. /\ dproc' \in [DpProcs -> DprocRec] /\ dproc'[p] = Idle
      /\ \A q \in DpProcs : q # p => dproc'[q] = dproc[q]
  BY <1>1, <1>4, GoesOn, IdleIsIdle
<1>6. /\ dprec \in [Deps -> DpStates] /\ dprec' \in [Deps -> DpStates]
      /\ dprec[d] # "none" => dprec'[d] = "stl"
      /\ \A e \in Deps : e # d => dprec'[e] = dprec[e]
  BY <1>1, <1>4 DEF DpTypes, DpStates
<1>7. DpTypes'
  BY <1>1, <1>2, <1>5, <1>6 DEF DpTypes
<1>8. \A e \in Deps : OnlyTaken(e)
  BY <1>1, <1>2, NothingTaken DEF DpTypes
<1>9. ASSUME d \notin dpmixed' PROVE DpKept(d)'
  <2>1. Underway(d, dproc[p]) /\ \A q \in DpProcs : q # p => dproc[q].dep # d
    BY <1>2, <1>3, <1>9, WorksAlone
  <2>2. Undoing(d, dproc[p]) /\ dprec[d] = "ini"
    BY <1>2, <2>1 DEF Underway
  <2>3. Range(dproc[p].todo) = {}
    <3>1. <<>> \in Seq(Names) /\ Len(<<>>) = 0
      BY EmptySeq
    <3>2. Range(<<>>) = {<<>>[i] : i \in 1 .. Len(<<>>)}
      BY <3>1, RangeEquality
    <3>3. Range(<<>>) = {}
      BY <3>1, <3>2
    <3>4. QED BY <1>2, <3>3
  <2>4. Standing(d)'
    BY <1>2, <1>6, <2>2, <2>3 DEF Standing, Undoing, Made
  <2>5. dproc'[p].dep # d
    BY <1>5, IdleIsIdle
  <2>6. QED BY <1>1, <1>5, <2>1, <2>4, <2>5, DeployHere
<1>10. \A e \in Deps \ dpmixed' : DpKept(e)'
  BY <1>2, <1>3, <1>5, <1>6, <1>8, <1>9, KeptOthers, IdleIsIdle
<1>11. QED BY <1>7, <1>10 DEF DpInv

LEMMA DelMarkStep ==
  ASSUME DpInv, NEW p \in DpProcs, NEW d \in Deps, DpDelMark(p, d)
  PROVE  DpInv'
<1> DEFINE r == [Idle EXCEPT !.op = "del", !.dep = d, !.todo = StopList(d)]
<1>1. DpTypes
  BY DEF DpInv
<1>2. StopList(d) \in Seq(Names) /\ Range(StopList(d)) = ItemsOf(d) /\ d # NoDep
  BY ItemLists, DpAssumption
<1>3. /\ dproc[p].op = "idle" /\ dprec' = [dprec EXCEPT ![d] = "trm"] /\ DpSet(p, r)
      /\ dpmixed' = IF Working(d) THEN dpmixed \cup {d} ELSE dpmixed
      /\ UNCHANGED <<dpids, item, dpdown, dptaken, dpfaults, dprestarts, dpuser>>
  BY DEF DpDelMark, dpBounds
<1>4. /\ r.op = "del" /\ r.dep = d /\ r.todo = StopList(d) /\ r.err = FALSE
      /\ r \in DprocFields
  <2>1. Idle \in DprocFields
    BY IdleIsIdle DEF DprocRec
  <2>2. r.op = "del" /\ r.dep = d /\ r.todo = StopList(d) /\ r.err = FALSE
    BY DEF Idle
  <2>3. r \in DprocFields
    BY <1>2, <2>1 DEF Ops
  <2>4. QED BY <2>2, <2>3
<1> HIDE DEF r
<1>5. r \in DprocRec
  BY <1>2, <1>4 DEF DprocRec
<1>6. /\ dproc' \in [DpProcs -> DprocRec] /\ dproc'[p] = r
      /\ \A q \in DpProcs : q # p => dproc'[q] = dproc[q]
  BY <1>1, <1>3, <1>5, GoesOn
<1>7. /\ dprec' \in [Deps -> DpStates] /\ dprec'[d] = "trm"
      /\ \A e \in Deps : e # d => dprec'[e] = dprec[e]
  BY <1>1, <1>3 DEF DpTypes, DpStates
<1>8. dpmixed' \subseteq Deps /\ dpmixed \subseteq dpmixed'
  BY <1>1, <1>3 DEF DpTypes
<1>9. DpTypes'
  BY <1>1, <1>3, <1>6, <1>7, <1>8 DEF DpTypes
<1>10. \A e \in Deps : OnlyTaken(e)
  BY <1>1, <1>3, NothingTaken DEF DpTypes
<1>11. ASSUME d \notin dpmixed' PROVE DpKept(d)'
  <2>1. \A q \in DpProcs : q # p => dproc[q].dep # d
    BY <1>3, <1>11 DEF Working
  <2>2. Made(d) \subseteq Range(StopList(d))
    BY <1>1, <1>2 DEF DpTypes, Made
  <2>3. Made(d)' = Made(d)
    BY <1>3 DEF Made
  <2>4. Stopping(d, dproc[p])'
    BY <1>4, <1>6, <2>2, <2>3 DEF Stopping
  <2>5. Underway(d, dproc[p])'
    BY <1>4, <1>6, <1>7, <2>4 DEF Underway
  <2>6. QED BY <1>1, <1>4, <1>6, <2>1, <2>5, DeployHere
<1>12. dproc[p].dep = NoDep
  BY <1>1, <1>3 DEF DpTypes, DprocRec
<1>13. \A e \in Deps \ dpmixed' : DpKept(e)'
  BY <1>4, <1>6, <1>7, <1>8, <1>10, <1>11, <1>12, KeptOthers
<1>14. QED BY <1>9, <1>13 DEF DpInv

\* Stopping an item goes on to the next one, or gives up after an error.
LEMMA StopGoesOn ==
  ASSUME DpInv, NEW p \in DpProcs, StopItem(p)
  PROVE  \E s \in DprocRec :
            /\ DpSet(p, s)
            /\ \/ s = Idle
               \/ /\ s.op = dproc[p].op /\ s.dep = dproc[p].dep /\ s.todo = Tail(dproc[p].todo)
                  /\ \/ s.err = TRUE /\ s.todo # <<>>
                     \/ /\ s.err = FALSE /\ dproc[p].err = FALSE
                        /\ TakeItem(Head(dproc[p].todo), dproc[p].dep) /\ DpOk
<1> DEFINE d == dproc[p].dep
<1> DEFINE n == Head(dproc[p].todo)
<1> DEFINE rest == Tail(dproc[p].todo)
<1> DEFINE ends == rest = <<>> \/ KindOf(d, Head(rest)) # KindOf(d, n)
<1> DEFINE on(b) == [dproc[p] EXCEPT !.todo = rest, !.err = b]
<1>1. DpTypes
  BY DEF DpInv
<1>2. dproc[p].op \in {"del", "restop", "fin"} /\ dproc[p].todo # <<>>
  BY DEF StopItem
<1>3. dproc[p] \in DprocRec /\ (dproc[p].err = TRUE \/ dproc[p].err = FALSE)
  BY <1>1, <1>2, AtItsWork
<1>4. /\ on(TRUE).op = dproc[p].op /\ on(TRUE).dep = d /\ on(TRUE).todo = rest /\ on(TRUE).err = TRUE
      /\ on(TRUE) \in DprocRec
  <2> DEFINE r == on(TRUE)
  <2>1. r.op = dproc[p].op /\ r.dep = dproc[p].dep /\ r.todo = Tail(dproc[p].todo) /\ r.err = TRUE
    BY <1>3 DEF DprocRec
  <2>2. dproc[p] \in DprocFields
        /\ Tail(dproc[p].todo) \in Seq(Names)
        => r \in DprocFields
    OBVIOUS
  <2> HIDE DEF r
  <2>3. r \in DprocRec
    BY <1>1, <1>2, <2>1, <2>2, NextItem
  <2>4. QED BY <2>1, <2>3 DEF r
<1>5. /\ on(FALSE).op = dproc[p].op /\ on(FALSE).dep = d /\ on(FALSE).todo = rest /\ on(FALSE).err = FALSE
      /\ on(FALSE) \in DprocRec
  <2> DEFINE r == on(FALSE)
  <2>1. r.op = dproc[p].op /\ r.dep = dproc[p].dep /\ r.todo = Tail(dproc[p].todo) /\ r.err = FALSE
    BY <1>3 DEF DprocRec
  <2>2. dproc[p] \in DprocFields
        /\ Tail(dproc[p].todo) \in Seq(Names)
        => r \in DprocFields
    OBVIOUS
  <2> HIDE DEF r
  <2>3. r \in DprocRec
    BY <1>1, <1>2, <2>1, <2>2, NextItem
  <2>4. QED BY <2>1, <2>3 DEF r
<1>6. \/ /\ TakeItem(n, d) /\ DpOk
         /\ DpSet(p, IF dproc[p].err /\ ends THEN Idle ELSE on(dproc[p].err))
      \/ DpSet(p, IF ends THEN Idle ELSE on(TRUE))
  BY DEF StopItem
<1>7. CASE DpSet(p, Idle)
  BY <1>7, IdleIsIdle
<1>8. CASE DpSet(p, on(TRUE)) /\ ~ends
  <2>1. rest # <<>>
    BY <1>8
  <2> HIDE DEF on, ends
  <2>2. QED BY <1>4, <1>8, <2>1
<1>9. CASE DpSet(p, on(FALSE)) /\ dproc[p].err = FALSE /\ TakeItem(n, d) /\ DpOk
  <2> HIDE DEF on, ends
  <2>1. QED BY <1>5, <1>9
<1>10. DpSet(p, Idle) \/ (DpSet(p, on(TRUE)) /\ ~ends)
       \/ (DpSet(p, on(FALSE)) /\ dproc[p].err = FALSE /\ TakeItem(n, d) /\ DpOk)
  <2> HIDE DEF ends
  <2>1. CASE dproc[p].err = TRUE
    BY <1>6, <2>1
  <2>2. CASE dproc[p].err = FALSE
    BY <1>6, <2>2
  <2>3. QED BY <1>3, <2>1, <2>2
<1>11. QED BY <1>7, <1>8, <1>9, <1>10

LEMMA StopItemStep ==
  ASSUME DpInv, NEW p \in DpProcs, StopItem(p)
  PROVE  DpInv'
<1> DEFINE n == Head(dproc[p].todo)
<1> DEFINE t == dproc[p].todo
<1>1. DpTypes /\ dpfaults \in Nat /\ dprestarts \in Nat /\ dpfaults + dprestarts <= DpMaxFaults
  BY DEF DpInv, DpTypes
<1>2. /\ dproc[p].op \in {"del", "restop", "fin"} /\ t # <<>>
      /\ UNCHANGED <<dprec, dpids, dpdown, dpmixed, dprestarts, dpuser>>
  BY DEF StopItem
<1>3. PICK d \in Deps : d = dproc[p].dep
  BY <1>1, <1>2, AtItsWork
<1>4. PICK s \in DprocRec :
            /\ DpSet(p, s)
            /\ \/ s = Idle
               \/ /\ s.op = dproc[p].op /\ s.dep = dproc[p].dep /\ s.todo = Tail(dproc[p].todo)
                  /\ \/ s.err = TRUE /\ s.todo # <<>>
                     \/ /\ s.err = FALSE /\ dproc[p].err = FALSE
                        /\ TakeItem(Head(dproc[p].todo), dproc[p].dep) /\ DpOk
  BY StopGoesOn
<1>5. t \in Seq(Names) /\ n \in Names /\ Range(t) \subseteq Range(Tail(t)) \cup {n}
  BY <1>1, <1>2, AtItsWork, HeadAndTail
<1>6. /\ dproc' \in [DpProcs -> DprocRec] /\ dproc'[p] = s
      /\ \A q \in DpProcs : q # p => dproc'[q] = dproc[q]
  BY <1>1, <1>4, GoesOn
<1>7. /\ item' \in [Names -> {NoItem, User} \cup Deps] /\ dptaken' \subseteq Names
      /\ \A e \in Deps, x \in Names : item'[x] = e => item[x] = e
      /\ dpfaults' \in Nat /\ dpfaults' + dprestarts <= DpMaxFaults
      /\ \A e \in Deps : e # d => OnlyTaken(e)
  <2>1. CASE TakeItem(n, d) /\ DpOk
    BY <1>1, <1>5, <2>1, ItemTaken DEF DpOk
  <2>2. CASE DpFault /\ UNCHANGED <<item, dptaken>>
    <3>1. dpfaults' = dpfaults + 1 /\ dpfaults' + dprestarts <= DpMaxFaults /\ dpfaults' # 0
      BY <1>1, <2>2, DpAssumption DEF DpFault
    <3>2. \A e \in Deps : OnlyTaken(e)
      BY <1>1, <2>2, <3>1, NothingTaken
    <3>3. QED BY <1>1, <2>2, <3>1, <3>2 DEF DpTypes
  <2>3. QED BY <1>3, <2>1, <2>2 DEF StopItem
<1>8. DpTypes'
  BY <1>1, <1>2, <1>6, <1>7 DEF DpTypes
<1>9. ASSUME d \notin dpmixed' PROVE DpKept(d)'
  <2>1. Underway(d, dproc[p]) /\ \A q \in DpProcs : q # p => dproc[q].dep # d
    BY <1>2, <1>3, <1>9, WorksAlone
  <2>2. /\ Stopping(d, dproc[p])
        /\ dproc[p].op = "restop" => dprec[d] = "ini"
        /\ dproc[p].op \in {"del", "fin"} => dprec[d] = "trm"
    BY <1>2, <2>1 DEF Underway
  <2>3. CASE s = Idle
    <3>1. Standing(d)'
      BY <1>2, <2>2 DEF Standing
    <3>2. dproc'[p].dep # d
      BY <1>6, <2>3, IdleIsIdle
    <3>3. QED BY <1>1, <1>6, <2>1, <3>1, <3>2, DeployHere
  <2>4. CASE s # Idle
    <3>1. s.op = dproc[p].op /\ s.dep = d /\ s.todo = Tail(t)
      BY <1>3, <1>4, <2>4
    <3>2. Stopping(d, dproc[p])'
      <4>1. CASE s.err = TRUE /\ s.todo # <<>>
        BY <1>6, <4>1 DEF Stopping
      <4>2. CASE s.err = FALSE /\ dproc[p].err = FALSE /\ TakeItem(n, d) /\ DpOk
        <5>1. item'[n] = NoItem /\ d # NoItem
          BY <1>1, <1>5, <4>2, ItemTaken, DpAssumption DEF DpOk
        <5>2. Made(d)' \subseteq Made(d) \ {n}
          BY <1>7, <5>1 DEF Made
        <5>3. Made(d) \subseteq Range(t)
          BY <2>2, <4>2 DEF Stopping
        <5>4. Made(d)' \subseteq Range(s.todo)
          BY <1>5, <3>1, <5>2, <5>3
        <5>5. QED BY <1>6, <4>2, <5>4 DEF Stopping
      <4>3. QED BY <1>3, <1>4, <2>4, <4>1, <4>2
    <3>3. Underway(d, dproc[p])'
      BY <1>2, <1>6, <2>2, <3>1, <3>2 DEF Underway
    <3>4. QED BY <1>1, <1>6, <2>1, <3>1, <3>3, DeployHere
  <2>5. QED BY <2>3, <2>4
<1>10. s.dep \in {d, NoDep}
  BY <1>3, <1>4, IdleIsIdle
<1>11. \A e \in Deps \ dpmixed' : DpKept(e)'
  BY <1>2, <1>3, <1>6, <1>7, <1>9, <1>10, KeptOthers
<1>12. QED BY <1>8, <1>11 DEF DpInv

LEMMA StopDoneStep ==
  ASSUME DpInv, NEW p \in DpProcs, StopDone(p)
  PROVE  DpInv'
<1> DEFINE r == [dproc[p] EXCEPT !.op = "start", !.todo = StartList(dproc[p].dep)]
<1>1. DpTypes
  BY DEF DpInv
<1>2. /\ dproc[p].op \in {"del", "restop", "fin"} /\ dproc[p].todo = <<>>
      /\ UNCHANGED <<dpids, item, dpdown, dpmixed, dptaken, dpfaults, dprestarts, dpuser>>
  BY DEF StopDone, dpBounds
<1>3. PICK d \in Deps : d = dproc[p].dep
  BY <1>1, <1>2, AtItsWork
<1>4. StartList(d) \in Seq(Names) /\ Len(StartList(d)) \in Nat /\ Range(StartList(d)) = ItemsOf(d) /\ d # NoDep
  BY <1>3, ItemLists, LenProperties, DpAssumption DEF ItemsOf
<1>5. dproc[p] \in DprocFields
  BY <1>1 DEF DpTypes, DprocRec
<1>6. /\ r.op = "start" /\ r.dep = d /\ r.todo = StartList(d)
      /\ r \in DprocFields
  <2>1. r.op = "start" /\ r.dep = d /\ r.todo = StartList(d)
    BY <1>3, <1>5
  <2>2. r \in DprocFields
    BY <1>3, <1>4, <1>5 DEF Ops
  <2>3. QED BY <2>1, <2>2
<1>7. dproc[p].op = "restop" => DpSet(p, r)
  BY DEF StopDone
<1>8. /\ dproc[p].op # "restop" => DpSet(p, Idle)
      /\ dproc[p].op = "del" => dprec' = [dprec EXCEPT ![d] = "none"]
      /\ dproc[p].op # "del" => dprec' = dprec
  BY <1>3 DEF StopDone
<1> HIDE DEF r
<1>9. r \in DprocRec /\ Started(r) = 0
  <2>1. Started(r) = 0
    BY <1>4, <1>6 DEF Started
  <2>2. StartList(d) = SubSeq(StartList(d), 0 + 1, Len(StartList(d)))
    BY <1>4, SubSeqFull
  <2>3. IsRest(r)
    BY <1>4, <1>6, <2>1, <2>2 DEF IsRest
  <2>4. QED BY <1>4, <1>6, <2>1, <2>3 DEF DprocRec
<1>10. PICK s \in DprocRec :
          /\ DpSet(p, s)
          /\ dproc[p].op = "restop" => s = r
          /\ dproc[p].op # "restop" => s = Idle
  BY <1>7, <1>8, <1>9, IdleIsIdle
<1>11. /\ dproc' \in [DpProcs -> DprocRec] /\ dproc'[p] = s
       /\ \A q \in DpProcs : q # p => dproc'[q] = dproc[q]
  BY <1>1, <1>10, GoesOn
<1>12. /\ dprec \in [Deps -> DpStates] /\ dprec' \in [Deps -> DpStates]
       /\ \A e \in Deps : e # d => dprec'[e] = dprec[e]
  BY <1>1, <1>8 DEF DpTypes, DpStates
<1>13. DpTypes'
  BY <1>1, <1>2, <1>11, <1>12 DEF DpTypes
<1>14. \A e \in Deps : OnlyTaken(e)
  BY <1>1, <1>2, NothingTaken DEF DpTypes
<1>15. ASSUME d \notin dpmixed' PROVE DpKept(d)'
  <2>1. Underway(d, dproc[p]) /\ \A q \in DpProcs : q # p => dproc[q].dep # d
    BY <1>2, <1>3, <1>15, WorksAlone
  <2>2. /\ Stopping(d, dproc[p])
        /\ dproc[p].op = "restop" => dprec[d] = "ini"
        /\ dproc[p].op \in {"del", "fin"} => dprec[d] = "trm"
    BY <1>2, <2>1 DEF Underway
  <2>3. Range(<<>>) = {}
    <3>1. <<>> \in Seq(Names) /\ Len(<<>>) = 0
      BY EmptySeq
    <3>2. Range(<<>>) = {<<>>[i] : i \in 1 .. Len(<<>>)}
      BY <3>1, RangeEquality
    <3>3. QED BY <3>1, <3>2
  <2>4. Made(d) = {}
    BY <1>2, <2>2, <2>3 DEF Stopping
  <2>5. Made(d)' = {}
    BY <1>2, <2>4 DEF Made
  <2>6. CASE dproc[p].op = "restop"
    <3>1. s = r
      BY <1>10, <2>6
    <3>2. Starting(d, dproc[p])'
      BY <1>9, <1>11, <2>5, <3>1 DEF Starting, FirstMade, First
    <3>3. Underway(d, dproc[p])'
      BY <1>6, <1>8, <1>11, <2>2, <2>6, <3>1, <3>2 DEF Underway
    <3>4. QED BY <1>1, <1>6, <1>11, <2>1, <3>1, <3>3, DeployHere
  <2>7. CASE dproc[p].op # "restop"
    <3>1. dprec'[d] \in {"none", "trm"}
      BY <1>2, <1>8, <1>12, <2>2, <2>7
    <3>2. Standing(d)'
      BY <2>5, <3>1 DEF Standing
    <3>3. dproc'[p].dep # d
      BY <1>10, <1>11, <2>7, IdleIsIdle
    <3>4. QED BY <1>1, <1>11, <2>1, <3>2, <3>3, DeployHere
  <2>8. QED BY <2>6, <2>7
<1>16. s.dep \in {d, NoDep}
  BY <1>6, <1>10, IdleIsIdle
<1>17. \A e \in Deps \ dpmixed' : DpKept(e)'
  BY <1>2, <1>3, <1>11, <1>12, <1>14, <1>15, <1>16, KeptOthers
<1>18. QED BY <1>13, <1>17 DEF DpInv

LEMMA UserItemStep ==
  ASSUME DpInv, NEW n \in Names, UserItem(n)
  PROVE  DpInv'
<1>1. DpTypes /\ dpuser \in Nat /\ dpuser < DpMaxUser /\ DpMaxUser \in Nat
  BY DpAssumption DEF DpInv, DpTypes, UserItem
<1>2. UNCHANGED <<dprec, dpids, dproc, dpdown, dpmixed, dpfaults, dprestarts>> /\ dpuser' = dpuser + 1
  BY DEF UserItem
<1>3. User \notin Deps /\ NoItem \notin Deps
  BY DpAssumption
<1>4. /\ item' \in [Names -> {NoItem, User} \cup Deps] /\ dptaken' \subseteq Names
      /\ \A e \in Deps, x \in Names : item'[x] = e => item[x] = e
      /\ \A e \in Deps : OnlyTaken(e)
  <2>1. CASE item[n] = NoItem /\ item' = [item EXCEPT ![n] = User] /\ UNCHANGED dptaken
    <3>1. item \in [Names -> {NoItem, User} \cup Deps] /\ dptaken \subseteq Names
      BY <1>1 DEF DpTypes
    <3>2. item' \in [Names -> {NoItem, User} \cup Deps]
      BY <2>1, <3>1
    <3>3. \A e \in Deps, x \in Names : item'[x] = e <=> item[x] = e
      BY <1>3, <2>1, <3>1
    <3>4. \A e \in Deps : OnlyTaken(e)
      BY <1>2, <2>1, <3>3 DEF OnlyTaken
    <3>5. QED BY <2>1, <3>1, <3>2, <3>3, <3>4
  <2>2. CASE TakeItem(n, User)
    BY <1>1, <1>2, <1>3, <2>2, ItemTaken
  <2>3. QED BY <2>1, <2>2 DEF UserItem
<1>5. DpTypes'
  BY <1>1, <1>2, <1>4 DEF DpTypes
<1>6. ASSUME NEW e \in Deps, e \notin dpmixed' PROVE DpKept(e)'
  BY <1>1, <1>2, <1>4, <1>6, DeployElsewhere DEF DpInv
<1>7. QED BY <1>5, <1>6 DEF DpInv

LEMMA DpRestartStep ==
  ASSUME DpInv, DpRestart
  PROVE  DpInv'
<1> DEFINE stored == {d \in Deps : dprec[d] # "none"}
<1> DEFINE unfinished == {d \in stored : dprec[d] \in {"ini", "trm"}}
<1> DEFINE Op(d) == IF dprec[d] = "ini" THEN "restop" ELSE "fin"
<1>1. DpTypes /\ dpfaults \in Nat /\ dprestarts \in Nat
  BY DEF DpInv, DpTypes
<1>2. /\ dpfaults + dprestarts < DpMaxFaults /\ dprestarts' = dprestarts + 1 /\ dpdown' = FALSE
      /\ UNCHANGED <<dprec, dpids, item, dptaken, dpfaults, dpuser>>
  BY DEF DpRestart
<1>3. PICK proc \in [unfinished -> DpProcs], sees \in [unfinished -> stored] :
        /\ IsInjective(proc)
        /\ dproc' = [p \in DpProcs |->
                IF \E d \in unfinished : proc[d] = p
                THEN LET d == CHOOSE d \in unfinished : proc[d] = p
                     IN  [op |-> Op(d), dep |-> sees[d], todo |-> StopList(sees[d]),
                          err |-> FALSE, ids |-> sees[d] \in dpids]
                ELSE Idle]
        /\ dpmixed' = dpmixed \cup UNION {{e, sees[e]} : e \in {e \in unfinished : sees[e] # e}}
  BY DEF DpRestart
<1>4. \A d \in unfinished : d \in Deps /\ sees[d] \in Deps /\ dprec[sees[d]] # "none"
  BY <1>3
<1>5. \A d, e \in unfinished : proc[d] = proc[e] => d = e
  BY <1>3 DEF IsInjective
<1> DEFINE Seen(d) == sees[d] \in dpids
<1> DEFINE Rec(d) == [op |-> Op(d), dep |-> sees[d], todo |-> StopList(sees[d]),
                     err |-> FALSE, ids |-> Seen(d)]
<1> DEFINE Goes(p) == IF \E d \in unfinished : proc[d] = p
                     THEN Rec(CHOOSE d \in unfinished : proc[d] = p) ELSE Idle
<1>16. dproc' = [p \in DpProcs |-> Goes(p)]
  BY <1>3
<1>17. \A d : Seen(d) \in BOOLEAN
  OBVIOUS
<1> HIDE DEF Op, Seen
<1>6. ASSUME NEW d \in unfinished
      PROVE  /\ Goes(proc[d]) = Rec(d) /\ dproc'[proc[d]] = Rec(d)
             /\ Rec(d).op = Op(d) /\ Rec(d).dep = sees[d]
             /\ Rec(d).todo = StopList(sees[d]) /\ Rec(d).err = FALSE
  <2> DEFINE c == CHOOSE e \in unfinished : proc[e] = proc[d]
  <2>1. c \in unfinished /\ proc[c] = proc[d]
    OBVIOUS
  <2>2. c = d
    BY <1>5, <2>1
  <2>3. proc[d] \in DpProcs
    BY <1>3
  <2>4. Goes(proc[d]) = Rec(c)
    OBVIOUS
  <2>5. Rec(d).op = Op(d) /\ Rec(d).dep = sees[d] /\ Rec(d).todo = StopList(sees[d]) /\ Rec(d).err = FALSE
    OBVIOUS
  <2> HIDE DEF unfinished, Goes, Rec
  <2>6. dproc'[proc[d]] = Goes(proc[d])
    BY <1>16, <2>3
  <2>7. QED BY <2>2, <2>4, <2>5, <2>6
<1>7. ASSUME NEW p \in DpProcs, \A d \in unfinished : proc[d] # p
      PROVE  Goes(p) = Idle /\ dproc'[p] = Idle
  <2>1. Goes(p) = Idle
    BY <1>7
  <2> HIDE DEF Goes
  <2>2. QED BY <1>16, <2>1
<1>8. \A d \in Deps : StopList(d) \in Seq(Names) /\ Range(StopList(d)) = ItemsOf(d) /\ d # NoDep
  BY ItemLists, DpAssumption
<1>9. \A d : Op(d) \in {"restop", "fin"}
  BY DEF Op
<1>10. dproc' \in [DpProcs -> DprocRec]
  <2>1. ASSUME NEW p \in DpProcs PROVE Goes(p) \in DprocRec
    <3>1. CASE \A d \in unfinished : proc[d] # p
      BY <1>7, <3>1, IdleIsIdle
    <3>2. CASE \E d \in unfinished : proc[d] = p
      <4>1. PICK d \in unfinished : proc[d] = p
        BY <3>2
      <4>2. sees[d] \in Deps
        BY <1>4
      <4>3. Op(d) \in Ops /\ Op(d) \notin {"idle", "start"}
        BY <1>9 DEF Ops
      <4>4. Rec(d) \in DprocFields
        BY <1>8, <1>17, <4>2, <4>3
      <4>5. Goes(p) = Rec(d) /\ Rec(d).op = Op(d) /\ Rec(d).dep = sees[d] /\ Rec(d).todo = StopList(sees[d])
        BY <1>6, <4>1
      <4> HIDE DEF unfinished, Rec, Goes
      <4>6. Rec(d) \in DprocRec
        BY <1>8, <4>2, <4>3, <4>4, <4>5 DEF DprocRec
      <4>7. QED BY <4>5, <4>6
    <3>3. QED BY <3>1, <3>2
  <2> HIDE DEF Goes
  <2>2. QED BY <1>16, <2>1
<1> HIDE DEF Rec, Goes
<1>11. dpmixed \subseteq dpmixed' /\ dpmixed' \subseteq Deps
  BY <1>1, <1>3, <1>4 DEF DpTypes
<1>12. DpTypes'
  <2>1. dprestarts' \in Nat /\ dpfaults' + dprestarts' <= DpMaxFaults
    BY <1>1, <1>2, DpAssumption
  <2>2. QED BY <1>1, <1>2, <1>10, <1>11, <2>1 DEF DpTypes
<1>13. \A d \in unfinished : sees[d] # d => d \in dpmixed' /\ sees[d] \in dpmixed'
  BY <1>3
<1>14. ASSUME NEW d \in Deps, d \notin dpmixed' PROVE DpKept(d)'
  <2>1. DpKept(d) /\ OnlyTaken(d)
    BY <1>1, <1>2, <1>11, <1>14, NothingTaken DEF DpInv
  <2>2. ASSUME NEW p \in DpProcs, dproc'[p].dep = d
        PROVE  d \in unfinished /\ proc[d] = p /\ sees[d] = d
    <3>1. \E e \in unfinished : proc[e] = p
      BY <1>7, <2>2, IdleIsIdle
    <3>2. PICK e \in unfinished : proc[e] = p
      BY <3>1
    <3>3. sees[e] = d
      BY <1>6, <2>2, <3>2
    <3>4. QED BY <1>13, <1>14, <3>2, <3>3
  <2>3. ASSUME NEW p \in DpProcs, dproc'[p].dep = d
        PROVE  Underway(d, dproc[p])'
    <3>1. d \in unfinished /\ proc[d] = p /\ sees[d] = d
      BY <2>2, <2>3
    <3>3. dproc'[p].op = Op(d) /\ dproc'[p].todo = StopList(d) /\ dproc'[p].err = FALSE
      BY <1>6, <3>1
    <3>4. Made(d)' \subseteq Range(StopList(d))
      BY <1>1, <1>2, <1>8 DEF DpTypes, Made
    <3>5. Stopping(d, dproc[p])'
      BY <3>3, <3>4 DEF Stopping
    <3>6. /\ Op(d) = "restop" => dprec[d] = "ini"
          /\ Op(d) = "fin" => dprec[d] = "trm"
      BY <3>1 DEF Op
    <3>7. QED BY <1>2, <1>9, <3>3, <3>5, <3>6 DEF Underway
  <2>4. ASSUME ~Working(d)' PROVE Standing(d)'
    <3>1. d \notin unfinished
      <4>1. ASSUME d \in unfinished PROVE FALSE
        <5>1. sees[d] = d
          BY <1>13, <1>14, <4>1
        <5>2. proc[d] \in DpProcs
          BY <1>3, <4>1
        <5>3. dproc'[proc[d]].dep = d
          BY <1>6, <4>1, <5>1
        <5>4. QED BY <2>4, <5>2, <5>3 DEF Working
      <4>2. QED BY <4>1
    <3>2. dprec[d] \notin {"ini", "trm"}
      BY <3>1
    <3>3. ~Working(d)
      <4>1. ASSUME NEW p \in DpProcs, dproc[p].dep = d PROVE FALSE
        <5>1. Underway(d, dproc[p]) /\ dproc[p].op \in Ops /\ dproc[p].op # "idle"
          BY <1>1, <1>8, <2>1, <4>1 DEF DpKept, DpTypes, DprocRec
        <5>2. QED BY <3>2, <5>1 DEF Underway, Ops
      <4>2. QED BY <4>1 DEF Working
    <3>4. Standing(d)
      BY <2>1, <3>3 DEF DpKept
    <3>5. QED BY <1>2, <3>4 DEF Standing, Made
  <2>5. \A p, q \in DpProcs : dproc'[p].dep = d /\ dproc'[q].dep = d => p = q
    BY <2>2
  <2>6. QED BY <2>3, <2>4, <2>5 DEF DpKept
<1>15. QED BY <1>12, <1>14 DEF DpInv

-----------------------------------------------------------------------------
LEMMA DpInitInv == DpInit => DpInv
<1> SUFFICES ASSUME DpInit PROVE DpInv
  OBVIOUS
<1>1. DpTypes
  <2>1. dproc \in [DpProcs -> DprocRec] /\ item \in [Names -> {NoItem, User} \cup Deps]
    BY IdleIsIdle DEF DpInit
  <2>2. \A d \in Deps, n \in Names : item[n] # d
    BY DpAssumption DEF DpInit
  <2>3. dprec \in [Deps -> DpStates] /\ dpids = {} /\ dpdown = FALSE /\ dpmixed = {} /\ dptaken = {}
    BY DEF DpInit, DpStates
  <2>4. dpfaults \in Nat /\ dprestarts \in Nat /\ dpfaults + dprestarts <= DpMaxFaults
        /\ dpuser \in 0 .. DpMaxUser
    BY DpAssumption DEF DpInit
  <2>5. QED BY <2>1, <2>2, <2>3, <2>4 DEF DpTypes
<1>2. ASSUME NEW d \in Deps PROVE DpKept(d)
  <2>1. \A p \in DpProcs : dproc[p].dep # d
    BY IdleIsIdle DEF DpInit
  <2>2. Made(d) = {}
    BY DpAssumption DEF DpInit, Made
  <2>3. dprec[d] = "none"
    BY DEF DpInit
  <2>4. QED BY <2>1, <2>2, <2>3 DEF DpKept, Standing
<1>3. QED BY <1>1, <1>2 DEF DpInv

LEMMA DpStep == DpInv /\ [DpNext]_dpVars => DpInv'
<1> SUFFICES ASSUME DpInv, [DpNext]_dpVars PROVE DpInv'
  OBVIOUS
<1>1. ASSUME NEW p \in DpProcs, NEW d \in Deps, DpStart(p, d) PROVE DpInv'
  BY <1>1, DpStartStep
<1>2. ASSUME NEW p \in DpProcs, NEW d \in Deps, DpDelMark(p, d) PROVE DpInv'
  BY <1>2, DelMarkStep
<1>3. ASSUME NEW p \in DpProcs, StartItem(p) PROVE DpInv'
  BY <1>3, StartItemStep
<1>4. ASSUME NEW p \in DpProcs, StartIds(p) PROVE DpInv'
  BY <1>4, StartIdsStep
<1>5. ASSUME NEW p \in DpProcs, StartDone(p) PROVE DpInv'
  BY <1>5, StartDoneStep
<1>6. ASSUME NEW p \in DpProcs, UndoItem(p) PROVE DpInv'
  BY <1>6, UndoItemStep
<1>7. ASSUME NEW p \in DpProcs, UndoDone(p) PROVE DpInv'
  BY <1>7, UndoDoneStep
<1>8. ASSUME NEW p \in DpProcs, StopItem(p) PROVE DpInv'
  BY <1>8, StopItemStep
<1>9. ASSUME NEW p \in DpProcs, StopDone(p) PROVE DpInv'
  BY <1>9, StopDoneStep
<1>10. ASSUME NEW n \in Names, UserItem(n) PROVE DpInv'
  BY <1>10, UserItemStep
<1>11. CASE DpRestart
  BY <1>11, DpRestartStep
<1>12. CASE UNCHANGED dpVars
  <2>1. UNCHANGED <<dprec, dpids, item, dproc, dpdown, dpmixed, dptaken, dpfaults, dprestarts, dpuser>>
    BY <1>12 DEF dpVars
  <2>2. DpTypes' /\ dpfaults \in Nat
    BY <2>1 DEF DpInv, DpTypes
  <2>3. ASSUME NEW e \in Deps, e \notin dpmixed' PROVE DpKept(e)'
    <3>1. OnlyTaken(e)
      BY <2>1, <2>2, NothingTaken
    <3>2. QED BY <2>1, <2>3, <3>1, DeployElsewhere DEF DpInv
  <2>4. QED BY <2>2, <2>3 DEF DpInv
<1>13. QED
  BY <1>1, <1>2, <1>3, <1>4, <1>5, <1>6, <1>7, <1>8, <1>9, <1>10, <1>11, <1>12 DEF DpNext, DpProc

LEMMA DpInvHolds == DpSpec => []DpInv
BY DpInitInv, DpStep, PTL DEF DpSpec

\* Deployments, items and goroutines are of their types, and a goroutine is idle
\* iff it has no deployment (deploy.go).
THEOREM DeployTypes == DpSpec => []DpTypeOK
<1>1. DpInv => DpTypeOK
  <2> SUFFICES ASSUME DpInv PROVE DpTypeOK
    OBVIOUS
  <2>1. DpTypes
    BY DEF DpInv
  <2>2. ASSUME NEW p \in DpProcs
        PROVE  /\ dproc[p].op \in Ops /\ dproc[p].dep \in Deps \cup {NoDep}
               /\ dproc[p].op = "idle" <=> dproc[p].dep = NoDep
               /\ Range(dproc[p].todo) \subseteq Names
               /\ dproc[p].err \in BOOLEAN /\ dproc[p].ids \in BOOLEAN
    <3>1. dproc[p] \in DprocRec
      BY <2>1 DEF DpTypes
    <3>2. Range(dproc[p].todo) \subseteq Names
      BY <3>1, RangeEquality, LenProperties DEF DprocRec
    <3>3. QED BY <3>1, <3>2 DEF DprocRec
  <2>3. dpfaults \in 0 .. DpMaxFaults /\ dprestarts \in 0 .. DpMaxFaults /\ dpuser \in 0 .. DpMaxUser
    BY <2>1, DpAssumption DEF DpTypes
  <2>4. QED BY <2>1, <2>2, <2>3 DEF DpTypes, DpTypeOK
<1>2. QED BY <1>1, DpInvHolds, PTL

\* What undoing takes is the deployment's own (StartItems, deployStop*).
LEMMA UndoTakes ==
  DpInv /\ [DpNext]_dpVars =>
    \A p \in DpProcs : dproc[p].op = "undo" /\ dproc'[p] # dproc[p] /\ dproc[p].dep \notin dpmixed =>
       \A n \in Names : item'[n] # item[n] => item[n] = dproc[p].dep \/ n \in dptaken
<1> SUFFICES ASSUME DpInv, [DpNext]_dpVars, NEW p \in DpProcs, dproc[p].op = "undo",
                    dproc'[p] # dproc[p], dproc[p].dep \notin dpmixed, NEW n \in Names, item'[n] # item[n]
             PROVE  item[n] = dproc[p].dep \/ n \in dptaken
  OBVIOUS
<1>1. CASE UndoItem(p)
  <2> DEFINE t == dproc[p].todo
  <2>1. t # <<>> /\ (item' = item \/ item' = [item EXCEPT ![Head(t)] = NoItem])
    BY <1>1 DEF UndoItem, TakeItem
  <2>2. t \in Seq(Names) /\ item \in [Names -> {NoItem, User} \cup Deps]
    BY AtItsWork DEF DpInv, DpTypes
  <2>3. n = Head(t)
    BY <2>1, <2>2
  <2>4. Head(t) = t[1] /\ 1 \in 1 .. Len(t)
    BY <2>1, <2>2, HeadAndTail
  <2>5. Undoing(dproc[p].dep, dproc[p])
    BY WorksAlone DEF Underway
  <2>6. QED BY <2>3, <2>4, <2>5 DEF Undoing
<1>2. CASE UndoDone(p)
  BY <1>2 DEF UndoDone
<1>3. CASE \E q \in DpProcs \ {p}, d \in Deps : DpProc(q) \/ DpStart(q, d) \/ DpDelMark(q, d)
  <2>1. PICK q \in DpProcs \ {p} : \/ DpProc(q) \/ \E d \in Deps : DpStart(q, d) \/ DpDelMark(q, d)
    BY <1>3
  <2>2. \E r : DpSet(q, r) \/ UNCHANGED dproc
    <3>1. CASE \E d \in Deps : DpStart(q, d) \/ DpDelMark(q, d)
      BY <3>1 DEF DpStart, DpDelMark
    <3>2. CASE StartItem(q) \/ StartIds(q) \/ StartDone(q)
      BY <3>2 DEF StartItem, StartIds, StartDone
    <3>3. CASE UndoItem(q) \/ UndoDone(q)
      BY <3>3 DEF UndoItem, UndoDone
    <3>4. CASE StopItem(q) \/ StopDone(q)
      BY <3>4 DEF StopItem, StopDone
    <3>5. QED BY <2>1, <3>1, <3>2, <3>3, <3>4 DEF DpProc
  <2>3. dproc'[p] = dproc[p]
    BY <2>1, <2>2 DEF DpSet, DpInv, DpTypes
  <2>4. QED BY <2>3
<1>4. CASE \E d \in Deps : DpStart(p, d) \/ DpDelMark(p, d)
  BY <1>4 DEF DpStart, DpDelMark
<1>5. CASE StartItem(p) \/ StartIds(p) \/ StartDone(p) \/ StopItem(p) \/ StopDone(p)
  BY <1>5 DEF StartItem, StartIds, StartDone, StopItem, StopDone
<1>6. CASE \E x \in Names : UserItem(x)
  BY <1>6 DEF UserItem
<1>7. CASE DpRestart
  BY <1>7 DEF DpRestart
<1>8. CASE UNCHANGED dpVars
  BY <1>8 DEF dpVars
<1>9. QED
  <2>1. CASE \E q \in DpProcs : DpProc(q)
    <3>1. PICK q \in DpProcs : DpProc(q)
      BY <2>1
    <3>2. CASE q = p
      BY <1>1, <1>2, <1>5, <3>1, <3>2 DEF DpProc
    <3>3. CASE q # p
      <4>1. \E d : d \in Deps
        BY AtItsWork DEF DpInv
      <4>2. QED BY <1>3, <3>1, <3>3, <4>1
    <3>4. QED BY <3>2, <3>3
  <2>2. CASE \E q \in DpProcs, d \in Deps : DpStart(q, d) \/ DpDelMark(q, d)
    BY <1>3, <1>4, <2>2
  <2>3. QED BY <1>6, <1>7, <1>8, <2>1, <2>2 DEF DpNext

\* A failed start undoes its own items only, in a deployment that is gone nothing is
\* left, and one that is ready is complete (StartItems, StopItems, Del), for any
\* number of deployments, items under any names, goroutines, failures and restarts.
THEOREM DeployIsSound == DpSpec => DeploySound
<1>1. DpInv => StallLeavesLast /\ DelLeavesNothing /\ ReadyIsComplete
  <2> SUFFICES ASSUME DpInv, NEW d \in Deps, d \notin dpmixed
               PROVE  /\ dprec[d] = "stl" /\ dpfaults = 0 =>
                            Made(d) \subseteq LastOf(OfDep(d, MW)) \cup LastOf(OfDep(d, FN))
                      /\ dprec[d] = "none" => Made(d) = {}
                      /\ dprec[d] = "rdy" => \A n \in Range(StartList(d)) : item[n] = d \/ n \in dptaken
    BY DEF StallLeavesLast, DelLeavesNothing, ReadyIsComplete
  <2>1. DpKept(d) /\ DpTypes /\ d # NoDep
    BY DpAssumption DEF DpInv
  <2>2. CASE Working(d)
    <3>1. PICK p \in DpProcs : dproc[p].dep = d
      BY <2>2 DEF Working
    <3>2. Underway(d, dproc[p]) /\ dproc[p].op \in Ops \ {"idle"}
      BY <2>1, <3>1 DEF DpKept, DpTypes, DprocRec
    <3>3. dprec[d] \in {"ini", "trm"}
      BY <3>2 DEF Underway, Ops
    <3>4. QED BY <3>3
  <2>3. CASE ~Working(d)
    BY <2>1, <2>3 DEF DpKept, Standing, ItemsOf
  <2>4. QED BY <2>2, <2>3
<1>2. QED BY <1>1, DpInvHolds, UndoTakes, PTL DEF DeploySound, UndoTakesOwn, DpSpec

HIDE DEF DprocFields

-----------------------------------------------------------------------------
(* Repos.                                                                  *)

\* The types of the record, of the goroutines that clone and pull, and of requests.
RpRecs == [state : {"new", "no", "cln", "rdy", "stl", "rem"}, commit : Commits \cup {NoCommit}]
CloneRec == [pc : {"idle", "mkdir", "git", "dirty", "save", "fail"}, to : Commits \cup {NoCommit}]
PullRec == [pc : {"idle", "git", "commit", "save", "dirty", "upd"}, rec : RpRecs, to : Commits \cup {NoCommit},
            sync : RpWorkers \cup {"none"}]
RpwRec == [pc : {"idle", "asked", "wait", "rem", "drop", "rmrec", "upd"}, rec : RpRecs, code : Codes]

\* RpTypeOK with the types of the fields spelled out.
RpTypes ==
    /\ head \in Commits /\ rprec \in RpRecs /\ wt \in {NoDir, EmptyDir} \cup Commits
    /\ rpclone \in CloneRec /\ rppull \in PullRec /\ rpw \in [RpWorkers -> RpwRec]
    /\ scrapes \subseteq {"clone", "pull"} /\ fnrepo \in BOOLEAN /\ fncode \in Codes
    /\ rpblame \subseteq {"fn", "dir", "late"}

\* the pull goroutine has read the clone's commit and not updated the functions yet
Moved == {"save", "dirty", "upd"}

\* One goroutine pulls: whoever waits for an answer is the one it serves.
WaiterServed == \A w \in RpWorkers : rpw[w].pc = "wait" => rppull.pc # "idle" /\ rppull.sync = w

\* Nothing pulls or reads a clone before it is made, and it is made once.
CloneFirst ==
    /\ rprec.state = "new" => rpclone.pc = "idle" /\ wt = NoDir
    /\ rprec.state = "new" \/ rpclone.pc \in {"mkdir", "git"} =>
          /\ ~Cloned /\ ~fnrepo /\ rprec.commit = NoCommit
          /\ rppull.pc \notin Moved /\ \A w \in RpWorkers : rpw[w].pc # "upd"

\* No commit that is written down is ahead of the clone, nor the clone of its
\* upstream.
CommitsFollow ==
    /\ Cloned => wt <= head /\ rprec.commit <= wt
    /\ rpclone.pc = "save" => rpclone.to \in Commits /\ (Cloned => rpclone.to <= wt)
    /\ rppull.pc \in Moved => rppull.to \in Commits /\ (Cloned => rppull.to <= wt)
    /\ rprec.state = "rdy" => rprec.commit # NoCommit

\* A function that is behind its clone is about to be updated.
FnBehind ==
    rpblame \cap {"fn", "late"} = {} /\ fnrepo /\ Cloned /\ There =>
        \/ fncode = RpContent[wt]
        \/ rppull.pc \in Moved /\ Changed(rppull.rec.commit, rppull.to)

\* The directory goes before the record.
DirGone ==
    "dir" \notin rpblame /\ (~There \/ \E w \in RpWorkers : rpw[w].pc = "rmrec") => wt = NoDir

\* The inductive invariant of a repository.
RpInv == RpTypes /\ WaiterServed /\ CloneFirst /\ CommitsFollow /\ FnBehind /\ DirGone

\* Idle goroutines and fresh records are of their types.
LEMMA RpIdleTypes ==
    /\ NoRepo \in RpRecs /\ NewRepo \in RpRecs /\ RpIdle \in RpwRec
    /\ CloneIdle \in CloneRec /\ PullIdle \in PullRec
    /\ \A c \in Commits : RpContent[c] \in Codes
  BY DEF NoRepo, NewRepo, RpRec, RpRecs, RpIdle, RpwRec, CloneIdle, CloneRec, PullIdle, PullRec,
     Codes

\* A write of the record leaves it alone or has its effect, and never brings back
\* one that is gone (dbUpdatePart).
LEMMA PutEffect ==
  ASSUME NEW r \in RpRecs, r.state \notin {"new", "no"}, RpTypes, Put(r)
  PROVE  /\ rprec' \in RpRecs /\ There' = There
         /\ rprec' # rprec => There /\ rprec' = r
  BY DEF Put, There, RpTypes

\* The types hold in every step.
LEMMA RpTypeStep == ASSUME RpTypes, CommitsFollow, [RpNext]_rpVars PROVE RpTypes'
<1> USE RpIdleTypes
<1>1. CASE UNCHANGED rpVars
  BY <1>1 DEF rpVars, RpTypes
<1>2. CASE RpPush
  BY <1>2, RpContentAssumption DEF RpPush, RpTypes, Commits
<1>3. CASE RpAttach
  BY <1>3 DEF RpAttach, RpTypes, RpRec, RpRecs, CloneIdle, CloneRec
<1>4. CASE CloneMkdir
  BY <1>4 DEF CloneMkdir, RpTypes, CloneRec, RpBlame
<1>5. CASE CloneGit
  BY <1>5 DEF CloneGit, RpTypes, CloneRec
<1>6. CASE CloneCommit
  BY <1>6 DEF CloneCommit, RpTypes, CloneRec, Cloned
<1>7. CASE CloneDone
  BY <1>7 DEF CloneDone, RpTypes, CloneRec, Put, RpRec, RpRecs
<1>8. CASE \E x \in {"clone", "pull"} : Scrape(x)
  BY <1>8 DEF Scrape, RpTypes
<1>9. CASE PullGit
  <2>1. rppull \in PullRec /\ [rppull EXCEPT !.pc = "commit"] \in PullRec
    BY DEF RpTypes, PullRec
  <2>2. rppull' \in PullRec /\ rpw' \in [RpWorkers -> RpwRec]
    BY <1>9, <2>1 DEF PullGit, Answer, RpTypes
  <2>3. wt' \in {NoDir, EmptyDir} \cup Commits /\ rpblame' \subseteq {"fn", "dir", "late"}
    BY <1>9 DEF PullGit, RpBlame, RpTypes
  <2>4. QED BY <1>9, <2>2, <2>3 DEF PullGit, RpTypes
<1>9a. CASE PullCommit
  <2>1. Cloned => [rppull EXCEPT !.pc = "save", !.to = wt] \in PullRec
    BY DEF RpTypes, PullRec, Cloned
  <2>2. rppull' \in PullRec /\ rpw' \in [RpWorkers -> RpwRec]
    BY <1>9a, <2>1 DEF PullCommit, Answer, RpTypes
  <2>3. rpblame' \subseteq {"fn", "dir", "late"}
    BY <1>9a DEF PullCommit, RpTypes
  <2>4. QED BY <1>9a, <2>2, <2>3 DEF PullCommit, RpTypes
<1>10. CASE PullSave
  BY <1>10 DEF PullSave, RpTypes, PullRec, Put, RpRecs
<1>11. CASE PullList
  BY <1>11 DEF PullList, RpTypes, PullRec, Answer, RpBlame
<1>12. CASE PullUpdate
  BY <1>12 DEF PullUpdate, RpTypes, Answer, RpBlame, Cloned
<1>13. ASSUME NEW w \in RpWorkers, AskPull(w)
       PROVE  RpTypes'
  BY <1>13 DEF AskPull, RpTypes, RpIdle, RpwRec
<1>14. ASSUME NEW w \in RpWorkers, PullTake(w)
       PROVE  RpTypes'
  <2>1. rpw[w] \in RpwRec /\ rpw[w].rec \in RpRecs /\ [rpw[w] EXCEPT !.pc = "wait"] \in RpwRec
    BY DEF RpTypes, RpwRec
  <2>2. \A x \in {w, "none"} : [PullIdle EXCEPT !.pc = "git", !.rec = rpw[w].rec, !.sync = x] \in PullRec
    BY <2>1 DEF PullIdle, PullRec
  <2>3. rppull' \in PullRec
    BY <1>14, <2>2 DEF PullTake
  <2>4. rpw' \in [RpWorkers -> RpwRec]
    BY <1>14, <2>1 DEF PullTake, RpTypes
  <2>5. QED BY <1>14, <2>3, <2>4 DEF PullTake, RpTypes
<1>15. ASSUME NEW w \in RpWorkers, FnRead(w) \/ FnSave(w)
       PROVE  RpTypes'
  <2>1. CASE FnRead(w)
    BY <2>1 DEF FnRead, RpTypes, RpIdle, RpwRec, Cloned
  <2>2. CASE FnSave(w)
    <3>1. rpw[w].code \in Codes
      BY DEF RpTypes, RpwRec
    <3>2. fnrepo' \in BOOLEAN
      BY <2>2 DEF FnSave
    <3>3. QED BY <2>2, <3>1, <3>2 DEF FnSave, RpTypes, RpBlame
  <2>3. QED BY <1>15, <2>1, <2>2
<1>16. ASSUME NEW w \in RpWorkers, DelMark(w) \/ DelDir(w) \/ DelRepo(w)
       PROVE  RpTypes'
  <2>1. CASE DelMark(w)
    BY <2>1, SMTT(30) DEF DelMark, RpTypes, RpIdle, RpwRec, RpRecs
  <2>2. CASE DelDir(w)
    BY <2>2, SMTT(30) DEF DelDir, RpTypes, RpIdle, RpwRec
  <2>3. CASE DelRepo(w)
    BY <2>3, SMTT(30) DEF DelRepo, RpTypes, RpIdle, RpwRec, RpRecs, NoRepo, RpRec
  <2>4. QED BY <1>16, <2>1, <2>2, <2>3
<1>17. CASE RpRestart
  BY <1>17 DEF RpRestart, RpTypes, RpBlame
<1>18. QED
  BY <1>1, <1>2, <1>3, <1>4, <1>5, <1>6, <1>7, <1>8, <1>9, <1>9a, <1>10, <1>11, <1>12, <1>13, <1>14,
     <1>15, <1>16, <1>17 DEF RpNext, RpPullStep

\* A request that waits for its pull is served.
LEMMA WaiterStep ==
  ASSUME RpTypes, WaiterServed, [RpNext]_rpVars
  PROVE  WaiterServed'
<1>1. CASE UNCHANGED rpVars \/ RpPush \/ RpAttach \/ CloneMkdir \/ CloneGit \/ CloneCommit \/ CloneDone \/ (\E x \in {"clone", "pull"} : Scrape(x))
  BY <1>1 DEF rpVars, RpPush, RpAttach, CloneMkdir, CloneGit, CloneCommit, CloneDone, Scrape,
     WaiterServed
<1>2. CASE PullGit \/ PullCommit \/ PullSave
  <2>1. rppull \in PullRec /\ (rppull.pc # "idle")
    BY <1>2 DEF PullGit, PullCommit, PullSave, RpTypes
  <2>2. CASE rppull'.pc # "idle" /\ rppull'.sync = rppull.sync /\ UNCHANGED rpw
    BY <2>2 DEF WaiterServed
  <2>3. CASE Answer
    BY <2>3 DEF WaiterServed, Answer, RpIdle
  <2>4. QED BY <1>2, <2>1, <2>2, <2>3 DEF PullGit, PullCommit, PullSave, PullRec
<1>3. CASE PullList \/ PullUpdate
  BY <1>3 DEF PullList, PullUpdate, WaiterServed, RpTypes, Answer, RpIdle, PullRec
<1>4. ASSUME NEW w \in RpWorkers, AskPull(w) \/ FnRead(w) \/ FnSave(w)
      PROVE  WaiterServed'
  <2>1. UNCHANGED rppull /\ \A v \in RpWorkers : rpw'[v].pc = "wait" => rpw[v].pc = "wait"
    <3>1. CASE AskPull(w)
      BY <3>1 DEF AskPull, RpTypes, RpIdle
    <3>2. CASE FnRead(w)
      BY <3>2 DEF FnRead, RpTypes, RpIdle
    <3>3. CASE FnSave(w)
      BY <3>3 DEF FnSave, RpTypes, RpIdle
    <3>4. QED BY <1>4, <3>1, <3>2, <3>3
  <2>2. QED BY <2>1 DEF WaiterServed
<1>5. ASSUME NEW w \in RpWorkers, PullTake(w)
      PROVE  WaiterServed'
  BY <1>5 DEF PullTake, WaiterServed, RpTypes, RpIdle, PullIdle, RpwRec
<1>6. ASSUME NEW w \in RpWorkers, DelMark(w) \/ DelDir(w) \/ DelRepo(w)
      PROVE  WaiterServed'
  BY <1>6 DEF DelMark, DelDir, DelRepo, WaiterServed, RpTypes, RpIdle, RpwRec
<1>7. CASE RpRestart
  BY <1>7 DEF RpRestart, WaiterServed, RpIdle
<1>8. QED
  BY <1>1, <1>2, <1>3, <1>4, <1>5, <1>6, <1>7 DEF RpNext, RpPullStep

\* Nothing uses a clone before it is there.
LEMMA CloneFirstStep ==
  ASSUME RpTypes, CloneFirst, [RpNext]_rpVars
  PROVE  CloneFirst'
<1>1. CASE UNCHANGED rpVars \/ RpPush \/ (\E x \in {"clone", "pull"} : Scrape(x))
  BY <1>1 DEF rpVars, RpPush, Scrape, CloneFirst, Cloned, Moved
<1>2. CASE RpAttach
  BY <1>2 DEF RpAttach, CloneFirst, Cloned, Moved, RpTypes, NewRepo, RpRec, CloneIdle, NoDir,
     Commits
<1>3. CASE CloneMkdir
  BY <1>3, RpContentAssumption DEF CloneMkdir, CloneFirst, Cloned, Moved, RpTypes, EmptyDir,
     Commits, CloneRec
<1>4. CASE CloneGit \/ CloneCommit
  BY <1>4 DEF CloneGit, CloneCommit, CloneFirst, Cloned, Moved, RpTypes, CloneRec
<1>5. CASE CloneDone
  BY <1>5 DEF CloneDone, CloneFirst, Cloned, Moved, RpTypes, Put, There, RpRec, RpRecs, CloneIdle
<1>6. CASE PullGit \/ PullCommit
  <2>1. rppull'.pc \in Moved => Cloned
    BY <1>6 DEF PullGit, PullCommit, Moved, PullIdle, RpTypes, PullRec
  <2>2. \A v \in RpWorkers : rpw'[v].pc = "upd" => rpw[v].pc = "upd"
    BY <1>6 DEF PullGit, PullCommit, Answer, RpIdle
  <2>3. UNCHANGED <<rprec, rpclone, fnrepo>> /\ (UNCHANGED wt \/ (Cloned /\ head \in Commits))
    BY <1>6 DEF PullGit, PullCommit, RpTypes
  <2>4. QED BY <2>1, <2>2, <2>3, RpContentAssumption DEF CloneFirst, Cloned, Commits, NoDir
<1>7. CASE PullSave
  BY <1>7 DEF PullSave, CloneFirst, Cloned, Moved, RpTypes, Put, There, RpRecs, PullRec
<1>8. CASE PullList \/ PullUpdate
  BY <1>8 DEF PullList, PullUpdate, CloneFirst, Cloned, Moved, RpTypes, Answer, RpIdle, PullIdle
<1>9. ASSUME NEW w \in RpWorkers, AskPull(w) \/ PullTake(w)
      PROVE  CloneFirst'
  <2>1. \A v \in RpWorkers : rpw'[v].pc = "upd" => rpw[v].pc = "upd"
    <3>1. CASE AskPull(w)
      BY <3>1 DEF AskPull, RpTypes, RpIdle
    <3>2. CASE PullTake(w)
      <4>1. rpw[w] \in RpwRec
        BY DEF RpTypes
      <4>2. [rpw[w] EXCEPT !.pc = "wait"].pc # "upd" /\ RpIdle.pc # "upd"
        BY <4>1 DEF RpwRec, RpIdle
      <4>3. QED BY <3>2, <4>2 DEF PullTake, RpTypes
    <3>3. QED BY <1>9, <3>1, <3>2
  <2>2. rppull'.pc \in Moved => rppull.pc \in Moved
    BY <1>9 DEF AskPull, PullTake, PullIdle, Moved
  <2>3. QED BY <1>9, <2>1, <2>2 DEF AskPull, PullTake, CloneFirst, Cloned
<1>10. ASSUME NEW w \in RpWorkers, FnRead(w) \/ FnSave(w)
      PROVE  CloneFirst'
  BY <1>10 DEF FnRead, FnSave, CloneFirst, Cloned, Moved, RpTypes, RpIdle, There
<1>11. ASSUME NEW w \in RpWorkers, DelMark(w) \/ DelDir(w) \/ DelRepo(w)
      PROVE  CloneFirst'
  <2>1. \A v \in RpWorkers : rpw'[v].pc = "upd" => rpw[v].pc = "upd"
    <3>1. CASE DelMark(w)
      BY <3>1 DEF DelMark, RpTypes, RpIdle
    <3>2. CASE DelDir(w)
      <4>1. rpw[w] \in RpwRec
        BY DEF RpTypes
      <4>2. [rpw[w] EXCEPT !.pc = "rmrec"].pc # "upd" /\ RpIdle.pc # "upd"
        BY <4>1 DEF RpwRec, RpIdle
      <4>3. QED BY <3>2, <4>2 DEF DelDir, RpTypes
    <3>3. CASE DelRepo(w)
      BY <3>3 DEF DelRepo, RpTypes, RpIdle
    <3>4. QED BY <1>11, <3>1, <3>2, <3>3
  <2>2. rprec'.state = "new" => rprec.state = "new"
    BY <1>11 DEF DelMark, DelDir, DelRepo, RpTypes, RpRecs, NoRepo, RpRec, There
  <2>3. rprec'.commit = rprec.commit \/ rprec'.commit = NoCommit
    BY <1>11 DEF DelMark, DelDir, DelRepo, RpTypes, RpRecs, NoRepo, RpRec
  <2>4. UNCHANGED <<rpclone, rppull, fnrepo>> /\ (wt' = wt \/ wt' = NoDir)
    BY <1>11 DEF DelMark, DelDir, DelRepo
  <2>5. Cloned' => Cloned
    BY <2>4, RpContentAssumption DEF Cloned, NoDir, Commits
  <2>6. QED BY <2>1, <2>2, <2>3, <2>4, <2>5 DEF CloneFirst, Moved
<1>12. CASE RpRestart
  BY <1>12 DEF RpRestart, CloneFirst, Cloned, Moved, RpIdle, PullIdle, CloneIdle
<1>13. QED
  BY <1>1, <1>2, <1>3, <1>4, <1>5, <1>6, <1>7, <1>8, <1>9, <1>10, <1>11, <1>12 DEF RpNext,
     RpPullStep

\* Clones and pulls write down no commit that is ahead of the clone.
LEMMA CommitsStep ==
  ASSUME RpTypes, CloneFirst, CommitsFollow, [RpNext]_rpVars
  PROVE  CommitsFollow'
<1>1. CASE UNCHANGED rpVars \/ (\E x \in {"clone", "pull"} : Scrape(x))
  BY <1>1 DEF rpVars, Scrape, CommitsFollow, Cloned, Moved
<1>2. CASE RpPush
  BY <1>2, RpContentAssumption DEF RpPush, CommitsFollow, Cloned, Moved, RpTypes, Commits,
     NoCommit, NoDir, EmptyDir
<1>3. CASE RpAttach
  BY <1>3, RpContentAssumption DEF RpAttach, CommitsFollow, Cloned, Moved, RpTypes, RpRec,
     CloneIdle, Commits, NoCommit, NoDir, EmptyDir
<1>4. CASE CloneMkdir
  BY <1>4, RpContentAssumption DEF CloneMkdir, CommitsFollow, Cloned, Moved, RpTypes, CloneRec,
     Commits, NoCommit, NoDir, EmptyDir
<1>5. CASE CloneGit
  BY <1>5, RpContentAssumption DEF CloneGit, CommitsFollow, Cloned, Moved, CloneFirst, RpTypes,
     CloneRec, Commits, NoCommit, NoDir, EmptyDir
<1>6. CASE CloneCommit
  BY <1>6, RpContentAssumption DEF CloneCommit, CommitsFollow, Cloned, Moved, RpTypes, CloneRec,
     Commits, NoCommit, NoDir, EmptyDir
<1>7. CASE CloneDone
  BY <1>7, RpContentAssumption DEF CloneDone, CommitsFollow, Cloned, Moved, RpTypes, Put, RpRec,
     RpRecs, CloneIdle, Commits, NoCommit, NoDir, EmptyDir
<1>8. CASE PullGit
  <2>1. CASE rppull' = PullIdle /\ UNCHANGED wt
    BY <1>8, <2>1 DEF PullGit, CommitsFollow, Cloned, Moved, PullIdle
  <2>2. CASE Cloned /\ wt' = head /\ rppull' = [rppull EXCEPT !.pc = "commit"]
    <3>1. head \in Int /\ wt \in Int /\ wt <= head /\ rprec.commit \in Int /\ rprec.commit <= wt
      BY <2>2, RpContentAssumption DEF CommitsFollow, RpTypes, RpRecs, Cloned, Commits, NoCommit
    <3>2. rpclone.pc = "save" => rpclone.to \in Commits /\ rpclone.to \in Int /\ rpclone.to <= wt
      BY <2>2 DEF CommitsFollow, Commits
    <3>3. rppull'.pc \notin Moved
      BY <2>2 DEF RpTypes, PullRec, Moved
    <3>4. UNCHANGED <<head, rprec, rpclone>>
      BY <1>8 DEF PullGit
    <3>5. QED BY <2>2, <3>1, <3>2, <3>3, <3>4 DEF CommitsFollow, Cloned
  <2>3. QED BY <1>8, <2>1, <2>2 DEF PullGit
<1>8a. CASE PullCommit
  <2>1. UNCHANGED <<head, rprec, wt, rpclone>>
    BY <1>8a DEF PullCommit
  <2>2. rppull'.pc \in Moved => rppull'.to \in Commits /\ rppull'.to = wt /\ wt \in Int
    <3>1. rppull \in PullRec /\ wt \in {NoDir, EmptyDir} \cup Commits
      BY DEF RpTypes
    <3>2. CASE rppull' = PullIdle
      BY <3>2 DEF PullIdle, Moved
    <3>3. CASE rppull' = [rppull EXCEPT !.pc = "save", !.to = wt] /\ Cloned
      <4>1. rppull'.to = wt
        BY <3>1, <3>3 DEF PullRec
      <4>2. wt \in Commits /\ wt \in Int
        BY <3>3, RpContentAssumption DEF Cloned, Commits
      <4>3. QED BY <4>1, <4>2
    <3>4. QED BY <1>8a, <3>2, <3>3 DEF PullCommit
  <2>3. QED BY <2>1, <2>2 DEF CommitsFollow, Cloned
<1>9. CASE PullSave
  BY <1>9, RpContentAssumption DEF PullSave, CommitsFollow, Cloned, Moved, RpTypes, Put, RpRecs,
     PullRec, Commits, NoCommit, NoDir, EmptyDir
<1>10. CASE PullList \/ PullUpdate
  BY <1>10 DEF PullList, PullUpdate, CommitsFollow, Cloned, Moved, RpTypes, PullIdle, PullRec
<1>11. ASSUME NEW w \in RpWorkers, AskPull(w) \/ PullTake(w) \/ FnRead(w) \/ FnSave(w)
      PROVE  CommitsFollow'
  BY <1>11 DEF AskPull, PullTake, FnRead, FnSave, CommitsFollow, Cloned, Moved, PullIdle
<1>12. ASSUME NEW w \in RpWorkers, DelMark(w) \/ DelDir(w) \/ DelRepo(w)
      PROVE  CommitsFollow'
  BY <1>12, RpContentAssumption DEF DelMark, DelDir, DelRepo, CommitsFollow, Cloned, Moved,
     RpTypes, RpRecs, NoRepo, RpRec, Commits, NoCommit, NoDir, EmptyDir
<1>13. CASE RpRestart
  BY <1>13 DEF RpRestart, CommitsFollow, Cloned, Moved, PullIdle, CloneIdle
<1>14. QED
  BY <1>1, <1>2, <1>3, <1>4, <1>5, <1>6, <1>7, <1>8, <1>8a, <1>9, <1>10, <1>11, <1>12, <1>13 DEF
     RpNext, RpPullStep

\* A function that the clone has left behind is updated, or there is a reason.
LEMMA FnBehindStep ==
  ASSUME RpTypes, CloneFirst, CommitsFollow, FnBehind, [RpNext]_rpVars
  PROVE  FnBehind'
<1>1. CASE UNCHANGED rpVars \/ RpPush \/ CloneCommit \/ (\E x \in {"clone", "pull"} : Scrape(x))
  BY <1>1 DEF rpVars, RpPush, CloneCommit, Scrape, FnBehind, Cloned, There
<1>2. CASE RpAttach
  BY <1>2 DEF RpAttach, FnBehind, Cloned, There, CloneFirst, NewRepo, RpRec
<1>3. CASE CloneMkdir
  BY <1>3, RpContentAssumption DEF CloneMkdir, FnBehind, Cloned, There, Commits, NoCommit,
     NoDir, EmptyDir
<1>4. CASE CloneGit
  BY <1>4 DEF CloneGit, FnBehind, Cloned, There, CloneFirst
<1>5. CASE CloneDone
  BY <1>5 DEF CloneDone, FnBehind, Cloned, There, RpTypes, Put, RpRec, RpRecs
<1>6. CASE PullGit
  <2>1. CASE UNCHANGED <<wt, rpblame>>
    BY <1>6, <2>1 DEF PullGit, FnBehind, Cloned, There, Moved
  <2>2. CASE RpContent[wt] = RpContent[head] /\ wt' = head /\ Cloned
    BY <1>6, <2>2 DEF PullGit, FnBehind, Cloned, There, Moved, RpBlame
  <2>3. CASE "late" \in rpblame'
    BY <2>3 DEF FnBehind
  <2>4. QED BY <1>6, <2>1, <2>2, <2>3 DEF PullGit, RpBlame
<1>6a. CASE PullCommit
  <2>1. CASE UNCHANGED rpblame
    BY <1>6a, <2>1 DEF PullCommit, FnBehind, Cloned, There, Moved, RpTypes
  <2>2. CASE rppull' = [rppull EXCEPT !.pc = "save", !.to = wt] /\ "late" \notin rpblame
    <3>1. "fn" \in rpblame => "fn" \in rpblame'
      BY <1>6a DEF PullCommit
    <3>2. QED BY <1>6a, <2>2, <3>1 DEF PullCommit, FnBehind, Cloned, There, Moved
  <2>3. CASE rppull' = [rppull EXCEPT !.pc = "save", !.to = wt] /\ "late" \in rpblame
    <3>1. "fn" \in rpblame' \/ Changed(rppull.rec.commit, wt)
      <4>1. rppull \in PullRec /\ rppull.pc = "commit" /\ rppull'.pc = "save"
        BY <1>6a, <2>3 DEF PullCommit, RpTypes, PullRec
      <4>2. rppull' # PullIdle
        BY <4>1 DEF PullIdle
      <4>3. rpblame' = (rpblame \ {"late"}) \cup
              (IF "late" \in rpblame /\ ~Changed(rppull.rec.commit, wt) THEN {"fn"} ELSE {})
        BY <1>6a, <4>2 DEF PullCommit
      <4> HIDE DEF Changed
      <4>4. QED BY <2>3, <4>3
    <3>2. rppull'.pc \in Moved /\ rppull'.rec = rppull.rec /\ rppull'.to = wt
      BY <2>3 DEF RpTypes, PullRec, Moved
    <3>3. QED BY <3>1, <3>2 DEF FnBehind
  <2>4. QED BY <1>6a, <2>1, <2>2, <2>3 DEF PullCommit
<1>7. CASE PullSave
  BY <1>7 DEF PullSave, FnBehind, Cloned, There, RpTypes, Put, RpRecs, PullRec, Moved
<1>8. CASE PullList
  BY <1>8 DEF PullList, FnBehind, Cloned, There, RpTypes, PullRec, Moved, RpBlame
<1>9. CASE PullUpdate
  BY <1>9 DEF PullUpdate, FnBehind, Cloned, There, RpBlame
<1>10. ASSUME NEW w \in RpWorkers, AskPull(w) \/ FnRead(w)
      PROVE  FnBehind'
  BY <1>10 DEF AskPull, FnRead, FnBehind, Cloned, There
<1>11. ASSUME NEW w \in RpWorkers, PullTake(w)
      PROVE  FnBehind'
  BY <1>11 DEF PullTake, FnBehind, Cloned, There, Moved
<1>12. ASSUME NEW w \in RpWorkers, FnSave(w)
      PROVE  FnBehind'
  BY <1>12 DEF FnSave, FnBehind, Cloned, There, RpBlame
<1>13. ASSUME NEW w \in RpWorkers, DelMark(w) \/ DelDir(w) \/ DelRepo(w)
      PROVE  FnBehind'
  <2>1. Cloned' /\ There' => Cloned /\ There /\ wt' = wt
    BY <1>13, RpContentAssumption
    DEF DelMark, DelDir, DelRepo, Cloned, There, RpTypes, RpRecs, NoRepo, RpRec, Commits, NoDir
  <2>2. QED BY <1>13, <2>1 DEF DelMark, DelDir, DelRepo, FnBehind
<1>14. CASE RpRestart
  BY <1>14 DEF RpRestart, FnBehind, Cloned, There, RpBlame, Moved
<1>15. QED
  BY <1>1, <1>2, <1>3, <1>4, <1>5, <1>6, <1>6a, <1>7, <1>8, <1>9, <1>10, <1>11, <1>12, <1>13, <1>14 DEF
     RpNext, RpPullStep

\* What Del takes away is not made again, or there is a reason.
LEMMA DirGoneStep ==
  ASSUME RpTypes, CloneFirst, DirGone, [RpNext]_rpVars
  PROVE  DirGone'
<1>1. CASE UNCHANGED rpVars \/ RpPush \/ CloneCommit \/ (\E x \in {"clone", "pull"} : Scrape(x))
  BY <1>1 DEF rpVars, RpPush, CloneCommit, Scrape, DirGone, There
<1>2. CASE RpAttach
  BY <1>2 DEF RpAttach, DirGone, There, CloneFirst, NewRepo, RpRec
<1>3. CASE CloneMkdir
  BY <1>3 DEF CloneMkdir, DirGone, There, RpBlame
<1>4. CASE CloneGit
  BY <1>4 DEF CloneGit, DirGone, There, NoDir, EmptyDir
<1>5. CASE CloneDone
  BY <1>5 DEF CloneDone, DirGone, There, RpTypes, Put, RpRec, RpRecs
<1>6. CASE PullGit \/ PullCommit
  BY <1>6, RpContentAssumption DEF PullGit, PullCommit, DirGone, There, RpTypes, Answer, RpIdle, RpBlame,
     Cloned, Commits, NoCommit, NoDir, EmptyDir
<1>7. CASE PullSave
  BY <1>7 DEF PullSave, DirGone, There, RpTypes, Put, RpRecs
<1>8. CASE PullList \/ PullUpdate
  BY <1>8 DEF PullList, PullUpdate, DirGone, There, RpTypes, Answer, RpIdle, RpBlame
<1>9. ASSUME NEW w \in RpWorkers, AskPull(w) \/ PullTake(w)
      PROVE  DirGone'
  <2>1. \A v \in RpWorkers : rpw'[v].pc = "rmrec" => rpw[v].pc = "rmrec"
    <3>1. CASE AskPull(w)
      BY <3>1 DEF AskPull, RpTypes, RpIdle
    <3>2. CASE PullTake(w)
      <4>1. rpw[w] \in RpwRec
        BY DEF RpTypes
      <4>2. [rpw[w] EXCEPT !.pc = "wait"].pc # "rmrec" /\ RpIdle.pc # "rmrec"
        BY <4>1 DEF RpwRec, RpIdle
      <4>3. QED BY <3>2, <4>2 DEF PullTake, RpTypes
    <3>3. QED BY <1>9, <3>1, <3>2
  <2>2. QED BY <1>9, <2>1 DEF AskPull, PullTake, DirGone, There
<1>10. ASSUME NEW w \in RpWorkers, FnRead(w) \/ FnSave(w)
      PROVE  DirGone'
  <2>1. \A v \in RpWorkers : rpw'[v].pc = "rmrec" => rpw[v].pc = "rmrec"
    <3>1. CASE FnRead(w)
      BY <3>1 DEF FnRead, RpTypes, RpIdle
    <3>2. CASE FnSave(w)
      BY <3>2 DEF FnSave, RpTypes, RpIdle
    <3>3. QED BY <1>10, <3>1, <3>2
  <2>2. QED BY <1>10, <2>1 DEF FnRead, FnSave, DirGone, There, RpBlame
<1>11. ASSUME NEW w \in RpWorkers, DelMark(w) \/ DelDir(w) \/ DelRepo(w)
      PROVE  DirGone'
  BY <1>11 DEF DelMark, DelDir, DelRepo, DirGone, There, RpTypes, RpRecs, NoRepo, RpRec, RpIdle,
     RpwRec
<1>12. CASE RpRestart
  BY <1>12 DEF RpRestart, DirGone, There, RpBlame, RpIdle
<1>13. QED
  BY <1>1, <1>2, <1>3, <1>4, <1>5, <1>6, <1>7, <1>8, <1>9, <1>10, <1>11, <1>12 DEF RpNext,
     RpPullStep

\* The inductive invariant of a repository.
LEMMA RpInvHolds == RpSpec => []RpInv
<1>1. RpInit => RpInv
  <2> SUFFICES ASSUME RpInit PROVE RpInv
    OBVIOUS
  <2>1. RpTypes
    <3>1. 1 \in Commits /\ NoCommit \in Codes
      BY RpContentAssumption DEF Commits, Codes
    <3>2. fnrepo \in BOOLEAN
      BY DEF RpInit
    <3>3. QED BY <3>1, <3>2, RpIdleTypes DEF RpInit, RpTypes
  <2>2. ~Cloned /\ rppull.pc = "idle" /\ rpclone.pc = "idle" /\ rprec.state = "new" /\ rprec.commit = NoCommit
    BY RpContentAssumption DEF RpInit, Cloned, Commits, NoDir, PullIdle, CloneIdle, NewRepo, RpRec
  <2>3. \A w \in RpWorkers : rpw[w].pc = "idle"
    BY DEF RpInit, RpIdle
  <2>4. ~fnrepo /\ wt = NoDir
    BY DEF RpInit
  <2>5. QED
    BY <2>1, <2>2, <2>3, <2>4 DEF RpInv, WaiterServed, CloneFirst, CommitsFollow, FnBehind,
       DirGone, Moved
<1>2. RpInv /\ [RpNext]_rpVars => RpInv'
  BY RpTypeStep, WaiterStep, CloneFirstStep, CommitsStep, FnBehindStep, DirGoneStep DEF RpInv
<1>3. QED BY <1>1, <1>2, PTL DEF RpSpec

\* The variables of a repository have their types, and whoever waits for a pull is
\* the one the pull goroutine serves (repo.go).
THEOREM RepoTypes == RpSpec => []RpTypeOK
<1>1. RpInv => RpTypeOK
  BY DEF RpInv, RpTypes, RpTypeOK, WaiterServed, RpRecs, CloneRec, PullRec, RpwRec
<1>2. QED BY <1>1, RpInvHolds, PTL

\* Once its goroutines are done, a function runs what the clone holds, a removed
\* repository has no clone, and a ready one a clone that is not behind its record,
\* but for the reasons that are named (bgClone, pull, tryToUpdateFunctions, Del).
THEOREM ReposAreSound == RpSpec => []ReposSound
<1>1. ASSUME RpInv PROVE ReposSound
  <2>1. FnFollowsRepo
    BY <1>1 DEF RpInv, FnBehind, FnFollowsRepo, Quiet, Moved
  <2>2. NoCloneLeft
    BY <1>1 DEF RpInv, DirGone, NoCloneLeft
  <2>3. RpReadyHasClone
    BY <1>1 DEF RpInv, CommitsFollow, RpReadyHasClone
  <2>4. QED BY <2>1, <2>2, <2>3 DEF ReposSound
<1>2. QED BY <1>1, RpInvHolds, PTL

-----------------------------------------------------------------------------
(* Packages.                                                               *)

\* The types of a size, of requests and of the scan.
Sizes == {NoSize} \cup 0 .. Cardinality(PkNames)
PkwRec == [pc : PkLabels, name : PkNames \cup {PkNone}, list : SUBSET PkNames]
ScanRec == [pc : {"idle", "scan", "write"}, du : Sizes, sync : PkWorkers \cup {PkNone}]

\* PkTypeOK with the types of the fields, and what a request at work knows.
PkTypes ==
    /\ inst \subseteq PkNames /\ (pklist = Unknown \/ pklist \subseteq PkNames) /\ pkdu \in Sizes
    /\ pkw \in [PkWorkers -> PkwRec] /\ scan \in ScanRec
    /\ overdue \subseteq PkNames /\ pkblame \subseteq {"list", "size"}
    /\ \A w \in PkWorkers :
          pkw[w].pc \in {"stats", "sync", "check", "inst", "remove"} => pkw[w].name \in PkNames
    /\ scan.pc = "write" => scan.du # NoSize
    \* the scan wakes up who waits for it, and nobody else
    /\ \A w \in PkWorkers : scan.sync = w => pkw[w].pc = "sync"

\* requests that were admitted and have not installed, and requests that have
\* changed what is installed and owe the caches a flush or a scan
Admitted == {w \in PkWorkers : pkw[w].pc = "inst"}
Owing == {w \in PkWorkers : pkw[w].pc \in {"flush", "kick"}}

nOwing == Cardinality(Owing)
nAdmitted == Cardinality(Admitted)

\* An install that outlives its request is a failure that both caches feel.
OverdueBlamed == overdue # {} => {"list", "size"} \subseteq pkblame

\* A list that is out of date is about to be dropped.
ListDue ==
    "list" \notin pkblame /\ pklist # Unknown =>
        pklist = inst \/ \E w \in PkWorkers : pkw[w].pc = "flush"

\* A size that is out of date is about to be measured, or to be written.
Owes == \E w \in PkWorkers : pkw[w].pc \in {"flush", "kick"}
SizeDue ==
    "size" \notin pkblame =>
        /\ pkdu # NoSize =>
              \/ pkdu = Cardinality(inst) \/ Owes \/ scan.pc = "scan"
              \/ (scan.pc = "write" /\ scan.du = Cardinality(inst))
        /\ scan.pc = "write" => scan.du = Cardinality(inst) \/ Owes

\* How far a size can be behind: by one package for each request that owes a scan,
\* and one for the request whose scan is running.
Measured ==
    "size" \notin pkblame /\ PkLimit # 0 =>
        /\ pkdu = NoSize =>
              inst = {} /\ \A w \in PkWorkers : pkw[w].pc \notin {"check", "inst", "flush", "kick", "remove"}
        /\ pkdu # NoSize =>
              Cardinality(inst) <= pkdu + nOwing + (IF scan.pc = "idle" THEN 0 ELSE 1)
        /\ scan.pc = "write" => Cardinality(inst) <= scan.du + nOwing

\* The limit, with what is admitted and not installed yet
Overshoot ==
    "size" \notin pkblame /\ PkLimit # 0 =>
        Cardinality(inst) + nAdmitted <= Max({PkLimit - PkGap, 0}) + Cardinality(PkWorkers) + 1

\* The inductive invariant of a tenant's packages.
PkInv == PkTypes /\ OverdueBlamed /\ ListDue /\ SizeDue /\ Measured /\ Overshoot

\* Two groups of requests that share none have no more members than there are
\* requests.
LEMMA Groups ==
  ASSUME NEW A \in SUBSET PkWorkers, NEW B \in SUBSET PkWorkers, A \cap B = {}
  PROVE  /\ IsFiniteSet(A) /\ Cardinality(A) \in Nat /\ IsFiniteSet(B) /\ Cardinality(B) \in Nat
         /\ Cardinality(PkWorkers) \in Nat /\ Cardinality(A) + Cardinality(B) <= Cardinality(PkWorkers)
<1>1. IsFiniteSet(A) /\ IsFiniteSet(B) /\ Cardinality(A \cup B) <= Cardinality(PkWorkers)
  BY FS_Subset, PkSetsAssumption
<1>2. Cardinality(A) \in Nat /\ Cardinality(B) \in Nat /\ Cardinality(PkWorkers) \in Nat
  BY <1>1, FS_CardinalityType, PkSetsAssumption
<1>3. Cardinality(A \cup B) = Cardinality(A) + Cardinality(B) - Cardinality(A \cap B)
  BY <1>1, FS_Union
<1>4. Cardinality(A \cap B) = 0
  BY FS_EmptySet
<1>5. QED BY <1>1, <1>2, <1>3, <1>4

\* There are finitely many packages.
LEMMA Installed ==
  ASSUME NEW S \in SUBSET PkNames
  PROVE  IsFiniteSet(S) /\ Cardinality(S) \in Nat /\ Cardinality(S) \in 0 .. Cardinality(PkNames)
<1>1. IsFiniteSet(S) /\ Cardinality(S) <= Cardinality(PkNames)
  BY FS_Subset, PkSetsAssumption
<1>2. Cardinality(S) \in Nat /\ Cardinality(PkNames) \in Nat
  BY <1>1, FS_CardinalityType, PkSetsAssumption
<1>3. QED BY <1>1, <1>2

\* How many are admitted and owing after the step of one request.
LEMMA PkMoves ==
  ASSUME NEW w \in PkWorkers, \A v \in PkWorkers \ {w} : pkw'[v].pc = pkw[v].pc
  PROVE  /\ nOwing' = nOwing + (IF pkw'[w].pc \in {"flush", "kick"} THEN 1 ELSE 0)
                             - (IF pkw[w].pc \in {"flush", "kick"} THEN 1 ELSE 0)
         /\ nAdmitted' = nAdmitted + (IF pkw'[w].pc = "inst" THEN 1 ELSE 0)
                                   - (IF pkw[w].pc = "inst" THEN 1 ELSE 0)
<1>1. /\ IsFiniteSet(Owing) /\ Cardinality(Owing) \in Nat
      /\ IsFiniteSet(Admitted) /\ Cardinality(Admitted) \in Nat
  <2>1. Owing \in SUBSET PkWorkers /\ Admitted \in SUBSET PkWorkers /\ Owing \cap Admitted = {}
    BY DEF Owing, Admitted
  <2>2. QED BY <2>1, Groups
<1>2. /\ Cardinality(Owing \cup {w}) = IF w \in Owing THEN Cardinality(Owing) ELSE Cardinality(Owing) + 1
      /\ Cardinality(Owing \ {w}) = IF w \in Owing THEN Cardinality(Owing) - 1 ELSE Cardinality(Owing)
  BY <1>1, FS_AddElement, FS_RemoveElement
<1>3. /\ Cardinality(Admitted \cup {w}) =
            IF w \in Admitted THEN Cardinality(Admitted) ELSE Cardinality(Admitted) + 1
      /\ Cardinality(Admitted \ {w}) =
            IF w \in Admitted THEN Cardinality(Admitted) - 1 ELSE Cardinality(Admitted)
  BY <1>1, FS_AddElement, FS_RemoveElement
<1>4. Owing' = IF pkw'[w].pc \in {"flush", "kick"} THEN Owing \cup {w} ELSE Owing \ {w}
  BY DEF Owing
<1>5. Admitted' = IF pkw'[w].pc = "inst" THEN Admitted \cup {w} ELSE Admitted \ {w}
  BY DEF Admitted
<1>6. (w \in Owing <=> pkw[w].pc \in {"flush", "kick"}) /\ (w \in Admitted <=> pkw[w].pc = "inst")
  BY DEF Owing, Admitted
<1>7. nOwing' = Cardinality(Owing') /\ nAdmitted' = Cardinality(Admitted')
  BY DEF nOwing, nAdmitted
<1>8. nOwing = Cardinality(Owing) /\ nAdmitted = Cardinality(Admitted)
  BY DEF nOwing, nAdmitted
<1>9. nOwing' = nOwing + (IF pkw'[w].pc \in {"flush", "kick"} THEN 1 ELSE 0)
                       - (IF pkw[w].pc \in {"flush", "kick"} THEN 1 ELSE 0)
  BY <1>1, <1>2, <1>4, <1>6, <1>7, <1>8
<1>10. nAdmitted' = nAdmitted + (IF pkw'[w].pc = "inst" THEN 1 ELSE 0) - (IF pkw[w].pc = "inst" THEN 1 ELSE 0)
  BY <1>1, <1>3, <1>5, <1>6, <1>7, <1>8
<1>11. QED BY <1>9, <1>10

\* The types hold in every step.
LEMMA PkTypeStep == ASSUME PkTypes, [PkNext]_pkVars PROVE PkTypes'
<1> USE DEF PkTypes
<1>0. /\ PkIdle \in PkwRec /\ PkIdle.pc = "idle"
      /\ ScanIdle \in ScanRec /\ ScanIdle.pc = "idle" /\ \A w \in PkWorkers : ScanIdle.sync # w
  BY PkSetsAssumption DEF PkIdle, PkwRec, PkLabels, ScanIdle, ScanRec, PkNone, Sizes
<1>1. CASE UNCHANGED pkVars
  BY <1>1 DEF pkVars
<1>2. ASSUME NEW w \in PkWorkers, PkIterate(w) \/ PkFlush(w)
      PROVE  PkTypes'
  BY <1>2 DEF PkIterate, PkFlush, PkGoto, PkwRec, PkLabels, PkBlame
<1>3. ASSUME NEW w \in PkWorkers, PkList(w)
      PROVE  PkTypes'
  BY <1>0, <1>3 DEF PkList, PkwRec, PkLabels
<1>4. ASSUME NEW w \in PkWorkers, PkStore(w)
      PROVE  PkTypes'
  BY <1>0, <1>4 DEF PkStore, PkBlame, PkwRec, FlushDue
<1>5. ASSUME NEW w \in PkWorkers, PkStats(w)
      PROVE  PkTypes'
  <2>1. /\ [pkw[w] EXCEPT !.pc = "sync"] \in PkwRec /\ [pkw[w] EXCEPT !.pc = "sync"].pc = "sync"
        /\ [pkw[w] EXCEPT !.pc = "check"] \in PkwRec /\ [pkw[w] EXCEPT !.pc = "check"].pc = "check"
    BY DEF PkwRec, PkLabels
  <2>2. CASE pkdu = NoSize
    <3> DEFINE r == [ScanIdle EXCEPT !.pc = "scan", !.sync = w]
    <3>1. r \in ScanRec /\ r.pc = "scan" /\ r.sync = w
      BY DEF ScanIdle, ScanRec, Sizes
    <3>2. scan' = r /\ pkw' = [pkw EXCEPT ![w].pc = "sync"]
      BY <1>5, <2>2 DEF PkStats, PkGoto
    <3> HIDE DEF r
    <3>3. QED BY <1>5, <2>1, <3>1, <3>2 DEF PkStats
  <2>3. CASE pkdu # NoSize
    <3>1. pkw' = [pkw EXCEPT ![w] = [pkw[w] EXCEPT !.pc = "check"]]
      BY <1>5, <2>3 DEF PkStats, PkGoto
    <3>2. [pkw[w] EXCEPT !.pc = "check"].name = pkw[w].name /\ pkw[w].name \in PkNames /\ pkw[w].pc = "stats"
      BY <1>5 DEF PkStats, PkwRec
    <3>3. UNCHANGED <<inst, pklist, pkdu, scan, overdue, pkblame>>
      BY <1>5, <2>3 DEF PkStats
    <3>4. \A v \in PkWorkers : pkw'[v] = IF v = w THEN [pkw[w] EXCEPT !.pc = "check"] ELSE pkw[v]
      BY <3>1
    <3>5. pkw' \in [PkWorkers -> PkwRec]
      BY <2>1, <3>1
    <3>6. QED BY <2>1, <3>2, <3>3, <3>4, <3>5
  <2>4. QED BY <2>2, <2>3
<1>6. ASSUME NEW w \in PkWorkers, PkCheck(w)
      PROVE  PkTypes'
  <2>1. pkw[w].name \in PkNames
    BY <1>6 DEF PkCheck
  <2>2. [pkw[w] EXCEPT !.pc = "inst"] \in PkwRec /\ [pkw[w] EXCEPT !.pc = "inst"].name = pkw[w].name
    BY DEF PkwRec, PkLabels
  <2>3. pkw' = [pkw EXCEPT ![w] = PkIdle] \/ pkw' = [pkw EXCEPT ![w] = [pkw[w] EXCEPT !.pc = "inst"]]
    BY <1>6 DEF PkCheck
  <2>4. QED BY <1>0, <1>6, <2>1, <2>2, <2>3 DEF PkCheck
<1>7. ASSUME NEW w \in PkWorkers, PkInstall(w)
      PROVE  PkTypes'
  BY <1>0, <1>7 DEF PkInstall, PkGoto, PkBlame, PkwRec, PkLabels
<1>8. ASSUME NEW w \in PkWorkers, PkKick(w)
      PROVE  PkTypes'
  BY <1>0, <1>8, PkSetsAssumption DEF PkKick, ScanIdle, ScanRec, PkNone, Sizes
<1>9. ASSUME NEW w \in PkWorkers, PkRemove(w)
      PROVE  PkTypes'
  BY <1>0, <1>9 DEF PkRemove, PkGoto, PkBlame, PkwRec, PkLabels
<1>10. ASSUME NEW w \in PkWorkers, NEW p \in PkNames, PkAdd(w, p) \/ PkDel(w, p)
       PROVE  PkTypes'
  <2>1. \A l \in {"inst", "stats", "remove"} :
           LET r == [PkIdle EXCEPT !.pc = l, !.name = p]
           IN  r \in PkwRec /\ r.pc = l /\ r.name = p
    BY DEF PkIdle, PkwRec, PkLabels
  <2>2. \E l \in {"inst", "stats", "remove"} : pkw' = [pkw EXCEPT ![w] = [PkIdle EXCEPT !.pc = l, !.name = p]]
    BY <1>10 DEF PkAdd, PkDel
  <2>3. QED BY <1>10, <2>1, <2>2, ZenonT(60) DEF PkAdd, PkDel
<1>11. ASSUME NEW p \in PkNames, LateInstall(p)
       PROVE  PkTypes'
  BY <1>11 DEF LateInstall
<1>12. CASE ScanDir
  <2>1. Cardinality(inst) \in 0 .. Cardinality(PkNames)
    BY Installed
  <2>2. Cardinality(inst) \in Sizes /\ Cardinality(inst) # NoSize
    BY <2>1, Installed DEF Sizes, NoSize
  <2>3. scan' \in ScanRec /\ scan'.du # NoSize /\ scan'.sync = scan.sync
    BY <1>12, <2>2 DEF ScanDir, ScanRec
  <2>4. QED BY <1>12, <2>3 DEF ScanDir
<1>13. CASE ScanWrite
  BY <1>0, <1>13 DEF ScanWrite, PkBlame, PkwRec, PkLabels, ScanRec
<1>14. CASE PkRestart
  <2>1. inst' \subseteq PkNames /\ overdue' \subseteq PkNames /\ pkblame' \subseteq {"list", "size"}
    BY <1>14 DEF PkRestart, PkBlame
  <2>2. pkw' = [w \in PkWorkers |-> PkIdle] /\ scan' = ScanIdle /\ UNCHANGED <<pklist, pkdu>>
    BY <1>14 DEF PkRestart
  <2>3. QED BY <1>0, <2>1, <2>2
<1>15. QED
  BY <1>1, <1>2, <1>3, <1>4, <1>5, <1>6, <1>7, <1>8, <1>9, <1>10, <1>11, <1>12, <1>13, <1>14 DEF PkNext

\* Who gave up waiting for an installation has blamed both caches.
LEMMA OverdueStep == ASSUME PkTypes, OverdueBlamed, [PkNext]_pkVars PROVE OverdueBlamed'
<1> USE DEF OverdueBlamed
<1>1. CASE UNCHANGED pkVars \/ ScanDir \/ ScanWrite \/ \E p \in PkNames : LateInstall(p)
  BY <1>1 DEF pkVars, ScanDir, ScanWrite, LateInstall, PkBlame
<1>2. ASSUME NEW w \in PkWorkers, PkInstall(w) \/ PkRemove(w) \/ PkFlush(w)
      PROVE  OverdueBlamed'
  BY <1>2 DEF PkInstall, PkRemove, PkFlush, PkBlame
<1>2a. CASE PkRestart
  BY <1>2a DEF PkRestart, PkBlame
<1>3. ASSUME NEW w \in PkWorkers,
             PkIterate(w) \/ PkList(w) \/ PkStore(w) \/ PkStats(w) \/ PkCheck(w) \/ PkKick(w)
             \/ \E p \in PkNames : PkAdd(w, p) \/ PkDel(w, p)
      PROVE  OverdueBlamed'
  BY <1>3 DEF PkIterate, PkList, PkStore, PkStats, PkCheck, PkKick, PkAdd, PkDel, PkBlame
<1>4. QED BY <1>1, <1>2, <1>2a, <1>3 DEF PkNext

\* A list that is out of date stays about to be dropped.
LEMMA ListStep == ASSUME PkTypes, OverdueBlamed, ListDue, [PkNext]_pkVars PROVE ListDue'
<1> USE DEF ListDue
<1>1. CASE UNCHANGED pkVars \/ ScanDir
  BY <1>1 DEF pkVars, ScanDir
<1>2. CASE ScanWrite
  <2>1. \A v \in PkWorkers : pkw[v].pc = "flush" => pkw'[v].pc = "flush"
    BY <1>2 DEF ScanWrite, PkTypes
  <2>2. QED BY <1>2, <2>1 DEF ScanWrite, PkBlame
<1>3. ASSUME NEW p \in PkNames, LateInstall(p)
      PROVE  ListDue'
  BY <1>3 DEF LateInstall, OverdueBlamed
<1>4. ASSUME NEW w \in PkWorkers, PkInstall(w)
      PROVE  ListDue'
  BY <1>4 DEF PkInstall, PkGoto, PkBlame, PkTypes, PkwRec, PkIdle
<1>5. ASSUME NEW w \in PkWorkers, PkRemove(w)
      PROVE  ListDue'
  BY <1>5 DEF PkRemove, PkGoto, PkBlame, PkTypes, PkwRec, PkIdle
<1>6. ASSUME NEW w \in PkWorkers, PkStore(w)
      PROVE  ListDue'
  BY <1>6 DEF PkStore, PkBlame, FlushDue, OverdueBlamed, PkTypes, PkIdle
<1>7. ASSUME NEW w \in PkWorkers, PkFlush(w)
      PROVE  ListDue'
  <2>1. CASE pklist' = Unknown
    BY <2>1
  <2>2. CASE UNCHANGED pklist /\ PkBlame(IF pklist \in {Unknown, inst} THEN {} ELSE {"list"})
    BY <1>7, <2>2 DEF PkFlush, PkBlame
  <2>3. QED BY <1>7, <2>1, <2>2 DEF PkFlush
<1>7a. CASE PkRestart
  BY <1>7a DEF PkRestart, PkBlame
<1>8. ASSUME NEW w \in PkWorkers,
             PkIterate(w) \/ PkList(w) \/ PkStats(w) \/ PkCheck(w) \/ PkKick(w)
             \/ \E p \in PkNames : PkAdd(w, p) \/ PkDel(w, p)
      PROVE  ListDue'
  <2>1. \A v \in PkWorkers \ {w} : pkw'[v] = pkw[v]
    BY <1>8 DEF PkIterate, PkList, PkStats, PkCheck, PkKick, PkAdd, PkDel, PkGoto, PkTypes
  <2>2. pkw[w].pc # "flush" /\ UNCHANGED <<inst, pklist, pkblame>>
    BY <1>8 DEF PkIterate, PkList, PkStats, PkCheck, PkKick, PkAdd, PkDel
  <2>3. QED BY <2>1, <2>2
<1>9. QED BY <1>1, <1>2, <1>3, <1>4, <1>5, <1>6, <1>7, <1>7a, <1>8 DEF PkNext

\* A size that is out of date stays about to be measured.
LEMMA SizeStep == ASSUME PkTypes, OverdueBlamed, SizeDue, [PkNext]_pkVars PROVE SizeDue'
<1> USE DEF SizeDue
<1>1. CASE UNCHANGED pkVars
  BY <1>1 DEF pkVars, Owes
<1>2. CASE ScanDir
  BY <1>2 DEF ScanDir, PkTypes, ScanRec, Owes
<1>3. CASE ScanWrite
  <2>1. \A v \in PkWorkers : pkw[v].pc \in {"flush", "kick"} => pkw'[v].pc \in {"flush", "kick"}
    BY <1>3 DEF ScanWrite, PkTypes
  <2>2. Owes => Owes'
    BY <2>1 DEF Owes
  <2>3. QED BY <1>3, <2>2 DEF ScanWrite, PkBlame, ScanIdle
<1>4. ASSUME NEW p \in PkNames, LateInstall(p)
      PROVE  SizeDue'
  BY <1>4 DEF LateInstall, OverdueBlamed
<1>5. ASSUME NEW w \in PkWorkers, PkInstall(w) \/ PkRemove(w)
      PROVE  SizeDue'
  <2>1. CASE PkGoto(w, "flush")
    <3>1. Owes'
      BY <2>1 DEF PkGoto, Owes, PkTypes, PkwRec
    <3>2. UNCHANGED <<pkdu, scan, pkblame>>
      BY <1>5, <2>1 DEF PkInstall, PkRemove, PkGoto, PkIdle, PkTypes, PkwRec
    <3>3. QED BY <3>1, <3>2
  <2>2. CASE pkw' = [pkw EXCEPT ![w] = PkIdle] /\ inst' = inst
    <3>1. pkw[w].pc \notin {"flush", "kick"} /\ UNCHANGED <<pkdu, scan>>
      BY <1>5 DEF PkInstall, PkRemove
    <3>2. Owes' = Owes
      BY <2>2, <3>1 DEF Owes, PkTypes, PkIdle
    <3>3. "size" \in pkblame => "size" \in pkblame'
      BY <1>5 DEF PkInstall, PkRemove, PkBlame
    <3>4. QED BY <2>2, <3>1, <3>2, <3>3
  <2>3. CASE "size" \in pkblame'
    BY <2>3
  <2>4. QED BY <1>5, <2>1, <2>2, <2>3 DEF PkInstall, PkRemove, PkBlame
<1>6. ASSUME NEW w \in PkWorkers, PkKick(w)
      PROVE  SizeDue'
  BY <1>6 DEF PkKick, ScanIdle
<1>7. ASSUME NEW w \in PkWorkers, PkFlush(w)
      PROVE  SizeDue'
  <2>1. Owes' = Owes
    BY <1>7 DEF PkFlush, PkGoto, Owes, PkTypes, PkwRec
  <2>2. UNCHANGED <<inst, pkdu, scan>> /\ ("size" \in pkblame => "size" \in pkblame')
    BY <1>7 DEF PkFlush, PkBlame
  <2>3. QED BY <2>1, <2>2
<1>7a. CASE PkRestart
  <2>1. "size" \notin pkblame' => "size" \notin pkblame /\ ~Owes /\ scan.pc = "idle" /\ UNCHANGED inst
    BY <1>7a DEF PkRestart, PkBlame, Owes
  <2>2. UNCHANGED pkdu /\ scan'.pc = "idle"
    BY <1>7a DEF PkRestart, ScanIdle
  <2>3. QED BY <2>1, <2>2
<1>8. ASSUME NEW w \in PkWorkers,
             PkIterate(w) \/ PkList(w) \/ PkStore(w) \/ PkStats(w) \/ PkCheck(w)
             \/ \E p \in PkNames : PkAdd(w, p) \/ PkDel(w, p)
      PROVE  SizeDue'
  <2>1. \A v \in PkWorkers \ {w} : pkw'[v] = pkw[v]
    BY <1>8 DEF PkIterate, PkList, PkStore, PkStats, PkCheck, PkAdd, PkDel, PkGoto, PkTypes
  <2>2. pkw[w].pc \notin {"flush", "kick"} /\ UNCHANGED <<inst, pkdu>>
    BY <1>8 DEF PkIterate, PkList, PkStore, PkStats, PkCheck, PkAdd, PkDel
  <2>3. "size" \in pkblame => "size" \in pkblame'
    BY <1>8 DEF PkIterate, PkList, PkStore, PkStats, PkCheck, PkAdd, PkDel, PkBlame
  <2>4. UNCHANGED scan \/ (scan.pc = "idle" /\ scan'.pc = "scan")
    BY <1>8 DEF PkIterate, PkList, PkStore, PkStats, PkCheck, PkAdd, PkDel, ScanIdle
  <2>5. Owes => Owes'
    BY <2>1, <2>2 DEF Owes
  <2>6. QED BY <2>2, <2>3, <2>4, <2>5
<1>9. QED BY <1>1, <1>2, <1>3, <1>4, <1>5, <1>6, <1>7, <1>7a, <1>8 DEF PkNext

\* The bound of the limit is a number that no admitted size exceeds.
LEMMA RoomIsNat ==
    /\ Max({PkLimit - PkGap, 0}) \in Nat
    /\ PkLimit - PkGap <= Max({PkLimit - PkGap, 0})
<1> DEFINE x == PkLimit - PkGap
<1>1. x \in Int
  BY PkSizesAssumption
<1>2. \E m \in {x, 0} : \A y \in {x, 0} : m >= y
  BY <1>1
<1>3. Max({x, 0}) \in {x, 0} /\ \A y \in {x, 0} : Max({x, 0}) >= y
  BY <1>2 DEF Max
<1>4. QED BY <1>1, <1>3

\* Installed and admitted packages stay within the bound, and the size no further
\* behind than the requests that owe a scan.
LEMMA LimitStep ==
  ASSUME PkTypes, OverdueBlamed, Measured, Overshoot, [PkNext]_pkVars
  PROVE  Measured' /\ Overshoot'
<1> DEFINE Room == Max({PkLimit - PkGap, 0})
           Workers == Cardinality(PkWorkers)
<1>1. "size" \in pkblame => "size" \in pkblame'
  BY DEF PkNext, pkVars, PkIterate, PkList, PkStore, PkStats, PkCheck, PkInstall, PkFlush,
     PkKick, PkRemove, PkAdd, PkDel, LateInstall, ScanDir, ScanWrite, PkRestart, PkBlame
<1>2. CASE "size" \in pkblame' \/ PkLimit = 0
  BY <1>2 DEF Measured, Overshoot
<1>3. CASE "size" \notin pkblame' /\ PkLimit # 0
  <2>1. Room \in Nat /\ PkLimit - PkGap <= Room /\ PkLimit \in Nat /\ PkGap \in Nat
    BY RoomIsNat, PkSizesAssumption
  <2>2. /\ nOwing \in Nat /\ nAdmitted \in Nat /\ Workers \in Nat /\ nOwing + nAdmitted <= Workers
    <3>1. Owing \in SUBSET PkWorkers /\ Admitted \in SUBSET PkWorkers /\ Owing \cap Admitted = {}
      BY DEF Owing, Admitted
    <3>2. QED BY <3>1, Groups DEF nOwing, nAdmitted
  <2>3. /\ nOwing' \in Nat /\ nAdmitted' \in Nat /\ nOwing' + nAdmitted' <= Workers
    <3>1. Owing' \in SUBSET PkWorkers /\ Admitted' \in SUBSET PkWorkers /\ Owing' \cap Admitted' = {}
      BY DEF Owing, Admitted
    <3>2. QED BY <3>1, Groups DEF nOwing, nAdmitted
  <2>4. PICK o1 \in Nat : nOwing' = o1
    BY <2>3
  <2>5. PICK a1 \in Nat : nAdmitted' = a1
    BY <2>3
  <2>6. Cardinality(inst) \in Nat /\ IsFiniteSet(inst) /\ inst \in SUBSET PkNames
    BY Installed DEF PkTypes
  <2>7. /\ pkdu \in Int /\ scan.du \in Int /\ NoSize = -1 /\ (pkdu # NoSize => pkdu \in Nat)
    BY PkSetsAssumption, FS_CardinalityType DEF PkTypes, ScanRec, Sizes, NoSize
  <2>8. /\ pkdu = NoSize =>
              inst = {} /\ \A w \in PkWorkers : pkw[w].pc \notin {"check", "inst", "flush", "kick", "remove"}
        /\ pkdu # NoSize => Cardinality(inst) <= pkdu + nOwing + (IF scan.pc = "idle" THEN 0 ELSE 1)
        /\ scan.pc = "write" => Cardinality(inst) <= scan.du + nOwing
        /\ Cardinality(inst) + nAdmitted <= Room + Workers + 1
    BY <1>1, <1>3 DEF Measured, Overshoot
  <2> DEFINE Goal ==
        /\ pkdu' = NoSize =>
              /\ inst' = {}
              /\ \A v \in PkWorkers : pkw'[v].pc \notin {"check", "inst", "flush", "kick", "remove"}
        /\ pkdu' # NoSize => Cardinality(inst') <= pkdu' + o1 + (IF scan'.pc = "idle" THEN 0 ELSE 1)
        /\ scan'.pc = "write" => Cardinality(inst') <= scan'.du + o1
        /\ Cardinality(inst') + a1 <= Room + Workers + 1
  <2>9. SUFFICES Goal
    BY <2>4, <2>5 DEF Measured, Overshoot
  <2> HIDE DEF Room, Workers
  \* how the numbers follow the step of one request
  <2>10. ASSUME NEW w \in PkWorkers, \A v \in PkWorkers \ {w} : pkw'[v].pc = pkw[v].pc
         PROVE  /\ o1 = nOwing + (IF pkw'[w].pc \in {"flush", "kick"} THEN 1 ELSE 0)
                               - (IF pkw[w].pc \in {"flush", "kick"} THEN 1 ELSE 0)
                /\ a1 = nAdmitted + (IF pkw'[w].pc = "inst" THEN 1 ELSE 0) - (IF pkw[w].pc = "inst" THEN 1 ELSE 0)
    BY <2>4, <2>5, <2>10, PkMoves
  <2>11. CASE UNCHANGED pkVars \/ ScanDir
    <3>1. nOwing' = nOwing /\ nAdmitted' = nAdmitted
      BY <2>11 DEF pkVars, ScanDir, nOwing, nAdmitted, Owing, Admitted
    <3>2. o1 = nOwing /\ a1 = nAdmitted
      BY <2>4, <2>5, <3>1
    <3>3. CASE UNCHANGED pkVars
      BY <2>8, <3>2, <3>3 DEF pkVars
    <3>4. CASE ScanDir
      <4>1. scan.pc = "scan" /\ scan'.pc = "write" /\ scan'.du = Cardinality(inst) /\ UNCHANGED <<pkdu, inst, pkw>>
        BY <3>4 DEF ScanDir, PkTypes, ScanRec
      <4>2. QED BY <2>2, <2>6, <2>8, <3>2, <4>1
    <3>5. QED BY <2>11, <3>3, <3>4
  \* nothing is installed, admitted or owed
  <2>12. ASSUME NEW w \in PkWorkers,
                PkIterate(w) \/ PkList(w) \/ PkStore(w) \/ PkStats(w) \/ PkFlush(w)
                \/ \E p \in PkNames : PkAdd(w, p) \/ PkDel(w, p)
         PROVE  Goal
    <3>1. \A v \in PkWorkers \ {w} : pkw'[v].pc = pkw[v].pc
      BY <2>12 DEF PkIterate, PkList, PkStore, PkStats, PkFlush, PkAdd, PkDel, PkGoto, PkTypes
    <3>2. /\ pkw[w].pc \in {"flush", "kick"} <=> pkw'[w].pc \in {"flush", "kick"}
          /\ pkw[w].pc # "inst" /\ pkw'[w].pc # "inst"
          /\ pkdu = NoSize => pkw'[w].pc \notin {"check", "inst", "flush", "kick", "remove"}
      <4>1. CASE PkIterate(w)
        BY <4>1 DEF PkIterate, PkGoto, PkTypes, PkwRec
      <4>2. CASE PkList(w) \/ PkStore(w)
        BY <4>2 DEF PkList, PkStore, PkTypes, PkwRec, PkIdle
      <4>3. CASE PkStats(w)
        BY <4>3 DEF PkStats, PkGoto, PkTypes, PkwRec
      <4>4. CASE PkFlush(w)
        BY <2>8, <4>4 DEF PkFlush, PkGoto, PkTypes, PkwRec
      <4>5. ASSUME NEW p \in PkNames, PkAdd(w, p) \/ PkDel(w, p)
            PROVE  /\ pkw[w].pc = "idle" /\ pkw'[w].pc \in {"stats", "remove"}
                   /\ pkdu = NoSize => pkw'[w].pc # "remove"
        BY <1>3, <2>8, <4>5 DEF PkAdd, PkDel, PkIdle, PkTypes
      <4>6. QED BY <2>12, <4>1, <4>2, <4>3, <4>4, <4>5
    <3>3. o1 = nOwing /\ a1 = nAdmitted
      BY <2>2, <2>10, <3>1, <3>2
    <3>4. UNCHANGED <<inst, pkdu>> /\ (UNCHANGED scan \/ (scan.pc = "idle" /\ scan'.pc = "scan"))
      BY <2>12 DEF PkIterate, PkList, PkStore, PkStats, PkFlush, PkAdd, PkDel, ScanIdle
    <3>5. QED BY <2>2, <2>6, <2>7, <2>8, <3>1, <3>2, <3>3, <3>4
  \* the size that admits a request is one package behind for each that owes a scan
  <2>13. ASSUME NEW w \in PkWorkers, PkCheck(w)
         PROVE  Goal
    <3>1. /\ \A v \in PkWorkers \ {w} : pkw'[v].pc = pkw[v].pc
          /\ UNCHANGED <<inst, pkdu, scan>> /\ pkw[w].pc = "check" /\ pkdu # NoSize
      BY <2>8, <2>13 DEF PkCheck, PkTypes
    <3>2. \/ pkw'[w].pc = "idle"
          \/ pkw'[w].pc = "inst" /\ ~(pkdu + PkGap > PkLimit)
      BY <2>13, <3>1 DEF PkCheck, PkTypes, PkwRec, PkIdle
    <3>3. o1 = nOwing /\ (pkw'[w].pc = "idle" => a1 = nAdmitted)
      BY <2>2, <2>10, <3>1, <3>2
    <3>4. CASE pkw'[w].pc = "idle"
      BY <2>2, <2>6, <2>7, <2>8, <3>1, <3>3, <3>4
    <3>5. CASE pkw'[w].pc = "inst" /\ ~(pkdu + PkGap > PkLimit)
      <4>1. pkdu <= Room
        BY <2>1, <2>7, <3>5
      <4>2. Cardinality(inst) <= pkdu + nOwing + 1
        BY <2>2, <2>6, <2>7, <2>8, <3>1
      <4>3. nOwing + a1 <= Workers
        BY <2>3, <2>4, <2>5, <3>3
      <4>4. Cardinality(inst) + a1 <= Room + Workers + 1
        BY <2>1, <2>2, <2>6, <2>7, <4>1, <4>2, <4>3
      <4>5. QED BY <2>8, <3>1, <3>3, <4>4
    <3>6. QED BY <3>2, <3>4, <3>5
  <2>14. ASSUME NEW w \in PkWorkers, PkInstall(w)
         PROVE  Goal
    <3>1. /\ \A v \in PkWorkers \ {w} : pkw'[v].pc = pkw[v].pc
          /\ UNCHANGED <<pkdu, scan>> /\ pkw[w].pc = "inst" /\ pkdu # NoSize
      BY <2>8, <2>14 DEF PkInstall, PkGoto, PkTypes
    <3>2. \/ inst' = inst \cup {pkw[w].name} /\ pkw'[w].pc = "flush"
          \/ inst' = inst /\ pkw'[w].pc = "idle"
      BY <2>14 DEF PkInstall, PkGoto, PkTypes, PkwRec, PkIdle
    <3>3. CASE inst' = inst \cup {pkw[w].name} /\ pkw'[w].pc = "flush"
      <4>1. Cardinality(inst') \in {Cardinality(inst), Cardinality(inst) + 1}
        BY <2>6, <3>3, FS_AddElement
      <4>2. o1 = nOwing + 1 /\ a1 = nAdmitted - 1
        BY <2>2, <2>10, <3>1, <3>3
      <4>3. QED BY <2>1, <2>2, <2>6, <2>7, <2>8, <3>1, <4>1, <4>2
    <3>4. CASE inst' = inst /\ pkw'[w].pc = "idle"
      <4>1. o1 = nOwing /\ a1 = nAdmitted - 1
        BY <2>2, <2>10, <3>1, <3>4
      <4>2. QED BY <2>1, <2>2, <2>6, <2>7, <2>8, <3>1, <3>4, <4>1
    <3>5. QED BY <3>2, <3>3, <3>4
  <2>15. ASSUME NEW w \in PkWorkers, PkRemove(w)
         PROVE  Goal
    <3>1. /\ \A v \in PkWorkers \ {w} : pkw'[v].pc = pkw[v].pc
          /\ UNCHANGED <<pkdu, scan>> /\ pkw[w].pc = "remove" /\ pkdu # NoSize
      BY <2>8, <2>15 DEF PkRemove, PkGoto, PkTypes
    <3>2. (inst' = inst \ {pkw[w].name} \/ inst' = inst) /\ pkw'[w].pc \in {"flush", "idle"}
      BY <2>15 DEF PkRemove, PkGoto, PkTypes, PkwRec, PkIdle
    <3>3. Cardinality(inst') \in {Cardinality(inst), Cardinality(inst) - 1}
      BY <2>6, <3>2, FS_RemoveElement
    <3>4. o1 \in {nOwing, nOwing + 1} /\ a1 = nAdmitted
      BY <2>2, <2>10, <3>1, <3>2
    <3>5. QED BY <2>1, <2>2, <2>6, <2>7, <2>8, <3>1, <3>3, <3>4
  <2>16. ASSUME NEW w \in PkWorkers, PkKick(w)
         PROVE  Goal
    <3>1. /\ \A v \in PkWorkers \ {w} : pkw'[v].pc = pkw[v].pc
          /\ UNCHANGED <<inst, pkdu>> /\ pkw[w].pc = "kick" /\ pkw'[w].pc = "idle" /\ pkdu # NoSize
          /\ scan.pc = "idle" /\ scan'.pc = "scan"
      BY <2>8, <2>16 DEF PkKick, PkTypes, PkIdle, ScanIdle
    <3>2. o1 = nOwing - 1 /\ a1 = nAdmitted
      BY <2>2, <2>10, <3>1
    <3>3. QED BY <2>1, <2>2, <2>6, <2>7, <2>8, <3>1, <3>2
  <2>17. ASSUME NEW p \in PkNames, LateInstall(p)
         PROVE  Goal
    BY <1>3, <2>17 DEF LateInstall, OverdueBlamed
  <2>18. CASE ScanWrite
    <3>1. \A v \in PkWorkers : pkw'[v].pc = pkw[v].pc \/ (pkw[v].pc = "sync" /\ pkw'[v].pc = "check")
      BY <2>18 DEF ScanWrite, PkTypes, PkwRec
    <3>2. Owing' = Owing /\ Admitted' = Admitted
      BY <3>1 DEF Owing, Admitted
    <3>3. nOwing' = nOwing /\ nAdmitted' = nAdmitted
      BY <3>2 DEF nOwing, nAdmitted
    <3>4. o1 = nOwing /\ a1 = nAdmitted
      BY <2>4, <2>5, <3>3
    <3>5. scan.pc = "write" /\ scan'.pc = "idle" /\ pkdu' = scan.du /\ UNCHANGED inst /\ scan.du # NoSize
      BY <1>3, <2>18 DEF ScanWrite, PkBlame, ScanIdle, PkTypes
    <3>6. QED BY <2>2, <2>6, <2>7, <2>8, <3>4, <3>5
  <2>19. CASE PkRestart
    <3>1. /\ UNCHANGED <<inst, pkdu>> /\ scan'.pc = "idle" /\ \A v \in PkWorkers : pkw'[v].pc = "idle"
          /\ \A v \in PkWorkers : pkw[v].pc \notin {"flush", "kick"}
          /\ scan.pc = "idle"
      BY <1>3, <2>19 DEF PkRestart, PkBlame, PkIdle, ScanIdle
    <3>2. Owing = {} /\ Owing' = {} /\ Admitted' = {}
      BY <3>1 DEF Owing, Admitted
    <3>3. nOwing = 0 /\ nOwing' = 0 /\ nAdmitted' = 0
      BY <3>2, FS_EmptySet DEF nOwing, nAdmitted
    <3>4. o1 = 0 /\ a1 = 0
      BY <2>4, <2>5, <3>3
    <3>5. QED BY <2>1, <2>2, <2>6, <2>7, <2>8, <3>1, <3>3, <3>4
  <2>20. QED
    BY <2>11, <2>12, <2>13, <2>14, <2>15, <2>16, <2>17, <2>18, <2>19 DEF PkNext
<1>4. QED BY <1>2, <1>3

\* The inductive invariant of the packages.
LEMMA PkInvHolds == PkSpec => []PkInv
<1>1. PkInit => PkInv
  <2> SUFFICES ASSUME PkInit PROVE PkInv
    OBVIOUS
  <2>1. PkIdle \in PkwRec /\ ScanIdle \in ScanRec /\ PkIdle.pc = "idle" /\ ScanIdle.pc = "idle"
    BY DEF PkIdle, PkwRec, PkLabels, ScanIdle, ScanRec, Sizes
  <2>2. PkTypes
    BY <2>1, PkSetsAssumption DEF PkInit, PkTypes, Sizes, ScanIdle, PkNone
  <2>3. \A w \in PkWorkers : pkw[w].pc = "idle"
    BY <2>1 DEF PkInit
  <2>4. OverdueBlamed /\ ListDue /\ SizeDue
    BY <2>1 DEF PkInit, OverdueBlamed, ListDue, SizeDue
  <2>5. Measured
    BY <2>1, <2>3 DEF PkInit, Measured
  <2>6. Overshoot
    <3>1. Admitted = {} /\ inst = {}
      BY <2>3 DEF Admitted, PkInit
    <3>2. nAdmitted = 0 /\ Cardinality(inst) = 0
      BY <3>1, FS_EmptySet DEF nAdmitted
    <3>3. Cardinality(PkWorkers) \in Nat
      BY PkSetsAssumption, FS_CardinalityType
    <3>4. QED BY <3>2, <3>3, RoomIsNat DEF Overshoot
  <2>7. QED BY <2>2, <2>4, <2>5, <2>6 DEF PkInv
<1>2. PkInv /\ [PkNext]_pkVars => PkInv'
  BY PkTypeStep, OverdueStep, ListStep, SizeStep, LimitStep DEF PkInv
<1>3. QED BY <1>1, <1>2, PTL DEF PkSpec

\* The variables of a tenant's packages have their types (packages.go).
THEOREM PackageTypes == PkSpec => []PkTypeOK
<1>1. PkInv => PkTypeOK
  BY DEF PkInv, PkTypes, PkTypeOK, Sizes, PkwRec, ScanRec
<1>2. QED BY <1>1, PkInvHolds, PTL

\* With nobody at work the cached list is what is installed and the cached size how
\* much that is, and at all times installations overshoot the limit by one package
\* for each request and one for the running scan at most, but for the reasons that
\* are named (PackageDesc.Add and Del, Iterate, langStatScanOne).
THEOREM PackagesAreSound == PkSpec => []PackagesSound
<1>1. ASSUME PkInv PROVE PackagesSound
  <2>1. ListIsInstalled
    BY <1>1 DEF PkInv, ListDue, ListIsInstalled, PkQuiet
  <2>2. SizeIsMeasured
    BY <1>1 DEF PkInv, SizeDue, Owes, SizeIsMeasured, PkQuiet
  <2>3. OvershootBounded
    <3>1. Cardinality(inst) \in Nat /\ nAdmitted \in Nat /\ Cardinality(PkWorkers) \in Nat
      <4>1. Admitted \in SUBSET PkWorkers /\ {} \in SUBSET PkWorkers /\ Admitted \cap {} = {}
        BY DEF Admitted
      <4>2. QED BY <1>1, <4>1, Groups, Installed DEF PkInv, PkTypes, nAdmitted
    <3>2. QED BY <1>1, <3>1, RoomIsNat DEF PkInv, Overshoot, OvershootBounded
  <2>4. QED BY <2>1, <2>2, <2>3 DEF PackagesSound
<1>2. QED BY <1>1, PkInvHolds, PTL

-----------------------------------------------------------------------------
(* Accounts.                                                               *)

\* The types of an account and of a request.
AccRec == [id : AcIds \cup {NoAcc}, ver : Nat]
AcwRec == [pc : AcLabels, acc : AccRec, thing : AcThings \cup {NoAcc}, list : SUBSET AcThings, rv : Nat]

\* A request works on an account it has a copy of, with a version handed out.
AcGood(r, last) ==
    /\ r \in AcwRec /\ r.acc.ver <= last
    /\ r.pc \in AccLabels => r.acc.id \in AcIds /\ r.acc.ver # 0
    /\ r.pc \in {"push", "pull"} => r.thing \in AcThings

\* AcTypeOK with the types of the fields; a version in use was handed out.
AcTypes ==
    /\ acrec \in AccRec /\ acsec \in Nat /\ aclast \in Nat
    /\ acrec.ver <= aclast /\ acsec <= aclast /\ (acrec.id = NoAcc <=> acrec.ver = 0)
    /\ aclist \subseteq AcThings /\ dep \in [env : SUBSET AcThings, rv : Nat]
    /\ acw \in [AcWorkers -> AcwRec] /\ (\A w \in AcWorkers : AcGood(acw[w], aclast))
    /\ acblame \subseteq {"secret", "stray", "env"}

\* the steps of Add, once it has its id
Adding == {"ainsert", "asecret", "aundo"}

\* An id is of one Add.
OneAdder ==
    \A v, w \in AcWorkers : acw[v].pc \in Adding /\ acw[w].pc \in Adding /\ v # w => acw[v].acc.id # acw[w].acc.id

\* A secret that is there has an account, and the Add of that account is over.
SecretHasOwner ==
    "stray" \notin acblame /\ acsec # 0 =>
        /\ acrec # NoAccount
        /\ \A w \in AcWorkers : acw[w].pc \in {"asecret", "aundo"} => acw[w].acc.id # acrec.id

\* Somebody is about to bring record and secret together.
AtWork(w) == acw[w].pc \in {"asecret", "aundo", "usave", "dremove"} /\ acw[w].acc.id = acrec.id
SecretDue ==
    "secret" \notin acblame /\ acrec # NoAccount => acsec = acrec.ver \/ \E w \in AcWorkers : AtWork(w)

\* Somebody is about to write the environment.
EnvDue ==
    "env" \notin acblame => dep.env = aclist \/ \E w \in AcWorkers : acw[w].pc \in {"get", "put"}

\* The inductive invariant of an account.
AcInv == AcTypes /\ OneAdder /\ SecretHasOwner /\ SecretDue /\ EnvDue

\* Records and requests at rest are of their types.
LEMMA AcIdleTypes ==
    /\ NoAccount \in AccRec /\ NoAccount.id = NoAcc /\ NoAccount.ver = 0
    /\ AcIdle \in AcwRec /\ AcIdle.pc = "idle" /\ AcIdle.acc = NoAccount
    /\ \A n \in Nat : AcGood(AcIdle, n)
  BY DEF NoAccount, AccRec, AcIdle, AcwRec, AcLabels, AccLabels, AcGood

\* A new request on a copy of an account.
LEMMA AcFresh ==
  ASSUME NEW l \in AcLabels, NEW a \in AccRec
  PROVE  /\ [AcIdle EXCEPT !.pc = l, !.acc = a] \in AcwRec
         /\ [AcIdle EXCEPT !.pc = l, !.acc = a].pc = l
         /\ [AcIdle EXCEPT !.pc = l, !.acc = a].acc = a
  BY DEF AcIdle, AcwRec

\* A request at another label is as good, when it is one of the same kind.
LEMMA AcGoodAt ==
  ASSUME NEW r, NEW n \in Nat, NEW l \in AcLabels, AcGood(r, n),
         l \in AccLabels => r.pc \in AccLabels, l \notin {"push", "pull"}
  PROVE  AcGood([r EXCEPT !.pc = l], n)
  BY DEF AcGood, AcwRec

\* The types of the store and of the request that made a step are enough.
LEMMA AcOneMoves ==
  ASSUME AcTypes, NEW w \in AcWorkers, NEW r, aclast' \in Nat, aclast <= aclast', AcGood(r, aclast'),
         acw' = [acw EXCEPT ![w] = r]
  PROVE  acw' \in [AcWorkers -> AcwRec] /\ \A v \in AcWorkers : AcGood(acw[v], aclast)'
<1>1. r \in AcwRec
  BY DEF AcGood
<1>2. ASSUME NEW v \in AcWorkers PROVE AcGood(acw'[v], aclast')
  <2>1. CASE v = w
    BY <2>1 DEF AcTypes
  <2>2. CASE v # w
    <3>1. acw'[v] = acw[v] /\ AcGood(acw[v], aclast) /\ aclast \in Nat
      BY <2>2 DEF AcTypes
    <3>2. acw[v].acc.ver \in Nat
      BY <3>1 DEF AcGood, AcwRec, AccRec
    <3>3. QED BY <3>1, <3>2 DEF AcGood
  <2>3. QED BY <2>1, <2>2
<1>3. QED BY <1>1, <1>2 DEF AcTypes

\* The types hold in every step.
LEMMA AcTypeStep == ASSUME AcTypes, [AcNext]_acVars PROVE AcTypes'
<1> USE AcIdleTypes, AcAssumption
<1>1. CASE UNCHANGED acVars
  BY <1>1 DEF acVars, AcTypes
<1>2. ASSUME NEW w \in AcWorkers, NEW r, UNCHANGED aclast, AcGood(r, aclast), acw' = [acw EXCEPT ![w] = r]
      PROVE  acw' \in [AcWorkers -> AcwRec] /\ \A v \in AcWorkers : AcGood(acw[v], aclast)'
  <2>1. aclast \in Nat /\ aclast' \in Nat /\ aclast <= aclast' /\ aclast' = aclast
    BY <1>2 DEF AcTypes
  <2>2. QED BY <1>2, <2>1, AcOneMoves
<1>3. ASSUME NEW w \in AcWorkers, AcEnd(w), UNCHANGED aclast
      PROVE  acw' \in [AcWorkers -> AcwRec] /\ \A v \in AcWorkers : AcGood(acw[v], aclast)'
  BY <1>2, <1>3 DEF AcEnd, AcTypes
<1>4. ASSUME NEW w \in AcWorkers, NEW l \in AcLabels, AcGoto(w, l), UNCHANGED aclast,
             l \in AccLabels => acw[w].pc \in AccLabels, l \notin {"push", "pull"}
      PROVE  acw' \in [AcWorkers -> AcwRec] /\ \A v \in AcWorkers : AcGood(acw[v], aclast)'
  <2>1. AcGood([acw[w] EXCEPT !.pc = l], aclast)
    BY <1>4, AcGoodAt DEF AcTypes
  <2>2. QED BY <1>2, <1>4, <2>1 DEF AcGoto
<1>5. ASSUME NEW w \in AcWorkers
      PROVE  acw[w] \in AcwRec /\ Mine(w) \in AccRec /\ Mine(w).ver \in Nat /\ Mine(w).ver <= aclast
  BY DEF AcTypes, AcGood, AcwRec, AccRec, Mine
<1>6. ASSUME NEW w \in AcWorkers, acw[w].pc \in AccLabels
      PROVE  Mine(w).id # NoAcc /\ Mine(w).ver # 0
  BY <1>6 DEF AcTypes, AcGood, Mine
<1>7. ASSUME NEW w \in AcWorkers, NEW i \in AcIds, AccAdd(w, i)
      PROVE  AcTypes'
  <2> DEFINE r == [AcIdle EXCEPT !.pc = "ainsert", !.acc = [id |-> i, ver |-> aclast + 1]]
  <2>1. aclast \in Nat /\ aclast' = aclast + 1 /\ aclast' \in Nat /\ aclast <= aclast' /\ aclast' # 0
    BY <1>7 DEF AcTypes, AccAdd
  <2>2. AcGood(r, aclast')
    <3>1. [id |-> i, ver |-> aclast + 1] \in AccRec /\ "ainsert" \in AcLabels
      BY <2>1 DEF AccRec, AcLabels, AccLabels
    <3>2. r \in AcwRec /\ r.pc = "ainsert" /\ r.acc = [id |-> i, ver |-> aclast + 1]
      BY <3>1, AcFresh
    <3>3. r.acc.ver = aclast' /\ r.acc.id = i
      BY <2>1, <3>2
    <3> HIDE DEF r
    <3>4. QED BY <2>1, <3>2, <3>3 DEF AcGood
  <2>3. acw' = [acw EXCEPT ![w] = r]
    BY <1>7 DEF AccAdd
  <2> HIDE DEF r
  <2>4. acw' \in [AcWorkers -> AcwRec] /\ \A v \in AcWorkers : AcGood(acw[v], aclast)'
    BY <2>1, <2>2, <2>3, AcOneMoves
  <2>5. acrec.ver \in Nat /\ acsec \in Nat /\ acrec.ver <= aclast' /\ acsec <= aclast'
    BY <2>1 DEF AcTypes, AccRec
  <2>6. QED BY <1>7, <2>1, <2>4, <2>5 DEF AccAdd, AcTypes
<1>8. ASSUME NEW w \in AcWorkers, AccUpdate(w)
      PROVE  AcTypes'
  <2> DEFINE r == [AcIdle EXCEPT !.pc = "usecret", !.acc = [acrec EXCEPT !.ver = aclast + 1]]
  <2>1. aclast \in Nat /\ aclast' = aclast + 1 /\ aclast' \in Nat /\ aclast <= aclast' /\ aclast' # 0
    BY <1>8 DEF AcTypes, AccUpdate
  <2>2. acrec \in AccRec /\ acrec.id \in AcIds
    BY <1>8 DEF AcTypes, AccRec, NoAccount, AccUpdate
  <2>3. AcGood(r, aclast')
    <3>1. /\ [acrec EXCEPT !.ver = aclast + 1] \in AccRec /\ "usecret" \in AcLabels
          /\ [acrec EXCEPT !.ver = aclast + 1].ver = aclast' /\ [acrec EXCEPT !.ver = aclast + 1].id = acrec.id
      BY <2>1, <2>2 DEF AccRec, AcLabels, AccLabels
    <3>2. r \in AcwRec /\ r.pc = "usecret" /\ r.acc = [acrec EXCEPT !.ver = aclast + 1]
      BY <3>1, AcFresh
    <3>3. r.acc.ver = aclast' /\ r.acc.id = acrec.id
      BY <3>1, <3>2
    <3> HIDE DEF r
    <3>4. QED BY <2>1, <2>2, <3>2, <3>3 DEF AcGood
  <2>4. acw' = [acw EXCEPT ![w] = r]
    BY <1>8 DEF AccUpdate
  <2> HIDE DEF r
  <2>5. acw' \in [AcWorkers -> AcwRec] /\ \A v \in AcWorkers : AcGood(acw[v], aclast)'
    BY <2>1, <2>3, <2>4, AcOneMoves
  <2>6. acrec.ver \in Nat /\ acsec \in Nat /\ acrec.ver <= aclast' /\ acsec <= aclast'
    BY <2>1 DEF AcTypes, AccRec
  <2>7. QED BY <1>8, <2>1, <2>5, <2>6 DEF AccUpdate, AcTypes
<1>9. ASSUME NEW w \in AcWorkers, AccDel(w)
      PROVE  AcTypes'
  <2>1. AcGood([AcIdle EXCEPT !.pc = "dsecret", !.acc = acrec], aclast)
    BY <1>9 DEF AccDel, AcTypes, AcGood, AcIdle, AcwRec, AcLabels, AccLabels, AccRec, NoAccount
  <2>2. QED BY <1>2, <1>9, <2>1 DEF AccDel, AcTypes
<1>10. ASSUME NEW w \in AcWorkers, AccInsert(w)
       PROVE  AcTypes'
  <2>1. acw' \in [AcWorkers -> AcwRec] /\ \A v \in AcWorkers : AcGood(acw[v], aclast)'
    BY <1>3, <1>4, <1>10 DEF AccInsert, AcLabels, AccLabels
  <2>2. acrec' = acrec \/ acrec' = Mine(w)
    BY <1>10 DEF AccInsert
  <2>3. QED BY <1>5, <1>6, <1>10, <2>1, <2>2 DEF AccInsert, AcTypes, AccLabels
<1>11. ASSUME NEW w \in AcWorkers, AccSecret(w) \/ UpdSecret(w) \/ DelSecretAcc(w)
       PROVE  AcTypes'
  <2>1. acw' \in [AcWorkers -> AcwRec] /\ \A v \in AcWorkers : AcGood(acw[v], aclast)'
    BY <1>3, <1>4, <1>11 DEF AccSecret, UpdSecret, DelSecretAcc, AcLabels, AccLabels
  <2>2. acsec' = acsec \/ acsec' = Mine(w).ver \/ acsec' = 0
    BY <1>11 DEF AccSecret, UpdSecret, DelSecretAcc
  <2>3. acsec' \in Nat /\ acsec' <= aclast
    BY <1>5, <2>2 DEF AcTypes
  <2>4. QED BY <1>11, <2>1, <2>3 DEF AccSecret, UpdSecret, DelSecretAcc, AcTypes, AcBlame
<1>12. ASSUME NEW w \in AcWorkers, AccUndo(w) \/ UpdSave(w) \/ DelRecordAcc(w)
       PROVE  AcTypes'
  <2>1. acw' \in [AcWorkers -> AcwRec] /\ \A v \in AcWorkers : AcGood(acw[v], aclast)'
    BY <1>3, <1>12 DEF AccUndo, UpdSave, DelRecordAcc
  <2>2. acrec' = acrec \/ acrec' = Mine(w) \/ acrec' = NoAccount
    BY <1>12 DEF AccUndo, UpdSave, DelRecordAcc
  <2>3. acw[w].pc \in AccLabels
    BY <1>12 DEF AccUndo, UpdSave, DelRecordAcc, AccLabels
  <2>4. acrec' \in AccRec /\ acrec'.ver <= aclast /\ (acrec'.id = NoAcc <=> acrec'.ver = 0)
    BY <1>5, <1>6, <2>2, <2>3 DEF AcTypes
  <2>5. QED BY <1>12, <2>1, <2>4 DEF AccUndo, UpdSave, DelRecordAcc, AcTypes, AcBlame
<1>13. ASSUME NEW w \in AcWorkers, NEW x \in AcThings, NEW op \in {"push", "pull"}, FnGet(w, x, op)
       PROVE  AcTypes'
  <2>1. aclast \in Nat /\ aclist \subseteq AcThings
    BY DEF AcTypes
  <2>2. AcGood([AcIdle EXCEPT !.pc = op, !.thing = x, !.list = aclist], aclast)
    BY <2>1 DEF AcGood, AcIdle, AcwRec, AcLabels, AccLabels, AccRec, NoAccount
  <2>3. QED BY <1>2, <1>13, <2>2 DEF FnGet, AcTypes
<1>14. ASSUME NEW w \in AcWorkers, ListChange(w)
       PROVE  AcTypes'
  <2> DEFINE x == acw[w].thing
  <2>1. acw[w] \in AcwRec /\ x \in AcThings /\ aclast \in Nat
    BY <1>14 DEF ListChange, AcTypes, AcGood
  <2>2. ASSUME NEW L \in SUBSET AcThings PROVE AcGood([acw[w] EXCEPT !.pc = "get", !.list = L], aclast)
    BY <2>1 DEF AcTypes, AcGood, AcwRec, AcLabels, AccLabels
  <2>3. AcEnd(w) \/ \E L \in SUBSET AcThings : acw' = [acw EXCEPT ![w] = [acw[w] EXCEPT !.pc = "get", !.list = L]]
    <3>1. acw[w].list \cup {x} \in SUBSET AcThings /\ acw[w].list \ {x} \in SUBSET AcThings
      BY <2>1 DEF AcwRec
    <3>2. \/ AcEnd(w)
          \/ acw' = [acw EXCEPT ![w] = [acw[w] EXCEPT !.pc = "get", !.list = acw[w].list \cup {x}]]
          \/ acw' = [acw EXCEPT ![w] = [acw[w] EXCEPT !.pc = "get", !.list = acw[w].list \ {x}]]
      BY <1>14 DEF ListChange
    <3>3. QED BY <3>1, <3>2
  <2>4. acw' \in [AcWorkers -> AcwRec] /\ \A v \in AcWorkers : AcGood(acw[v], aclast)'
    BY <1>2, <1>3, <1>14, <2>2, <2>3 DEF ListChange
  <2>5. aclist' \subseteq AcThings
    BY <1>14, <2>1 DEF ListChange, AcTypes
  <2>6. QED BY <1>14, <2>4, <2>5 DEF ListChange, AcTypes
<1>15. ASSUME NEW w \in AcWorkers, DepGet(w) \/ DepPut(w)
       PROVE  AcTypes'
  <2>1. dep.rv \in Nat /\ acw[w].list \in SUBSET AcThings
    BY <1>5 DEF AcTypes, AcwRec
  <2>2. AcGood([acw[w] EXCEPT !.pc = "put", !.rv = dep.rv], aclast)
    <3> DEFINE r == [acw[w] EXCEPT !.pc = "put", !.rv = dep.rv]
    <3>1. acw[w] \in AcwRec /\ acw[w].acc.ver <= aclast
      BY DEF AcTypes, AcGood
    <3>2. r \in AcwRec /\ r.acc = acw[w].acc /\ r.pc = "put"
      BY <2>1, <3>1 DEF AcwRec, AcLabels
    <3>3. QED BY <3>1, <3>2 DEF AcGood, AccLabels
  <2>3. acw' = [acw EXCEPT ![w] = [acw[w] EXCEPT !.pc = "put", !.rv = dep.rv]] \/ AcEnd(w)
    BY <1>15 DEF DepGet, DepPut
  <2>4. acw' \in [AcWorkers -> AcwRec] /\ \A v \in AcWorkers : AcGood(acw[v], aclast)'
    BY <1>2, <1>3, <1>15, <2>2, <2>3 DEF DepGet, DepPut
  <2>5. dep' \in [env : SUBSET AcThings, rv : Nat]
    BY <1>15, <2>1 DEF DepGet, DepPut, AcTypes
  <2>6. QED BY <1>15, <2>4, <2>5 DEF DepGet, DepPut, AcTypes, AcBlame
<1>16. CASE AcRestart
  BY <1>16 DEF AcRestart, AcBlame, AcTypes
<1>17. QED
  BY <1>1, <1>7, <1>8, <1>9, <1>10, <1>11, <1>12, <1>13, <1>14, <1>15, <1>16 DEF AcNext

\* What a step of request w leaves alone: the other requests.
LEMMA AcOthers ==
  ASSUME AcTypes, NEW w \in AcWorkers,
         \/ \E i \in AcIds : AccAdd(w, i)
         \/ AccInsert(w) \/ AccSecret(w) \/ AccUndo(w) \/ AccUpdate(w) \/ UpdSecret(w) \/ UpdSave(w)
         \/ AccDel(w) \/ DelSecretAcc(w) \/ DelRecordAcc(w)
         \/ \E x \in AcThings, op \in {"push", "pull"} : FnGet(w, x, op)
         \/ ListChange(w) \/ DepGet(w) \/ DepPut(w)
  PROVE  \A v \in AcWorkers \ {w} : acw'[v] = acw[v]
  BY DEF AcTypes, AccAdd, AccInsert, AccSecret, AccUndo, AccUpdate, UpdSecret, UpdSave, AccDel,
     DelSecretAcc, DelRecordAcc, FnGet, ListChange, DepGet, DepPut, AcGoto, AcEnd

\* Update and Del go for the secret first.
LEMMA AcStarts ==
  ASSUME AcTypes, NEW w \in AcWorkers, AccUpdate(w) \/ AccDel(w)
  PROVE  acw'[w].pc \in {"usecret", "dsecret"}
<1>1. ASSUME NEW l, NEW a PROVE [AcIdle EXCEPT !.pc = l, !.acc = a].pc = l
  BY DEF AcIdle
<1>2. \E l \in {"usecret", "dsecret"} : \E a :
        acw' = [acw EXCEPT ![w] = [AcIdle EXCEPT !.pc = l, !.acc = a]]
  BY DEF AccUpdate, AccDel
<1>3. \E l \in {"usecret", "dsecret"} : \E a : acw'[w] = [AcIdle EXCEPT !.pc = l, !.acc = a]
  BY <1>2 DEF AcTypes
<1>4. QED BY <1>1, <1>3

\* A request that was given an id for an Add is the only one with it.
LEMMA AdderStep == ASSUME AcTypes, OneAdder, [AcNext]_acVars PROVE OneAdder'
<1> USE AcIdleTypes
<1>1. CASE UNCHANGED acVars
  BY <1>1 DEF acVars, OneAdder
<1>2. ASSUME NEW w \in AcWorkers, NEW i \in AcIds, AccAdd(w, i)
      PROVE  OneAdder'
  <2>1. \A v \in AcWorkers \ {w} : acw'[v] = acw[v] /\ acw[v].acc.id # i
    BY <1>2, AcOthers DEF AccAdd
  <2>2. acw'[w].acc.id = i
    BY <1>2 DEF AccAdd, AcTypes, AcIdle
  <2>3. QED BY <2>1, <2>2 DEF OneAdder
\* whoever is at an Add now was at it before, with the same id
<1>3. ASSUME \A v \in AcWorkers : acw'[v].pc \in Adding => acw[v].pc \in Adding /\ acw'[v].acc = acw[v].acc
      PROVE  OneAdder'
  BY <1>3 DEF OneAdder
<1>4. ASSUME NEW w \in AcWorkers, AccInsert(w) \/ AccSecret(w) \/ AccUndo(w)
      PROVE  OneAdder'
  <2>1. acw'[w].pc \in Adding => acw[w].pc \in Adding /\ acw'[w].acc = acw[w].acc
    BY <1>4 DEF AccInsert, AccSecret, AccUndo, AcGoto, AcEnd, AcTypes, AcwRec, Adding
  <2>2. QED BY <1>3, <1>4, <2>1, AcOthers
<1>5. ASSUME NEW w \in AcWorkers,
             \/ AccUpdate(w) \/ UpdSecret(w) \/ UpdSave(w) \/ AccDel(w) \/ DelSecretAcc(w) \/ DelRecordAcc(w)
             \/ \E x \in AcThings, op \in {"push", "pull"} : FnGet(w, x, op)
             \/ ListChange(w) \/ DepGet(w) \/ DepPut(w)
      PROVE  OneAdder'
  <2>1. acw'[w].pc \notin Adding
    <3>1. CASE AccUpdate(w) \/ AccDel(w)
      BY <3>1, AcStarts DEF Adding
    <3>2. CASE UpdSecret(w) \/ UpdSave(w) \/ DelSecretAcc(w) \/ DelRecordAcc(w)
      BY <3>2 DEF UpdSecret, UpdSave, DelSecretAcc, DelRecordAcc, AcGoto, AcEnd, AcTypes,
         AcwRec, Adding
    <3>3. CASE \E x \in AcThings, op \in {"push", "pull"} : FnGet(w, x, op)
      BY <3>3 DEF FnGet, AcTypes, AcIdle, Adding
    <3>4. CASE ListChange(w) \/ DepGet(w) \/ DepPut(w)
      BY <3>4 DEF ListChange, DepGet, DepPut, AcEnd, AcTypes, AcwRec, Adding
    <3>5. QED BY <1>5, <3>1, <3>2, <3>3, <3>4
  <2>2. QED BY <1>3, <1>5, <2>1, AcOthers
<1>6. CASE AcRestart
  BY <1>6 DEF AcRestart, OneAdder, Adding
<1>7. QED BY <1>1, <1>2, <1>4, <1>5, <1>6 DEF AcNext

\* A secret keeps its account, or there is a reason.
LEMMA OwnerStep == ASSUME AcTypes, OneAdder, SecretHasOwner, [AcNext]_acVars PROVE SecretHasOwner'
<1> USE AcIdleTypes, AcAssumption
<1>1. CASE UNCHANGED acVars
  BY <1>1 DEF acVars, SecretHasOwner
<1>2. ASSUME NEW w \in AcWorkers, NEW i \in AcIds, AccAdd(w, i)
      PROVE  SecretHasOwner'
  BY <1>2 DEF AccAdd, SecretHasOwner, AcTypes, AcIdle
<1>3. ASSUME NEW w \in AcWorkers, AccInsert(w)
      PROVE  SecretHasOwner'
  BY <1>3 DEF AccInsert, SecretHasOwner, AcTypes, AcwRec, AcGoto, AcEnd
<1>4. ASSUME NEW w \in AcWorkers, AccSecret(w)
      PROVE  SecretHasOwner'
  <2>1. CASE acsec = 0 /\ acsec' = Mine(w).ver /\ AcEnd(w) /\ acrec.id = Mine(w).id
    <3>1. acrec # NoAccount /\ acw[w].pc \in Adding /\ UNCHANGED acrec
      BY <1>4, <2>1 DEF AccSecret, AcTypes, AcGood, AccLabels, Mine, Adding
    <3>2. \A v \in AcWorkers : acw'[v].pc \in {"asecret", "aundo"} => v # w /\ acw'[v] = acw[v]
      BY <2>1 DEF AcEnd, AcTypes
    <3>3. \A v \in AcWorkers : acw'[v].pc \in {"asecret", "aundo"} => acw'[v].acc.id # acrec.id
      BY <2>1, <3>1, <3>2 DEF OneAdder, Adding, Mine
    <3>4. QED BY <3>1, <3>3 DEF SecretHasOwner
  <2>2. CASE "stray" \in acblame'
    BY <2>2 DEF SecretHasOwner
  <2>3. CASE AcGoto(w, "aundo") /\ UNCHANGED <<acsec, acblame>>
    BY <1>4, <2>3 DEF AccSecret, AcGoto, SecretHasOwner, AcTypes, AcwRec
  <2>4. QED BY <1>4, <2>1, <2>2, <2>3 DEF AccSecret, AcBlame
<1>5. ASSUME NEW w \in AcWorkers, AccUndo(w)
      PROVE  SecretHasOwner'
  BY <1>5 DEF AccUndo, AcEnd, AcBlame, Mine, SecretHasOwner, AcTypes
<1>6. ASSUME NEW w \in AcWorkers, AccUpdate(w) \/ AccDel(w)
      PROVE  SecretHasOwner'
  BY <1>6, AcStarts, AcOthers DEF AccUpdate, AccDel, SecretHasOwner
<1>7. ASSUME NEW w \in AcWorkers, UpdSecret(w) \/ DelSecretAcc(w)
      PROVE  SecretHasOwner'
  BY <1>7 DEF UpdSecret, DelSecretAcc, AcGoto, AcEnd, AcBlame, SecretHasOwner, AcTypes, AcwRec
<1>8. ASSUME NEW w \in AcWorkers, UpdSave(w)
      PROVE  SecretHasOwner'
  <2>1. Mine(w).id \in AcIds
    BY <1>8 DEF UpdSave, AcTypes, AcGood, AccLabels, Mine
  <2>2. acrec'.id = acrec.id /\ (acrec # NoAccount => acrec' # NoAccount)
    BY <1>8, <2>1 DEF UpdSave
  <2>3. QED BY <1>8, <2>2 DEF UpdSave, AcEnd, AcBlame, SecretHasOwner, AcTypes
<1>9. ASSUME NEW w \in AcWorkers, DelRecordAcc(w)
      PROVE  SecretHasOwner'
  BY <1>9 DEF DelRecordAcc, AcEnd, AcBlame, SecretHasOwner, AcTypes
<1>10. ASSUME NEW w \in AcWorkers,
              \/ \E x \in AcThings, op \in {"push", "pull"} : FnGet(w, x, op)
              \/ ListChange(w) \/ DepGet(w) \/ DepPut(w)
       PROVE  SecretHasOwner'
  <2>1. acw'[w].pc \notin {"asecret", "aundo"}
    <3>1. CASE \E x \in AcThings, op \in {"push", "pull"} : FnGet(w, x, op)
      BY <3>1 DEF FnGet, AcTypes, AcIdle
    <3>2. CASE ListChange(w) \/ DepGet(w) \/ DepPut(w)
      BY <3>2 DEF ListChange, DepGet, DepPut, AcEnd, AcTypes, AcwRec
    <3>3. QED BY <1>10, <3>1, <3>2
  <2>2. UNCHANGED <<acrec, acsec>> /\ ("stray" \in acblame => "stray" \in acblame')
    BY <1>10 DEF FnGet, ListChange, DepGet, DepPut, AcBlame
  <2>3. QED BY <1>10, <2>1, <2>2, AcOthers DEF SecretHasOwner
<1>11. CASE AcRestart
  BY <1>11 DEF AcRestart, AcBlame, SecretHasOwner
<1>12. QED BY <1>1, <1>2, <1>3, <1>4, <1>5, <1>6, <1>7, <1>8, <1>9, <1>10, <1>11 DEF AcNext

\* Record and secret stay together or about to be brought together.
LEMMA SecretStep == ASSUME AcTypes, SecretDue, [AcNext]_acVars PROVE SecretDue'
<1> USE AcIdleTypes, AcAssumption
<1>1. CASE UNCHANGED acVars
  BY <1>1 DEF acVars, SecretDue, AtWork
\* a request that is not at work makes a step, and record and secret stay
<1>2. ASSUME NEW w \in AcWorkers, ~AtWork(w), \A v \in AcWorkers \ {w} : acw'[v] = acw[v],
             UNCHANGED <<acrec, acsec>>, "secret" \in acblame => "secret" \in acblame'
      PROVE  SecretDue'
  BY <1>2 DEF SecretDue, AtWork
<1>3. ASSUME NEW w \in AcWorkers, NEW i \in AcIds, AccAdd(w, i)
      PROVE  SecretDue'
  <2>1. ~AtWork(w) /\ UNCHANGED <<acrec, acsec, acblame>>
    BY <1>3 DEF AccAdd, AtWork
  <2>2. QED BY <1>2, <1>3, <2>1, AcOthers
<1>4. ASSUME NEW w \in AcWorkers, AccInsert(w)
      PROVE  SecretDue'
  <2>1. CASE acrec' = Mine(w) /\ AcGoto(w, "asecret")
    <3>1. acw'[w].pc = "asecret" /\ acw'[w].acc = Mine(w)
      BY <2>1 DEF AcGoto, AcTypes, AcwRec, Mine
    <3>2. QED BY <2>1, <3>1 DEF SecretDue, AtWork
  <2>2. CASE AcEnd(w) /\ UNCHANGED acrec
    <3>1. ~AtWork(w) /\ UNCHANGED <<acrec, acsec, acblame>>
      BY <1>4, <2>2 DEF AccInsert, AtWork
    <3>2. QED BY <1>2, <1>4, <3>1, AcOthers
  <2>3. QED BY <1>4, <2>1, <2>2 DEF AccInsert
<1>5. ASSUME NEW w \in AcWorkers, AccSecret(w)
      PROVE  SecretDue'
  <2>1. CASE acsec' = Mine(w).ver /\ acrec = Mine(w)
    BY <1>5, <2>1 DEF AccSecret, SecretDue
  <2>2. CASE "secret" \in acblame'
    BY <2>2 DEF SecretDue
  <2>3. CASE AcGoto(w, "aundo") /\ UNCHANGED <<acsec, acblame>>
    <3>1. acw'[w].pc = "aundo" /\ acw'[w].acc = acw[w].acc /\ UNCHANGED acrec
      BY <1>5, <2>3 DEF AccSecret, AcGoto, AcTypes, AcwRec
    <3>2. \A v \in AcWorkers : AtWork(v) => AtWork(v)'
      BY <1>5, <3>1, AcOthers DEF AtWork
    <3>3. QED BY <2>3, <3>1, <3>2 DEF SecretDue
  <2>4. QED BY <1>5, <2>1, <2>2, <2>3 DEF AccSecret, AcBlame
<1>6. ASSUME NEW w \in AcWorkers, AccUndo(w) \/ DelRecordAcc(w)
      PROVE  SecretDue'
  <2>1. CASE acrec' = NoAccount \/ "secret" \in acblame'
    BY <2>1 DEF SecretDue
  <2>2. CASE acrec.id # Mine(w).id /\ UNCHANGED <<acrec, acblame>>
    BY <1>2, <1>6, <2>2, AcOthers DEF AccUndo, DelRecordAcc, AtWork, Mine
  <2>3. QED BY <1>6, <2>1, <2>2 DEF AccUndo, DelRecordAcc, AcBlame
<1>7. ASSUME NEW w \in AcWorkers, AccUpdate(w) \/ AccDel(w)
      PROVE  SecretDue'
  BY <1>2, <1>7, AcOthers DEF AccUpdate, AccDel, AtWork
<1>8. ASSUME NEW w \in AcWorkers, UpdSecret(w) \/ DelSecretAcc(w)
      PROVE  SecretDue'
  <2>1. CASE "secret" \in acblame'
    BY <2>1 DEF SecretDue
  <2>2. CASE acrec.id = Mine(w).id /\ (AcGoto(w, "usave") \/ AcGoto(w, "dremove"))
    <3>1. acw'[w].pc \in {"usave", "dremove"} /\ acw'[w].acc = Mine(w) /\ UNCHANGED acrec
      BY <1>8, <2>2 DEF UpdSecret, DelSecretAcc, AcGoto, AcTypes, AcwRec, Mine
    <3>2. QED BY <2>2, <3>1 DEF SecretDue, AtWork
  <2>3. CASE AcEnd(w) /\ UNCHANGED <<acsec, acblame>>
    BY <1>2, <1>8, <2>3, AcOthers DEF UpdSecret, DelSecretAcc, AtWork
  <2>4. QED BY <1>8, <2>1, <2>2, <2>3 DEF UpdSecret, DelSecretAcc, AcBlame
<1>9. ASSUME NEW w \in AcWorkers, UpdSave(w)
      PROVE  SecretDue'
  <2>1. CASE "secret" \in acblame'
    BY <2>1 DEF SecretDue
  <2>2. CASE acrec' = Mine(w) /\ acsec = Mine(w).ver
    BY <1>9, <2>2 DEF UpdSave, SecretDue
  <2>3. CASE acrec.id # Mine(w).id /\ UNCHANGED <<acrec, acblame>>
    BY <1>2, <1>9, <2>3, AcOthers DEF UpdSave, AtWork, Mine
  <2>4. QED BY <1>9, <2>1, <2>2, <2>3 DEF UpdSave, AcBlame
<1>10. ASSUME NEW w \in AcWorkers,
              \/ \E x \in AcThings, op \in {"push", "pull"} : FnGet(w, x, op)
              \/ ListChange(w) \/ DepGet(w) \/ DepPut(w)
       PROVE  SecretDue'
  <2>1. ~AtWork(w) /\ UNCHANGED <<acrec, acsec>> /\ ("secret" \in acblame => "secret" \in acblame')
    BY <1>10 DEF FnGet, ListChange, DepGet, DepPut, AcBlame, AtWork
  <2>2. QED BY <1>2, <1>10, <2>1, AcOthers
<1>11. CASE AcRestart
  <2>1. CASE \E w \in AcWorkers : AtWork(w)
    <3>1. \E w \in AcWorkers : acw[w].pc \in AccLabels \ {"ainsert"}
      BY <2>1 DEF AtWork, AccLabels
    <3>2. "secret" \in acblame'
      BY <1>11, <3>1 DEF AcRestart, AcBlame
    <3>3. QED BY <3>2 DEF SecretDue
  <2>2. CASE ~\E w \in AcWorkers : AtWork(w)
    BY <1>11, <2>2 DEF AcRestart, AcBlame, SecretDue
  <2>3. QED BY <2>1, <2>2
<1>12. QED BY <1>1, <1>3, <1>4, <1>5, <1>6, <1>7, <1>8, <1>9, <1>10, <1>11 DEF AcNext

\* The environment stays what is attached or about to be written.
LEMMA EnvStep == ASSUME AcTypes, EnvDue, [AcNext]_acVars PROVE EnvDue'
<1> USE AcIdleTypes
<1>1. CASE UNCHANGED acVars
  BY <1>1 DEF acVars, EnvDue
<1>2. ASSUME NEW w \in AcWorkers,
             \/ \E i \in AcIds : AccAdd(w, i)
             \/ AccInsert(w) \/ AccSecret(w) \/ AccUndo(w) \/ AccUpdate(w) \/ UpdSecret(w) \/ UpdSave(w)
             \/ AccDel(w) \/ DelSecretAcc(w) \/ DelRecordAcc(w)
             \/ \E x \in AcThings, op \in {"push", "pull"} : FnGet(w, x, op)
      PROVE  EnvDue'
  <2>1. acw[w].pc \notin {"get", "put"} /\ UNCHANGED <<aclist, dep>> /\ ("env" \in acblame => "env" \in acblame')
    BY <1>2 DEF AccAdd, AccInsert, AccSecret, AccUndo, AccUpdate, UpdSecret, UpdSave, AccDel,
       DelSecretAcc, DelRecordAcc, FnGet, AcBlame
  <2>2. QED BY <1>2, <2>1, AcOthers DEF EnvDue
<1>3. ASSUME NEW w \in AcWorkers, ListChange(w)
      PROVE  EnvDue'
  <2>1. acw'[w].pc = "get" \/ (aclist' = aclist /\ acw[w].pc \notin {"get", "put"})
    BY <1>3, SMTT(30) DEF ListChange, AcTypes, AcwRec
  <2>2. QED BY <1>3, <2>1, AcOthers DEF ListChange, EnvDue
<1>4. ASSUME NEW w \in AcWorkers, DepGet(w)
      PROVE  EnvDue'
  BY <1>4 DEF DepGet, AcBlame, EnvDue, AcTypes, AcwRec
<1>5. ASSUME NEW w \in AcWorkers, DepPut(w)
      PROVE  EnvDue'
  BY <1>5 DEF DepPut, AcBlame, EnvDue
<1>6. CASE AcRestart
  BY <1>6 DEF AcRestart, AcBlame, EnvDue
<1>7. QED BY <1>1, <1>2, <1>3, <1>4, <1>5, <1>6 DEF AcNext

\* The inductive invariant of an account.
LEMMA AcInvHolds == AcSpec => []AcInv
<1>1. AcInit => AcInv
  <2> SUFFICES ASSUME AcInit PROVE AcInv
    OBVIOUS
  <2>1. AcTypes
    BY AcIdleTypes DEF AcInit, AcTypes
  <2>2. \A w \in AcWorkers : acw[w].pc = "idle"
    BY AcIdleTypes DEF AcInit
  <2>3. OneAdder /\ SecretHasOwner /\ SecretDue /\ EnvDue
    BY <2>2 DEF AcInit, OneAdder, Adding, SecretHasOwner, SecretDue, EnvDue
  <2>4. QED BY <2>1, <2>3 DEF AcInv
<1>2. AcInv /\ [AcNext]_acVars => AcInv'
  BY AcTypeStep, AdderStep, OwnerStep, SecretStep, EnvStep DEF AcInv
<1>3. QED BY <1>1, <1>2, PTL DEF AcSpec

\* The variables of an account and of a function's environment have their types
\* (accounts.go, function.go).
THEOREM AccountTypes == AcSpec => []AcTypeOK
<1>1. ASSUME AcInv PROVE AcTypeOK
  <2>1. acrec \in [id : AcIds \cup {NoAcc}, ver : 0 .. aclast] /\ acsec \in 0 .. aclast
    BY <1>1 DEF AcInv, AcTypes, AccRec
  <2>2. QED BY <1>1, <2>1 DEF AcInv, AcTypes, AcTypeOK, AcwRec
<1>2. QED BY <1>1, AcInvHolds, PTL

\* Once the requests are over an account has a secret with the values of its record,
\* a secret has an account, and the deployment runs with what is attached, but for
\* the reasons that are named (Add, Update and Del of accounts.go, k8sUpdate).
THEOREM AccountsAreSound == AcSpec => []AccountsSound
<1>1. ASSUME AcInv PROVE AccountsSound
  <2>1. SecretIsRecord
    BY <1>1 DEF AcInv, SecretDue, AtWork, SecretIsRecord, AccQuiet, AccLabels
  <2>2. NoStraySecret
    BY <1>1 DEF AcInv, SecretHasOwner, NoStraySecret
  <2>3. EnvIsList
    BY <1>1 DEF AcInv, EnvDue, EnvIsList, EnvQuiet
  <2>4. QED BY <2>1, <2>2, <2>3 DEF AccountsSound
<1>2. QED BY <1>1, AcInvHolds, PTL

-----------------------------------------------------------------------------
(* Middleware.                                                             *)

\* the type of records
MwRecs == [id : MwIds \cup {NoMw}, state : MwStates, client : MwIds \cup {NoMw}]

\* A record or a copy of one: a Client is known under the id it was made for, and
\* a ready one is known.
MwGood(r) ==
    /\ r \in MwRecs /\ (r.id = NoMw <=> r = NoRec)
    /\ r.client \in {NoMw, r.id} /\ (r.state = "rdy" => r.client = r.id)

\* MwTypeOK with the types of requests; an id in use has its kind.
MwTypes ==
    /\ MwGood(mwrec)
    /\ mwkind \in [MwIds -> MwKinds \cup {NoMw}] /\ mwparts \in [MwIds -> SUBSET Parts]
    /\ mwsec \in MwIds \cup {NoMw} /\ mwblame \subseteq MwIds
    /\ mwp \in [MwWorkers -> [pc : MwLabels, rec : MwRecs]]
    /\ \A w \in MwWorkers : MwGood(mwp[w].rec) /\ (mwp[w].pc = "idle" <=> mwp[w].rec = NoRec)
    /\ \A i \in MwIds : mwkind[i] = NoMw =>
          /\ mwrec.id # i /\ mwsec # i /\ i \notin mwblame
          /\ \A w \in MwWorkers : mwp[w].rec.id # i

\* what Init has made when it stopped after some part
MadeSoFar(k) == {{}} \cup CASE k = "maria"    -> {{"user"}, {"user", "db"}, {"user", "db", "quota"}}
                       [] k = "rabbit"   -> {{"user"}, {"user", "db"}}
                       [] k = "postgres" -> {{"db"}}
                       [] k = "mongo"    -> {{"db"}}
                       [] k = "plain"    -> {}

\* A request that does more than read the record of id i.
WorksOn(w, i) == mwp[w].rec.id = i /\ mwp[w].pc # "del"

\* Where the record, the secret and the server are in each step of a request.
Stage(w, i) ==
    LET pc == mwp[w].pc
        known == mwp[w].rec.client = i
    IN  /\ pc = "insert" <=> mwrec.id # i
        /\ pc = "insert" =>
              mwp[w].rec.state = "prp" /\ \A v \in MwWorkers \ {w} : mwp[v].rec.id # i
        /\ pc \in {"init", "unwind", "secret", "save", "outs", "outh", "outdb"} =>
              mwrec.state = "prp"
        /\ pc \in {"fini", "dsec", "drm"} => mwrec.state = "trm"
        /\ pc = "stalled" => mwrec.state \in {"prp", "trm"}
        /\ pc \in {"insert", "outdb", "stalled", "dsec", "drm"} => mwparts[i] = {}
        /\ pc \in {"secret", "save", "outs", "outh"} =>
              known /\ mwparts[i] = Range(InitParts(mwkind[i]))
        /\ pc = "init" => mwparts[i] \in MadeSoFar(mwkind[i])
        /\ pc = "unwind" => mwparts[i] \subseteq {"user", "db"}
        /\ pc \in {"init", "unwind", "fini"} => mwparts[i] = {} \/ known
        /\ pc \in {"save", "outs"} => mwsec = i
        /\ pc \in {"insert", "init", "unwind", "secret", "outh", "outdb", "drm"} => mwsec # i

\* Where they are when no request works on the id.
AtRest(i) ==
    /\ mwrec.id = i /\ mwrec.state = "rdy" =>
          mwsec = i /\ mwparts[i] = Range(InitParts(mwkind[i]))
    /\ mwrec.id = i /\ mwrec.state # "rdy" => mwrec.state = "stl" /\ mwparts[i] = {}
    /\ mwrec.id # i => mwsec # i /\ mwparts[i] = {}

\* Unless something failed at it, one request at a time works on an id.
Kept(i) ==
    /\ \A v, w \in MwWorkers : WorksOn(v, i) /\ WorksOn(w, i) => v = w
    /\ \A w \in MwWorkers : WorksOn(w, i) => Stage(w, i)
    /\ (\A w \in MwWorkers : ~WorksOn(w, i)) => AtRest(i)

\* The inductive invariant of middleware.
MwInv == MwTypes /\ \A i \in MwIds \ mwblame : Kept(i)

\* Init makes its parts in order.
LEMMA MadeInOrder ==
  ASSUME NEW k \in MwKinds, NEW P \in MadeSoFar(k)
  PROVE  /\ Cardinality(P) \in Nat /\ P \subseteq Parts
         /\ Cardinality(P) = 0 => P = {}
         /\ Cardinality(P) < Len(InitParts(k)) =>
               P \cup {InitParts(k)[Cardinality(P) + 1]} \in MadeSoFar(k)
         /\ Cardinality(P) < Len(InitParts(k)) /\ k = "maria" => P \subseteq {"user", "db"}
         /\ Cardinality(P) = Len(InitParts(k)) => P = Range(InitParts(k))
<1>1. /\ Cardinality({}) = 0 /\ Cardinality({"user"}) = 1 /\ Cardinality({"db"}) = 1
      /\ Cardinality({"user", "db"}) = 2 /\ Cardinality({"user", "db", "quota"}) = 3
  <2>1. Cardinality({}) = 0 /\ IsFiniteSet({})
    BY FS_EmptySet
  <2>2. /\ Cardinality({"user"}) = 1 /\ IsFiniteSet({"user"})
        /\ Cardinality({"db"}) = 1 /\ IsFiniteSet({"db"})
    BY FS_Singleton
  <2>3. Cardinality({"user"} \cup {"db"}) = 2 /\ IsFiniteSet({"user"} \cup {"db"})
    BY <2>2, FS_AddElement
  <2>4. Cardinality(({"user"} \cup {"db"}) \cup {"quota"}) = 3
    <3> DEFINE S == {"user"} \cup {"db"}
    <3>1. "quota" \notin S /\ IsFiniteSet(S) /\ Cardinality(S) = 2
      BY <2>3
    <3> HIDE DEF S
    <3>2. Cardinality(S \cup {"quota"}) = 3
      BY <3>1, FS_AddElement
    <3>3. QED BY <3>2 DEF S
  <2>5. /\ {"user"} \cup {"db"} = {"user", "db"}
        /\ ({"user"} \cup {"db"}) \cup {"quota"} = {"user", "db", "quota"}
    OBVIOUS
  <2>6. QED BY <2>1, <2>2, <2>3, <2>4, <2>5
<1>2. CASE k = "maria"
  <2>1. /\ InitParts(k) = <<"user", "db", "quota">> /\ Len(InitParts(k)) = 3
        /\ InitParts(k)[1] = "user" /\ InitParts(k)[2] = "db" /\ InitParts(k)[3] = "quota"
    BY <1>2 DEF InitParts, MariaParts
  <2>2. Range(InitParts(k)) = {"user", "db", "quota"}
    BY <2>1 DEF Range
  <2>3. MadeSoFar(k) = {{}, {"user"}, {"user", "db"}, {"user", "db", "quota"}}
    BY <1>2 DEF MadeSoFar
  <2>4. CASE P = {}
    BY <1>1, <1>2, <2>1, <2>2, <2>3, <2>4 DEF Parts
  <2>5. CASE P = {"user"}
    BY <1>1, <1>2, <2>1, <2>2, <2>3, <2>5 DEF Parts
  <2>6. CASE P = {"user", "db"}
    BY <1>1, <1>2, <2>1, <2>2, <2>3, <2>6 DEF Parts
  <2>7. CASE P = {"user", "db", "quota"}
    BY <1>1, <1>2, <2>1, <2>2, <2>3, <2>7 DEF Parts
  <2>8. QED BY <2>3, <2>4, <2>5, <2>6, <2>7
<1>3. CASE k = "rabbit"
  <2>1. /\ InitParts(k) = <<"user", "db">> /\ Len(InitParts(k)) = 2
        /\ InitParts(k)[1] = "user" /\ InitParts(k)[2] = "db"
    BY <1>3 DEF InitParts, RabbitParts
  <2>2. Range(InitParts(k)) = {"user", "db"}
    BY <2>1 DEF Range
  <2>3. MadeSoFar(k) = {{}, {"user"}, {"user", "db"}}
    BY <1>3 DEF MadeSoFar
  <2>4. CASE P = {}
    BY <1>1, <1>3, <2>1, <2>2, <2>3, <2>4 DEF Parts
  <2>5. CASE P = {"user"}
    BY <1>1, <1>3, <2>1, <2>2, <2>3, <2>5 DEF Parts
  <2>6. CASE P = {"user", "db"}
    BY <1>1, <1>3, <2>1, <2>2, <2>3, <2>6 DEF Parts
  <2>7. QED BY <2>3, <2>4, <2>5, <2>6
<1>4. CASE k = "postgres"
  <2>1. /\ InitParts(k) = <<"db">> /\ Len(InitParts(k)) = 1
        /\ InitParts(k)[1] = "db"
    BY <1>4 DEF InitParts, PostgresParts
  <2>2. Range(InitParts(k)) = {"db"}
    BY <2>1 DEF Range
  <2>3. MadeSoFar(k) = {{}, {"db"}}
    BY <1>4 DEF MadeSoFar
  <2>4. CASE P = {}
    BY <1>1, <1>4, <2>1, <2>2, <2>3, <2>4 DEF Parts
  <2>5. CASE P = {"db"}
    BY <1>1, <1>4, <2>1, <2>2, <2>3, <2>5 DEF Parts
  <2>6. QED BY <2>3, <2>4, <2>5
<1>5. CASE k = "mongo"
  <2>1. /\ InitParts(k) = <<"db">> /\ Len(InitParts(k)) = 1
        /\ InitParts(k)[1] = "db"
    BY <1>5 DEF InitParts, MongoParts
  <2>2. Range(InitParts(k)) = {"db"}
    BY <2>1 DEF Range
  <2>3. MadeSoFar(k) = {{}, {"db"}}
    BY <1>5 DEF MadeSoFar
  <2>4. CASE P = {}
    BY <1>1, <1>5, <2>1, <2>2, <2>3, <2>4 DEF Parts
  <2>5. CASE P = {"db"}
    BY <1>1, <1>5, <2>1, <2>2, <2>3, <2>5 DEF Parts
  <2>6. QED BY <2>3, <2>4, <2>5
<1>6. CASE k = "plain"
  <2>1. /\ InitParts(k) = <<>> /\ Len(InitParts(k)) = 0
    BY <1>6 DEF InitParts
  <2>2. Range(InitParts(k)) = {}
    BY <2>1 DEF Range
  <2>3. MadeSoFar(k) = {{}}
    BY <1>6 DEF MadeSoFar
  <2>4. CASE P = {}
    BY <1>1, <1>6, <2>1, <2>2, <2>3, <2>4 DEF Parts
  <2>5. QED BY <2>3, <2>4
<1>7. QED BY <1>2, <1>3, <1>4, <1>5, <1>6 DEF MwKinds

\* a request moves to a label with a copy of the record
MwTo(w, l, r) == mwp' = [mwp EXCEPT ![w] = [pc |-> l, rec |-> r]]

\* A move changes the request that moves.
LEMMA MwToMoves ==
  ASSUME MwTypes, NEW w \in MwWorkers, NEW l, NEW r, MwTo(w, l, r)
  PROVE  /\ mwp'[w].pc = l /\ mwp'[w].rec = r
         /\ \A v \in MwWorkers \ {w} : mwp'[v] = mwp[v]
  BY DEF MwTo, MwTypes

\* MwGoto keeps the copy, MwEnd drops it.
LEMMA MwForms ==
  ASSUME MwTypes, NEW w \in MwWorkers
  PROVE  /\ \A l : MwGoto(w, l) => MwTo(w, l, mwp[w].rec)
         /\ MwEnd(w) => MwTo(w, "idle", NoRec)
<1>1. mwp[w] \in [pc : MwLabels, rec : MwRecs]
  BY DEF MwTypes
<1>2. ASSUME NEW l, MwGoto(w, l) PROVE MwTo(w, l, mwp[w].rec)
  <2>1. [mwp[w] EXCEPT !.pc = l] = [pc |-> l, rec |-> mwp[w].rec]
    BY <1>1
  <2>2. mwp' = [mwp EXCEPT ![w] = [mwp[w] EXCEPT !.pc = l]]
    BY <1>2 DEF MwGoto
  <2>3. QED BY <2>1, <2>2 DEF MwTo
<1>3. QED BY <1>2 DEF MwEnd, MwTo, MwIdle

\* Nothing is good for nobody.
LEMMA NoRecGood == MwGood(NoRec) /\ NoRec.id = NoMw /\ NoRec.client = NoMw
  BY DEF MwGood, NoRec, MwRecs, MwStates

\* An id that a request has left alone is as it was.
LEMMA KeptElsewhere ==
  ASSUME MwTypes, NEW w \in MwWorkers, NEW l, NEW r, MwTo(w, l, r), NEW j \in MwIds, Kept(j),
         mwp[w].rec.id # j, r.id # j,
         mwrec' = mwrec \/ (mwrec.id # j /\ mwrec'.id # j),
         mwsec' = mwsec \/ (mwsec # j /\ mwsec' # j),
         mwparts'[j] = mwparts[j], mwkind'[j] = mwkind[j]
  PROVE  Kept(j)'
<1>1. /\ mwp'[w].rec.id # j
      /\ \A v \in MwWorkers \ {w} : mwp'[v] = mwp[v]
  BY MwToMoves
<1>2. \A v \in MwWorkers : WorksOn(v, j)' <=> WorksOn(v, j)
  BY <1>1 DEF WorksOn
<1>3. ASSUME NEW v \in MwWorkers, WorksOn(v, j)' PROVE Stage(v, j)'
  <2>1. v # w /\ mwp'[v] = mwp[v] /\ Stage(v, j)
    BY <1>1, <1>2, <1>3 DEF Kept, WorksOn
  <2>2. \A u \in MwWorkers \ {v} : mwp[u].rec.id # j => mwp'[u].rec.id # j
    BY <1>1
  <2>3. QED BY <2>1, <2>2 DEF Stage
<1>4. AtRest(j) => AtRest(j)'
  BY DEF AtRest
<1>5. QED BY <1>2, <1>3, <1>4 DEF Kept

\* The id that the only request at work works on.
LEMMA KeptHere ==
  ASSUME MwTypes, NEW w \in MwWorkers, NEW l, NEW r, MwTo(w, l, r), NEW i \in MwIds,
         \A v \in MwWorkers \ {w} : ~WorksOn(v, i),
         \/ r.id = i /\ l # "del" /\ Stage(w, i)'
         \/ r.id # i /\ AtRest(i)'
  PROVE  Kept(i)'
<1>1. /\ mwp'[w].pc = l /\ mwp'[w].rec = r
      /\ \A v \in MwWorkers \ {w} : mwp'[v] = mwp[v]
  BY MwToMoves
<1>2. \A v \in MwWorkers \ {w} : ~WorksOn(v, i)'
  BY <1>1 DEF WorksOn
<1>3. QED BY <1>1, <1>2 DEF Kept, WorksOn

\* A step that changes what is kept of id i and of no other, but for what it blames.
MwTouches(i) ==
    /\ MwGood(mwrec') /\ (mwrec' = mwrec \/ (mwrec.id \in {NoMw, i} /\ mwrec'.id \in {NoMw, i}))
    /\ UNCHANGED mwkind
    /\ mwparts' = mwparts \/ \E P \in SUBSET Parts : mwparts' = [mwparts EXCEPT ![i] = P]
    /\ mwsec' = mwsec \/ (mwsec \in {NoMw, i} \cup mwblame' /\ mwsec' \in {NoMw, i})
    /\ mwblame \subseteq mwblame' /\ mwblame' \subseteq mwblame \cup ({i, mwsec} \ {NoMw})

\* A step of a request keeps the invariant if it keeps the id it works on.
LEMMA MwStepKeeps ==
  ASSUME MwInv, NEW w \in MwWorkers, NEW l \in MwLabels, NEW r, MwTo(w, l, r),
         NEW i \in MwIds, i = Me(w),
         (r = NoRec /\ l = "idle") \/ (MwGood(r) /\ r.id = i /\ l # "idle"),
         MwTouches(i), i \notin mwblame' => Kept(i)'
  PROVE  MwInv'
<1> USE DEF MwTouches
<1>0. MwTypes /\ i # NoMw
  BY MwAssumption DEF MwInv
<1>1. /\ mwp'[w].pc = l /\ mwp'[w].rec = r
      /\ \A v \in MwWorkers \ {w} : mwp'[v] = mwp[v]
  BY <1>0, MwToMoves
<1>2. MwGood(r) /\ r \in MwRecs /\ (l = "idle" <=> r = NoRec) /\ r.id \in {NoMw, i}
  BY <1>0, NoRecGood DEF MwGood
<1>3. mwp' \in [MwWorkers -> [pc : MwLabels, rec : MwRecs]]
  BY <1>0, <1>2 DEF MwTypes, MwTo
<1>4. \A v \in MwWorkers : MwGood(mwp'[v].rec) /\ (mwp'[v].pc = "idle" <=> mwp'[v].rec = NoRec)
  BY <1>0, <1>1, <1>2 DEF MwTypes
<1>5. mwparts' \in [MwIds -> SUBSET Parts]
  BY <1>0 DEF MwTypes
<1>6. mwsec' \in MwIds \cup {NoMw} /\ mwblame' \subseteq MwIds
  BY <1>0 DEF MwTypes
<1>7. mwkind[i] # NoMw
  BY <1>0 DEF MwTypes, Me
<1>8. ASSUME NEW j \in MwIds, mwkind'[j] = NoMw
      PROVE  /\ mwrec'.id # j /\ mwsec' # j /\ j \notin mwblame'
             /\ \A v \in MwWorkers : mwp'[v].rec.id # j
  <2>1. /\ j # i /\ j # NoMw /\ mwrec.id # j /\ mwsec # j /\ j \notin mwblame
        /\ \A v \in MwWorkers : mwp[v].rec.id # j
    BY <1>0, <1>7, <1>8, MwAssumption DEF MwTypes
  <2>2. \A v \in MwWorkers : mwp'[v].rec.id # j
    BY <1>1, <1>2, <2>1
  <2>3. QED BY <2>1, <2>2
<1>9. MwTypes'
  BY <1>0, <1>3, <1>4, <1>5, <1>6, <1>8 DEF MwTypes, MwGood
<1>10. ASSUME NEW j \in MwIds \ mwblame', j # i PROVE Kept(j)'
  <2>1. Kept(j) /\ mwp[w].rec.id # j /\ r.id # j /\ j # NoMw
    BY <1>2, <1>10, MwAssumption DEF MwInv, Me
  <2>2. mwrec' = mwrec \/ (mwrec.id # j /\ mwrec'.id # j)
    BY <1>10, <2>1
  <2>3. mwsec' = mwsec \/ (mwsec # j /\ mwsec' # j)
    BY <1>10, <2>1
  <2>4. mwparts'[j] = mwparts[j] /\ mwkind'[j] = mwkind[j]
    BY <1>0, <1>10 DEF MwTypes
  <2>5. QED BY <1>0, <2>1, <2>2, <2>3, <2>4, KeptElsewhere
<1>11. QED BY <1>9, <1>10 DEF MwInv

\* getMwareDesc: a new id is known to the request alone.
LEMMA MwAddKeeps ==
  ASSUME MwInv, NEW w \in MwWorkers, NEW i \in MwIds, NEW k \in MwKinds, MwAdd(w, i, k)
  PROVE  MwInv'
<1> DEFINE r == [id |-> i, state |-> "prp", client |-> NoMw]
<1>0. MwTypes /\ i # NoMw /\ k # NoMw
  BY MwAssumption DEF MwInv
<1>1. MwTo(w, "insert", r) /\ UNCHANGED <<mwrec, mwparts, mwsec, mwblame, mwfaults>>
  BY DEF MwAdd, MwTo
<1>2. /\ mwp'[w].pc = "insert" /\ mwp'[w].rec = r
      /\ \A v \in MwWorkers \ {w} : mwp'[v] = mwp[v]
  BY <1>0, <1>1, MwToMoves
<1>3. MwGood(r) /\ r # NoRec /\ r \in MwRecs /\ "insert" \in MwLabels
  BY <1>0 DEF MwGood, MwRecs, MwStates, NoRec, MwLabels
<1>4. /\ mwkind[i] = NoMw /\ i \notin mwblame /\ mwrec.id # i /\ mwsec # i
      /\ \A v \in MwWorkers : mwp[v].rec.id # i
  BY <1>0 DEF MwAdd, MwTypes
<1>5. mwkind' \in [MwIds -> MwKinds \cup {NoMw}]
      /\ \A j \in MwIds : mwkind'[j] = IF j = i THEN k ELSE mwkind[j]
  BY <1>0 DEF MwAdd, MwTypes
<1>6. MwTypes'
  <2>1. mwp' \in [MwWorkers -> [pc : MwLabels, rec : MwRecs]]
    BY <1>0, <1>1, <1>3 DEF MwTypes, MwTo
  <2>2. \A v \in MwWorkers : MwGood(mwp'[v].rec) /\ (mwp'[v].pc = "idle" <=> mwp'[v].rec = NoRec)
    BY <1>0, <1>2, <1>3 DEF MwTypes
  <2>3. ASSUME NEW j \in MwIds, mwkind'[j] = NoMw
        PROVE  /\ mwrec'.id # j /\ mwsec' # j /\ j \notin mwblame'
               /\ \A v \in MwWorkers : mwp'[v].rec.id # j
    BY <1>0, <1>1, <1>2, <1>5, <2>3 DEF MwTypes
  <2>4. QED BY <1>0, <1>1, <1>5, <2>1, <2>2, <2>3 DEF MwTypes, MwGood
<1>7. Kept(i)'
  <2>1. mwparts[i] = {} /\ \A v \in MwWorkers : ~WorksOn(v, i)
    BY <1>4 DEF MwInv, Kept, AtRest, WorksOn
  <2>2. Stage(w, i)'
    BY <1>1, <1>2, <1>4, <2>1 DEF Stage
  <2>3. QED BY <1>0, <1>1, <2>1, <2>2, KeptHere
<1>8. ASSUME NEW j \in MwIds \ mwblame', j # i PROVE Kept(j)'
  <2>1. mwp[w].rec.id # j /\ Kept(j)
    BY <1>0, <1>1, <1>8, NoRecGood, MwAssumption DEF MwAdd, MwTypes, MwInv
  <2>2. QED BY <1>0, <1>1, <1>5, <1>8, <2>1, KeptElsewhere
<1>9. QED BY <1>6, <1>7, <1>8 DEF MwInv

\* What holds of a request on id i with the copy c.
MwOn(w, i, c) == c = mwp[w].rec /\ i = c.id /\ mwp[w].pc # "idle"

\* What such a request knows.
MwKnows(w, i, c) ==
    /\ MwTypes /\ MwGood(mwrec) /\ i \in MwIds /\ i # NoMw /\ mwkind[i] \in MwKinds
    /\ mwparts[i] \in SUBSET Parts /\ i = Me(w)
    /\ MwGood(c) /\ c \in MwRecs /\ c # NoRec /\ c.id = i /\ c.client \in {NoMw, i}
    /\ mwp[w].rec = c /\ mwp[w] = [pc |-> mwp[w].pc, rec |-> c]
    /\ i \notin mwblame => Kept(i)
    /\ i \notin mwblame /\ mwp[w].pc # "del" =>
          WorksOn(w, i) /\ Stage(w, i) /\ \A v \in MwWorkers \ {w} : ~WorksOn(v, i)

\* A request is at label l with its copy, the others where they were.
MwMoved(w, l, c) ==
    mwp'[w].pc = l /\ mwp'[w].rec = c /\ \A v \in MwWorkers \ {w} : mwp'[v] = mwp[v]

\* A request at work has a copy of a record with an id in use.
LEMMA MwOnKnows ==
  ASSUME MwInv, NEW w \in MwWorkers, NEW i, NEW c, MwOn(w, i, c)
  PROVE  MwKnows(w, i, c)
<1>1. MwTypes /\ MwGood(c) /\ c # NoRec /\ MwGood(mwrec) /\ i = Me(w) /\ c \in MwRecs
  BY DEF MwOn, MwInv, MwTypes, Me, MwGood
<1>2. i \in MwIds /\ i # NoMw /\ c.client \in {NoMw, i}
  BY <1>1, MwAssumption DEF MwGood, MwOn, MwRecs
<1>3. mwkind[i] \in MwKinds /\ mwparts[i] \in SUBSET Parts
  BY <1>1, <1>2 DEF MwTypes, Me
<1>4. mwp[w] = [pc |-> mwp[w].pc, rec |-> c]
  BY <1>1 DEF MwTypes, MwOn
<1>5. i \notin mwblame => Kept(i)
  BY <1>2 DEF MwInv
<1>6. i \notin mwblame /\ mwp[w].pc # "del" =>
        WorksOn(w, i) /\ Stage(w, i) /\ \A v \in MwWorkers \ {w} : ~WorksOn(v, i)
  BY <1>5 DEF Kept, WorksOn, MwOn
<1>7. QED BY <1>1, <1>2, <1>3, <1>4, <1>5, <1>6 DEF MwKnows, MwOn

\* A request goes on to the next label: what is left is how its id stands there.
LEMMA MwGotoMoves ==
  ASSUME MwInv, NEW w \in MwWorkers, NEW i, NEW c, MwOn(w, i, c), NEW l, MwGoto(w, l)
  PROVE  MwMoved(w, l, c)
<1>1. MwTypes /\ MwTo(w, l, c)
  BY MwForms DEF MwInv, MwOn
<1>2. QED BY <1>1, MwToMoves DEF MwMoved

\* Going on keeps the invariant if the id stands as the label wants.
LEMMA MwGotoKeeps ==
  ASSUME MwInv, NEW w \in MwWorkers, NEW i, NEW c, MwOn(w, i, c), mwp[w].pc # "del",
         NEW l \in MwLabels \ {"idle", "del"}, MwGoto(w, l), MwTouches(i),
         i \notin mwblame' => Stage(w, i)'
  PROVE  MwInv'
<1>1. MwTypes /\ MwTo(w, l, c) /\ MwGood(c) /\ c.id = i /\ i \in MwIds /\ i = Me(w)
  BY MwForms, MwOnKnows DEF MwInv, MwOn, MwKnows
<1>2. i \notin mwblame' => \A v \in MwWorkers \ {w} : ~WorksOn(v, i)
  BY MwOnKnows DEF MwTouches, MwKnows
<1>3. i \notin mwblame' => Kept(i)'
  BY <1>1, <1>2, KeptHere
<1>4. QED BY <1>1, <1>3, MwStepKeeps

\* Ending keeps it if the id stands as it does at rest.
LEMMA MwEndKeeps ==
  ASSUME MwInv, NEW w \in MwWorkers, NEW i, NEW c, MwOn(w, i, c), mwp[w].pc # "del",
         MwEnd(w), MwTouches(i), i \notin mwblame' => AtRest(i)'
  PROVE  MwInv'
<1>0. MwTypes /\ i \in MwIds /\ i = Me(w) /\ i # NoMw
  BY MwOnKnows DEF MwKnows
<1>1. MwTo(w, "idle", NoRec) /\ NoRec.id # i /\ "idle" \in MwLabels
  BY <1>0, MwForms, NoRecGood DEF MwLabels
<1>2. i \notin mwblame' => \A v \in MwWorkers \ {w} : ~WorksOn(v, i)
  BY MwOnKnows DEF MwTouches, MwKnows
<1>3. i \notin mwblame' => Kept(i)'
  BY <1>0, <1>1, <1>2, KeptHere
<1>4. QED BY <1>0, <1>1, <1>3, MwStepKeeps

\* dbInsert of Add.
LEMMA MwInsertKeeps ==
  ASSUME MwInv, NEW w \in MwWorkers, NEW i, NEW c, MwOn(w, i, c), MwInsert(w)
  PROVE  MwInv'
<1> USE DEF MwKnows
<1>1. /\ MwKnows(w, i, c) /\ mwp[w].pc = "insert"
      /\ UNCHANGED <<mwkind, mwparts, mwsec, mwblame, mwfaults>>
  BY MwOnKnows DEF MwInsert
<1>2. CASE mwrec # NoRec /\ MwEnd(w) /\ UNCHANGED mwrec
  <2>1. MwTouches(i)
    BY <1>1, <1>2 DEF MwTouches
  <2>2. i \notin mwblame' => AtRest(i)'
    BY <1>1, <1>2 DEF Stage, AtRest
  <2>3. QED BY <1>1, <1>2, <2>1, <2>2, MwEndKeeps
<1>3. ASSUME mwrec = NoRec, mwrec' = c, NEW l \in {"init", "outdb"}, MwGoto(w, l)
      PROVE  MwInv'
  <2>1. MwTouches(i)
    BY <1>1, <1>3, NoRecGood DEF MwTouches
  <2>2. i \notin mwblame' => Stage(w, i)'
    <3>1. MwMoved(w, l, c)
      BY <1>3, MwGotoMoves
    <3>2. QED BY <1>1, <1>3, <3>1 DEF Stage, MadeSoFar, MwMoved
  <2>3. QED BY <1>1, <1>3, <2>1, <2>2, MwGotoKeeps DEF MwLabels
<1>4. QED BY <1>1, <1>2, <1>3 DEF MwInsert

\* What Init makes are parts, and there are finitely many.
LEMMA PartsTyped ==
  ASSUME NEW k \in MwKinds, NEW P \in SUBSET Parts
  PROVE  /\ Cardinality(P) \in Nat /\ (Cardinality(P) = 0 => P = {})
         /\ Len(InitParts(k)) \in Nat
         /\ \A n \in 1 .. Len(InitParts(k)) : InitParts(k)[n] \in Parts
<1>1. IsFiniteSet({"user"} \cup {"db"})
  BY FS_Singleton, FS_AddElement
<1>2. IsFiniteSet(Parts)
  <2>1. IsFiniteSet(({"user"} \cup {"db"}) \cup {"quota"})
    BY <1>1, FS_AddElement
  <2>2. Parts = ({"user"} \cup {"db"}) \cup {"quota"}
    BY DEF Parts
  <2>3. QED BY <2>1, <2>2
<1>3. Cardinality(P) \in Nat /\ (Cardinality(P) = 0 => P = {})
  BY <1>2, FS_Subset, FS_CardinalityType, FS_EmptySet
<1>4. InitParts(k) \in Seq(Parts)
  <2>1. <<"user", "db", "quota">> \in Seq(Parts) /\ <<"user", "db">> \in Seq(Parts)
        /\ <<"db">> \in Seq(Parts) /\ <<>> \in Seq(Parts)
    BY DEF Parts
  <2>2. InitParts(k) \in {<<"user", "db", "quota">>, <<"user", "db">>, <<"db">>, <<>>}
    BY DEF InitParts, MwKinds, MariaParts, RabbitParts, PostgresParts, MongoParts
  <2>3. QED BY <2>1, <2>2
<1>5. QED BY <1>3, <1>4

\* handler.Init makes a part, is through, or fails.
LEMMA InitPartKeeps ==
  ASSUME MwInv, NEW w \in MwWorkers, NEW i, NEW c, MwOn(w, i, c), InitPart(w)
  PROVE  MwInv'
<1> USE DEF MwKnows
<1> DEFINE r == [c EXCEPT !.client = i]
<1> DEFINE P == mwparts[i]
<1> DEFINE k == mwkind[i]
<1> DEFINE all == Len(InitParts(k))
<1>1. MwKnows(w, i, c) /\ mwp[w].pc = "init" /\ UNCHANGED <<mwrec, mwkind, mwsec>>
  BY MwOnKnows DEF InitPart
<1>2. MwGood(r) /\ r.id = i /\ r.client = i /\ r # NoRec
  BY <1>1 DEF MwGood, MwRecs, NoRec
<1>3. /\ Cardinality(P) \in Nat /\ all \in Nat /\ (Cardinality(P) = 0 => P = {})
      /\ i \notin mwblame => P \in MadeSoFar(k)
  BY <1>1, PartsTyped DEF Stage
<1>4. ASSUME NEW l \in {"init", "secret"}, MwTo(w, l, r), MwTouches(i), UNCHANGED mwblame,
             i \notin mwblame => Stage(w, i)'
      PROVE  MwInv'
  <2> HIDE DEF r
  <2>1. i \notin mwblame' => Kept(i)'
    BY <1>1, <1>2, <1>4, KeptHere
  <2>2. QED BY <1>1, <1>2, <1>4, <2>1, MwStepKeeps DEF MwLabels
<1>5. CASE /\ Cardinality(P) < all
           /\ mwparts' = [mwparts EXCEPT ![i] = @ \cup {InitParts(k)[Cardinality(P) + 1]}]
           /\ mwp' = [mwp EXCEPT ![w].rec.client = i] /\ UNCHANGED mwblame
  <2> DEFINE Q == P \cup {InitParts(k)[Cardinality(P) + 1]}
  <2>1. MwTo(w, "init", r)
    <3>1. [mwp[w] EXCEPT !.rec = r] = [pc |-> "init", rec |-> r]
      BY <1>1
    <3>2. mwp' = [mwp EXCEPT ![w] = [mwp[w] EXCEPT !.rec = r]]
      BY <1>1, <1>5
    <3>3. QED BY <3>1, <3>2 DEF MwTo
  <2>2. Q \in SUBSET Parts
    BY <1>1, <1>3, <1>5, PartsTyped
  <2>3. mwparts' = [mwparts EXCEPT ![i] = Q] /\ mwparts'[i] = Q
    BY <1>1, <1>5 DEF MwTypes
  <2>4. MwTouches(i)
    <3> HIDE DEF Q
    <3>1. QED BY <1>1, <1>5, <2>2, <2>3 DEF MwTouches
  <2>5. ASSUME i \notin mwblame PROVE Stage(w, i)'
    <3>1. Q \in MadeSoFar(k)
      BY <1>1, <1>3, <1>5, <2>5, MadeInOrder
    <3>2. MwMoved(w, "init", r)
      BY <1>1, <2>1, MwToMoves DEF MwMoved
    <3> HIDE DEF Q, r
    <3>3. QED BY <1>1, <1>2, <2>3, <2>5, <3>1, <3>2 DEF Stage, MwMoved
  <2>6. QED BY <1>4, <1>5, <2>1, <2>4, <2>5
<1>6. CASE /\ Cardinality(P) = all
           /\ mwp' = [mwp EXCEPT ![w].rec.client = i, ![w].pc = "secret"]
           /\ UNCHANGED <<mwparts, mwblame>>
  <2>1. MwTo(w, "secret", r)
    <3>1. [mwp[w] EXCEPT !.rec = r] = [pc |-> "init", rec |-> r]
      BY <1>1
    <3>2. mwp' = [mwp EXCEPT ![w] = [[mwp[w] EXCEPT !.rec = r] EXCEPT !.pc = "secret"]]
      BY <1>1, <1>6
    <3> HIDE DEF r
    <3>3. [[pc |-> "init", rec |-> r] EXCEPT !.pc = "secret"] = [pc |-> "secret", rec |-> r]
      OBVIOUS
    <3>4. QED BY <3>1, <3>2, <3>3 DEF MwTo
  <2>2. MwTouches(i)
    BY <1>1, <1>6 DEF MwTouches
  <2>3. ASSUME i \notin mwblame PROVE Stage(w, i)'
    <3>1. P = Range(InitParts(k))
      <4>1. k \in MwKinds /\ P \in MadeSoFar(k) /\ Cardinality(P) = Len(InitParts(k))
        BY <1>1, <1>3, <1>6, <2>3
      <4> HIDE DEF k, P
      <4>2. QED BY <4>1, MadeInOrder
    <3>2. MwMoved(w, "secret", r)
      BY <1>1, <2>1, MwToMoves DEF MwMoved
    <3> HIDE DEF r
    <3>3. QED BY <1>1, <1>2, <1>6, <2>3, <3>1, <3>2 DEF Stage, MwMoved
  <2>4. QED BY <1>4, <1>6, <2>1, <2>2, <2>3
<1>7. CASE /\ k = "maria" /\ Cardinality(P) < all /\ MwGoto(w, "unwind")
           /\ UNCHANGED <<mwparts, mwblame>>
  <2>1. MwTouches(i)
    BY <1>1, <1>7 DEF MwTouches
  <2>2. ASSUME i \notin mwblame' PROVE Stage(w, i)'
    <3>1. P \subseteq {"user", "db"}
      BY <1>1, <1>3, <1>7, <2>2, MadeInOrder
    <3>2. MwMoved(w, "unwind", c)
      BY <1>7, MwGotoMoves
    <3>3. QED BY <1>1, <1>7, <2>2, <3>1, <3>2 DEF Stage, MwMoved
  <2>3. QED BY <1>1, <1>7, <2>1, <2>2, MwGotoKeeps DEF MwLabels
<1>8. CASE MwGoto(w, "outdb") /\ Blame(IF Cardinality(P) = 0 THEN {} ELSE {i}) /\ UNCHANGED mwparts
  <2>1. MwTouches(i) /\ (i \notin mwblame' => i \notin mwblame /\ P = {})
    BY <1>1, <1>3, <1>8 DEF MwTouches, Blame
  <2>2. ASSUME i \notin mwblame' PROVE Stage(w, i)'
    <3>1. MwMoved(w, "outdb", c)
      BY <1>8, MwGotoMoves
    <3>2. QED BY <1>1, <1>8, <2>1, <2>2, <3>1 DEF Stage, MwMoved
  <2>3. QED BY <1>1, <1>8, <2>1, <2>2, MwGotoKeeps DEF MwLabels
<1>9. \/ <1>5!1 \/ <1>6!1
      \/ (Cardinality(P) < all \/ k = "rabbit") /\ UNCHANGED mwparts /\
            IF k = "maria" /\ Cardinality(P) > 0
            THEN MwGoto(w, "unwind") /\ UNCHANGED mwblame
            ELSE MwGoto(w, "outdb") /\ Blame(IF Cardinality(P) = 0 THEN {} ELSE {i})
  BY <1>1 DEF InitPart
<1>10. QED BY <1>5, <1>6, <1>7, <1>8, <1>9

\* InitMariaDB drops what it made.
LEMMA MariaUnwindKeeps ==
  ASSUME MwInv, NEW w \in MwWorkers, NEW i, NEW c, MwOn(w, i, c), MariaUnwind(w)
  PROVE  MwInv'
<1> USE DEF MwKnows
<1>1. MwKnows(w, i, c) /\ mwp[w].pc = "unwind" /\ UNCHANGED <<mwrec, mwkind, mwsec>>
  BY MwOnKnows DEF MariaUnwind
<1>2. CASE MwGoto(w, "outdb") /\ UNCHANGED mwblame
           /\ mwparts' = [mwparts EXCEPT ![i] = @ \ {"user", "db"}]
  <2>1. MwTouches(i)
    BY <1>1, <1>2, NoRecGood DEF MwTouches, MwTypes
  <2>2. ASSUME i \notin mwblame' PROVE Stage(w, i)'
    <3>1. MwMoved(w, "outdb", c)
      BY <1>2, MwGotoMoves
    <3>2. QED BY <1>1, <1>2, <2>2, <3>1 DEF Stage, MwMoved, MwTypes
  <2>3. QED BY <1>1, <1>2, <2>1, <2>2, MwGotoKeeps DEF MwLabels
<1>3. CASE /\ MwGoto(w, "outdb") /\ Blame({i})
           /\ \E left \in SUBSET mwparts[i] : mwparts' = [mwparts EXCEPT ![i] = left]
  <2>1. MwTouches(i)
    BY <1>1, <1>3, NoRecGood DEF MwTouches, Blame
  <2>2. ASSUME i \notin mwblame' PROVE Stage(w, i)'
    <3>1. MwMoved(w, "outdb", c)
      BY <1>3, MwGotoMoves
    <3>2. QED BY <1>1, <1>3, <2>2, <3>1 DEF Stage, MwMoved, Blame
  <2>3. QED BY <1>1, <1>3, <2>1, <2>2, MwGotoKeeps DEF MwLabels
<1>4. QED BY <1>1, <1>2, <1>3 DEF MariaUnwind

\* k8sSecretAdd.
LEMMA SecretAddKeeps ==
  ASSUME MwInv, NEW w \in MwWorkers, NEW i, NEW c, MwOn(w, i, c), SecretAdd(w)
  PROVE  MwInv'
<1> USE DEF MwKnows
<1>1. MwKnows(w, i, c) /\ mwp[w].pc = "secret" /\ UNCHANGED <<mwrec, mwkind, mwparts, mwblame>>
  BY MwOnKnows DEF SecretAdd
<1>2. CASE mwsec = NoMw /\ mwsec' = i /\ MwGoto(w, "save")
  <2>1. MwTouches(i)
    BY <1>1, <1>2, NoRecGood DEF MwTouches
  <2>2. ASSUME i \notin mwblame' PROVE Stage(w, i)'
    <3>1. MwMoved(w, "save", c)
      BY <1>2, MwGotoMoves
    <3>2. QED BY <1>1, <1>2, <2>2, <3>1 DEF Stage, MwMoved
  <2>3. QED BY <1>1, <1>2, <2>1, <2>2, MwGotoKeeps DEF MwLabels
<1>3. CASE MwGoto(w, "outh") /\ UNCHANGED mwsec
  <2>1. MwTouches(i)
    BY <1>1, <1>3, NoRecGood DEF MwTouches
  <2>2. ASSUME i \notin mwblame' PROVE Stage(w, i)'
    <3>1. MwMoved(w, "outh", c)
      BY <1>3, MwGotoMoves
    <3>2. QED BY <1>1, <1>3, <2>2, <3>1 DEF Stage, MwMoved
  <2>3. QED BY <1>1, <1>3, <2>1, <2>2, MwGotoKeeps DEF MwLabels
<1>4. QED BY <1>1, <1>2, <1>3 DEF SecretAdd

\* The record becomes ready.
LEMMA MwSaveKeeps ==
  ASSUME MwInv, NEW w \in MwWorkers, NEW i, NEW c, MwOn(w, i, c), MwSave(w)
  PROVE  MwInv'
<1> USE DEF MwKnows
<1>1. MwKnows(w, i, c) /\ mwp[w].pc = "save" /\ UNCHANGED <<mwkind, mwparts, mwsec, mwblame>>
  BY MwOnKnows DEF MwSave
<1>2. CASE /\ mwrec.id = i /\ MwEnd(w)
           /\ mwrec' = [mwrec EXCEPT !.state = "rdy", !.client = i]
  <2>1. MwTouches(i)
    BY <1>1, <1>2, NoRecGood DEF MwTouches, MwGood, MwRecs, MwStates, NoRec
  <2>2. i \notin mwblame' => AtRest(i)'
    BY <1>1, <1>2 DEF Stage, AtRest, MwGood, MwRecs, MwStates, NoRec
  <2>3. QED BY <1>1, <1>2, <2>1, <2>2, MwEndKeeps
<1>3. CASE MwGoto(w, "outs") /\ UNCHANGED mwrec
  <2>1. MwTouches(i)
    BY <1>1, <1>3, NoRecGood DEF MwTouches
  <2>2. ASSUME i \notin mwblame' PROVE Stage(w, i)'
    <3>1. MwMoved(w, "outs", c)
      BY <1>3, MwGotoMoves
    <3>2. QED BY <1>1, <1>3, <2>2, <3>1 DEF Stage, MwMoved
  <2>3. QED BY <1>1, <1>3, <2>1, <2>2, MwGotoKeeps DEF MwLabels
<1>4. QED BY <1>1, <1>2, <1>3 DEF MwSave

\* outs of Add.
LEMMA OutSecretKeeps ==
  ASSUME MwInv, NEW w \in MwWorkers, NEW i, NEW c, MwOn(w, i, c), OutSecret(w)
  PROVE  MwInv'
<1> USE DEF MwKnows
<1>1. MwKnows(w, i, c) /\ mwp[w].pc = "outs" /\ UNCHANGED <<mwrec, mwkind, mwparts>>
  BY MwOnKnows DEF OutSecret
<1>2. CASE /\ mwsec' = NoMw /\ MwGoto(w, "outh")
           /\ Blame(IF mwsec = i THEN {} ELSE {mwsec} \ {NoMw})
  <2>1. MwTouches(i)
    BY <1>1, <1>2, NoRecGood DEF MwTouches, Blame
  <2>2. ASSUME i \notin mwblame' PROVE Stage(w, i)'
    <3>1. MwMoved(w, "outh", c)
      BY <1>2, MwGotoMoves
    <3>2. QED BY <1>1, <1>2, <2>2, <3>1 DEF Stage, MwMoved, Blame
  <2>3. QED BY <1>1, <1>2, <2>1, <2>2, MwGotoKeeps DEF MwLabels
<1>3. CASE MwGoto(w, "stalled") /\ Blame({i}) /\ UNCHANGED mwsec
  <2>1. MwTouches(i)
    BY <1>1, <1>3, NoRecGood DEF MwTouches, Blame
  <2>2. ASSUME i \notin mwblame' PROVE Stage(w, i)'
    <3>1. MwMoved(w, "stalled", c)
      BY <1>3, MwGotoMoves
    <3>2. QED BY <1>1, <1>3, <2>2, <3>1 DEF Stage, MwMoved, Blame
  <2>3. QED BY <1>1, <1>3, <2>1, <2>2, MwGotoKeeps DEF MwLabels
<1>4. QED BY <1>1, <1>2, <1>3 DEF OutSecret

\* outdb of Add.
LEMMA OutDbKeeps ==
  ASSUME MwInv, NEW w \in MwWorkers, NEW i, NEW c, MwOn(w, i, c), OutDb(w)
  PROVE  MwInv'
<1> USE DEF MwKnows
<1>1. MwKnows(w, i, c) /\ mwp[w].pc = "outdb" /\ UNCHANGED <<mwkind, mwparts, mwsec, mwblame>>
  BY MwOnKnows DEF OutDb
<1>2. CASE mwrec.id = i /\ mwrec' = NoRec /\ MwEnd(w)
  <2>1. MwTouches(i)
    BY <1>1, <1>2, NoRecGood DEF MwTouches
  <2>2. i \notin mwblame' => AtRest(i)'
    BY <1>1, <1>2, NoRecGood DEF Stage, AtRest
  <2>3. QED BY <1>1, <1>2, <2>1, <2>2, MwEndKeeps
<1>3. CASE MwGoto(w, "stalled") /\ UNCHANGED mwrec
  <2>1. MwTouches(i)
    BY <1>1, <1>3, NoRecGood DEF MwTouches
  <2>2. ASSUME i \notin mwblame' PROVE Stage(w, i)'
    <3>1. MwMoved(w, "stalled", c)
      BY <1>3, MwGotoMoves
    <3>2. QED BY <1>1, <1>3, <2>2, <3>1 DEF Stage, MwMoved
  <2>3. QED BY <1>1, <1>3, <2>1, <2>2, MwGotoKeeps DEF MwLabels
<1>4. QED BY <1>1, <1>2, <1>3 DEF OutDb

\* dbRemove of Del.
LEMMA DelRecordKeeps ==
  ASSUME MwInv, NEW w \in MwWorkers, NEW i, NEW c, MwOn(w, i, c), DelRecord(w)
  PROVE  MwInv'
<1> USE DEF MwKnows
<1>1. MwKnows(w, i, c) /\ mwp[w].pc = "drm" /\ UNCHANGED <<mwkind, mwparts, mwsec, mwblame>>
  BY MwOnKnows DEF DelRecord
<1>2. CASE mwrec.id = i /\ mwrec' = NoRec /\ MwEnd(w)
  <2>1. MwTouches(i)
    BY <1>1, <1>2, NoRecGood DEF MwTouches
  <2>2. i \notin mwblame' => AtRest(i)'
    BY <1>1, <1>2, NoRecGood DEF Stage, AtRest
  <2>3. QED BY <1>1, <1>2, <2>1, <2>2, MwEndKeeps
<1>3. CASE MwGoto(w, "stalled") /\ UNCHANGED mwrec
  <2>1. MwTouches(i)
    BY <1>1, <1>3, NoRecGood DEF MwTouches
  <2>2. ASSUME i \notin mwblame' PROVE Stage(w, i)'
    <3>1. MwMoved(w, "stalled", c)
      BY <1>3, MwGotoMoves
    <3>2. QED BY <1>1, <1>3, <2>2, <3>1 DEF Stage, MwMoved
  <2>3. QED BY <1>1, <1>3, <2>1, <2>2, MwGotoKeeps DEF MwLabels
<1>4. QED BY <1>1, <1>2, <1>3 DEF DelRecord

\* The record stalls, whoever left it.
LEMMA MwStallKeeps ==
  ASSUME MwInv, NEW w \in MwWorkers, NEW i, NEW c, MwOn(w, i, c), MwStall(w)
  PROVE  MwInv'
<1> USE DEF MwKnows
<1>1. /\ MwKnows(w, i, c) /\ mwp[w].pc = "stalled"
      /\ UNCHANGED <<mwkind, mwparts, mwsec, mwblame, mwfaults>>
  BY MwOnKnows DEF MwStall
<1>2. CASE /\ MwEnd(w)
           /\ mwrec' = IF mwrec.id = i THEN [mwrec EXCEPT !.state = "stl"] ELSE mwrec
  <2>1. MwTouches(i)
    BY <1>1, <1>2, NoRecGood DEF MwTouches, MwGood, MwRecs, MwStates, NoRec
  <2>2. i \notin mwblame' => AtRest(i)'
    BY <1>1, <1>2 DEF Stage, AtRest, MwGood, MwRecs, MwStates, NoRec
  <2>3. QED BY <1>1, <1>2, <2>1, <2>2, MwEndKeeps
<1>3. QED BY <1>1, <1>2 DEF MwStall

\* k8sSecretRemove of Del.
LEMMA DelSecretKeeps ==
  ASSUME MwInv, NEW w \in MwWorkers, NEW i, NEW c, MwOn(w, i, c), DelSecret(w)
  PROVE  MwInv'
<1> USE DEF MwKnows
<1>1. MwKnows(w, i, c) /\ mwp[w].pc = "dsec" /\ UNCHANGED <<mwrec, mwkind, mwparts>>
  BY MwOnKnows DEF DelSecret
<1>2. CASE /\ mwsec' = NoMw /\ MwGoto(w, "drm")
           /\ Blame(IF mwsec \in {i, NoMw} THEN {} ELSE {mwsec})
  <2>1. MwTouches(i)
    BY <1>1, <1>2, NoRecGood DEF MwTouches, Blame, MwTypes
  <2>2. ASSUME i \notin mwblame' PROVE Stage(w, i)'
    <3>1. MwMoved(w, "drm", c)
      BY <1>2, MwGotoMoves
    <3>2. QED BY <1>1, <1>2, <2>2, <3>1 DEF Stage, MwMoved, Blame, MwTypes
  <2>3. QED BY <1>1, <1>2, <2>1, <2>2, MwGotoKeeps DEF MwLabels
<1>3. CASE MwGoto(w, "stalled") /\ UNCHANGED <<mwsec, mwblame>>
  <2>1. MwTouches(i)
    BY <1>1, <1>3, NoRecGood DEF MwTouches
  <2>2. ASSUME i \notin mwblame' PROVE Stage(w, i)'
    <3>1. MwMoved(w, "stalled", c)
      BY <1>3, MwGotoMoves
    <3>2. QED BY <1>1, <1>3, <2>2, <3>1 DEF Stage, MwMoved
  <2>3. QED BY <1>1, <1>3, <2>1, <2>2, MwGotoKeeps DEF MwLabels
<1>4. QED BY <1>1, <1>2, <1>3 DEF DelSecret

\* outh of Add.
LEMMA OutFiniKeeps ==
  ASSUME MwInv, NEW w \in MwWorkers, NEW i, NEW c, MwOn(w, i, c), OutFini(w)
  PROVE  MwInv'
<1> USE DEF MwKnows
<1>1. MwKnows(w, i, c) /\ mwp[w].pc = "outh" /\ UNCHANGED <<mwrec, mwkind, mwsec>>
  BY MwOnKnows DEF OutFini, Fini
<1>2. CASE /\ IF c.client = NoMw THEN UNCHANGED mwparts
              ELSE mwparts' = [mwparts EXCEPT ![c.client] = {}]
           /\ MwGoto(w, "outdb") /\ UNCHANGED mwblame
  <2>1. MwTouches(i)
    BY <1>1, <1>2, NoRecGood DEF MwTouches, MwTypes
  <2>2. ASSUME i \notin mwblame' PROVE Stage(w, i)'
    <3>1. MwMoved(w, "outdb", c)
      BY <1>2, MwGotoMoves
    <3>2. QED BY <1>1, <1>2, <2>2, <3>1 DEF Stage, MwMoved, MwTypes
  <2>3. QED BY <1>1, <1>2, <2>1, <2>2, MwGotoKeeps DEF MwLabels
<1>3. CASE MwGoto(w, "stalled") /\ Blame({i}) /\ UNCHANGED mwparts
  <2>1. MwTouches(i)
    BY <1>1, <1>3, NoRecGood DEF MwTouches, Blame
  <2>2. ASSUME i \notin mwblame' PROVE Stage(w, i)'
    <3>1. MwMoved(w, "stalled", c)
      BY <1>3, MwGotoMoves
    <3>2. QED BY <1>1, <1>3, <2>2, <3>1 DEF Stage, MwMoved, Blame
  <2>3. QED BY <1>1, <1>3, <2>1, <2>2, MwGotoKeeps DEF MwLabels
<1>4. CASE /\ c.client # NoMw /\ MwGoto(w, "outdb") /\ Blame({c.client})
           /\ \E left \in SUBSET mwparts[c.client] : mwparts' = [mwparts EXCEPT ![c.client] = left]
  <2>1. MwTouches(i)
    BY <1>1, <1>4, NoRecGood DEF MwTouches, Blame
  <2>2. ASSUME i \notin mwblame' PROVE Stage(w, i)'
    <3>1. MwMoved(w, "outdb", c)
      BY <1>4, MwGotoMoves
    <3>2. QED BY <1>1, <1>4, <2>2, <3>1 DEF Stage, MwMoved, Blame
  <2>3. QED BY <1>1, <1>4, <2>1, <2>2, MwGotoKeeps DEF MwLabels
<1>5. QED BY <1>1, <1>2, <1>3, <1>4 DEF OutFini, Fini

\* handler.Fini of Del.
LEMMA DelFiniKeeps ==
  ASSUME MwInv, NEW w \in MwWorkers, NEW i, NEW c, MwOn(w, i, c), DelFini(w)
  PROVE  MwInv'
<1> USE DEF MwKnows
<1>1. MwKnows(w, i, c) /\ mwp[w].pc = "fini" /\ UNCHANGED <<mwrec, mwkind, mwsec>>
  BY MwOnKnows DEF DelFini, Fini
<1>2. CASE /\ IF c.client = NoMw THEN UNCHANGED mwparts
              ELSE mwparts' = [mwparts EXCEPT ![c.client] = {}]
           /\ MwGoto(w, "dsec") /\ UNCHANGED mwblame
  <2>1. MwTouches(i)
    BY <1>1, <1>2, NoRecGood DEF MwTouches, MwTypes
  <2>2. ASSUME i \notin mwblame' PROVE Stage(w, i)'
    <3>1. MwMoved(w, "dsec", c)
      BY <1>2, MwGotoMoves
    <3>2. QED BY <1>1, <1>2, <2>2, <3>1 DEF Stage, MwMoved, MwTypes
  <2>3. QED BY <1>1, <1>2, <2>1, <2>2, MwGotoKeeps DEF MwLabels
<1>3. CASE MwGoto(w, "stalled") /\ Blame({i}) /\ UNCHANGED mwparts
  <2>1. MwTouches(i)
    BY <1>1, <1>3, NoRecGood DEF MwTouches, Blame
  <2>2. ASSUME i \notin mwblame' PROVE Stage(w, i)'
    <3>1. MwMoved(w, "stalled", c)
      BY <1>3, MwGotoMoves
    <3>2. QED BY <1>1, <1>3, <2>2, <3>1 DEF Stage, MwMoved, Blame
  <2>3. QED BY <1>1, <1>3, <2>1, <2>2, MwGotoKeeps DEF MwLabels
<1>4. CASE /\ c.client # NoMw /\ MwGoto(w, "dsec") /\ Blame({c.client})
           /\ \E left \in SUBSET mwparts[c.client] : mwparts' = [mwparts EXCEPT ![c.client] = left]
  <2>1. MwTouches(i)
    BY <1>1, <1>4, NoRecGood DEF MwTouches, Blame
  <2>2. ASSUME i \notin mwblame' PROVE Stage(w, i)'
    <3>1. MwMoved(w, "dsec", c)
      BY <1>4, MwGotoMoves
    <3>2. QED BY <1>1, <1>4, <2>2, <3>1 DEF Stage, MwMoved, Blame
  <2>3. QED BY <1>1, <1>4, <2>1, <2>2, MwGotoKeeps DEF MwLabels
<1>5. QED BY <1>1, <1>2, <1>3, <1>4 DEF DelFini, Fini

\* A copy of the record is no work on its id yet.
LEMMA DelGetKeeps == ASSUME MwInv, NEW w \in MwWorkers, DelGet(w) PROVE MwInv'
<1>0. MwTypes /\ MwGood(mwrec) /\ mwrec.id # NoMw /\ mwp[w].pc = "idle" /\ mwp[w].rec = NoRec
  BY DEF MwInv, MwTypes, MwGood, DelGet
<1>1. PICK r : r = mwrec
  OBVIOUS
<1>2. /\ MwTo(w, "del", r) /\ MwGood(r) /\ r.id \in MwIds /\ r # NoRec /\ r \in MwRecs
      /\ UNCHANGED <<mwrec, mwkind, mwparts, mwsec, mwblame>> /\ mwkind[r.id] # NoMw
  BY <1>0, <1>1 DEF DelGet, MwTo, MwGood, MwRecs, MwTypes
<1>3. MwMoved(w, "del", r)
  BY <1>0, <1>2, MwToMoves DEF MwMoved
<1>4. mwp' \in [MwWorkers -> [pc : MwLabels, rec : MwRecs]]
  BY <1>0, <1>2 DEF MwTo, MwTypes, MwLabels
<1>5. \A v \in MwWorkers : MwGood(mwp'[v].rec) /\ (mwp'[v].pc = "idle" <=> mwp'[v].rec = NoRec)
  BY <1>0, <1>2, <1>3 DEF MwTypes, MwMoved
<1>6. ASSUME NEW j \in MwIds, mwkind'[j] = NoMw PROVE \A v \in MwWorkers : mwp'[v].rec.id # j
  BY <1>0, <1>2, <1>3, <1>6 DEF MwTypes, MwMoved
<1>7. MwTypes'
  BY <1>0, <1>2, <1>4, <1>5, <1>6 DEF MwTypes, MwGood
<1>8. ASSUME NEW j \in MwIds \ mwblame' PROVE Kept(j)'
  <2>1. Kept(j) /\ j # NoMw /\ ~WorksOn(w, j) /\ ~WorksOn(w, j)'
    BY <1>0, <1>2, <1>3, <1>8, NoRecGood, MwAssumption DEF MwInv, WorksOn, MwMoved
  <2>2. \A v \in MwWorkers : WorksOn(v, j)' <=> WorksOn(v, j)
    BY <1>3, <2>1 DEF WorksOn, MwMoved
  <2>3. ASSUME NEW v \in MwWorkers, WorksOn(v, j)' PROVE Stage(v, j)'
    <3>1. v # w /\ mwp'[v] = mwp[v] /\ Stage(v, j)
      BY <1>3, <2>1, <2>2, <2>3 DEF Kept, MwMoved
    <3>2. mwp[v].pc = "insert" => \A u \in MwWorkers \ {v} : mwp'[u].rec.id # j
      BY <1>1, <1>3, <3>1 DEF Stage, MwMoved
    <3>3. QED BY <1>2, <3>1, <3>2 DEF Stage
  <2>4. AtRest(j) => AtRest(j)'
    BY <1>2 DEF AtRest
  <2>5. QED BY <2>1, <2>2, <2>3, <2>4 DEF Kept
<1>9. QED BY <1>7, <1>8 DEF MwInv

\* Del begins to work on the id: alone, unless it blames the id.
LEMMA MwTermKeeps ==
  ASSUME MwInv, NEW w \in MwWorkers, NEW i, NEW c, MwOn(w, i, c), MwTerm(w)
  PROVE  MwInv'
<1> USE DEF MwKnows
<1>1. MwKnows(w, i, c) /\ mwp[w].pc = "del" /\ UNCHANGED <<mwkind, mwparts, mwsec>>
  BY MwOnKnows DEF MwTerm
<1>2. CASE /\ mwrec.id = i /\ mwrec.state = c.state /\ mwrec' = [mwrec EXCEPT !.state = "trm"]
           /\ MwGoto(w, "fini") /\ Blame(IF Others(w, i) THEN {i} ELSE {})
  <2>1. MwTouches(i) /\ mwrec'.id = i /\ mwrec'.state = "trm"
    BY <1>1, <1>2 DEF MwTouches, Blame, MwGood, MwRecs, MwStates, NoRec
  <2>2. MwTo(w, "fini", c) /\ MwMoved(w, "fini", c)
    BY <1>1, <1>2, MwForms, MwGotoMoves
  <2>3. ASSUME i \notin mwblame' PROVE Kept(i)'
    <3>1. i \notin mwblame /\ \A v \in MwWorkers \ {w} : mwp[v].rec.id # i
      BY <1>1, <1>2, <2>3 DEF Blame, Others
    <3>2. \A v \in MwWorkers : ~WorksOn(v, i)
      BY <1>1, <3>1 DEF WorksOn
    <3>3. AtRest(i)
      BY <1>1, <3>1, <3>2 DEF Kept
    <3>4. mwparts[i] = {} \/ c.client = i
      BY <1>1, <1>2, <3>3 DEF AtRest, MwGood
    <3>5. Stage(w, i)'
      BY <1>1, <1>2, <2>1, <2>2, <3>4 DEF Stage, MwMoved
    <3>6. QED BY <1>1, <2>2, <3>2, <3>5, KeptHere
  <2>4. QED BY <1>1, <2>1, <2>2, <2>3, MwStepKeeps DEF MwLabels
<1>3. CASE MwEnd(w) /\ UNCHANGED <<mwrec, mwblame>>
  <2>1. MwTouches(i)
    BY <1>1, <1>3 DEF MwTouches
  <2>2. MwTo(w, "idle", NoRec) /\ "idle" \in MwLabels /\ NoRec.id # i
    BY <1>1, <1>3, MwForms, NoRecGood DEF MwLabels
  <2>3. MwMoved(w, "idle", NoRec)
    BY <1>1, <2>2, MwToMoves DEF MwMoved
  <2>4. ASSUME i \notin mwblame PROVE Kept(i)'
    <3>1. Kept(i) /\ ~WorksOn(w, i) /\ ~WorksOn(w, i)'
      BY <1>1, <2>2, <2>3, <2>4 DEF WorksOn, MwMoved
    <3>2. \A v \in MwWorkers : WorksOn(v, i)' <=> WorksOn(v, i)
      BY <2>3, <3>1 DEF WorksOn, MwMoved
    <3>3. ASSUME NEW v \in MwWorkers, WorksOn(v, i)' PROVE Stage(v, i)'
      <4>1. v # w /\ mwp'[v] = mwp[v] /\ Stage(v, i)
        BY <2>3, <3>1, <3>2, <3>3 DEF Kept, MwMoved
      <4>2. QED BY <1>1, <1>3, <2>2, <2>3, <4>1 DEF Stage, MwMoved
    <3>4. AtRest(i) => AtRest(i)'
      BY <1>1, <1>3 DEF AtRest
    <3>5. QED BY <3>1, <3>2, <3>3, <3>4 DEF Kept
  <2>5. QED BY <1>1, <1>3, <2>1, <2>2, <2>4, MwStepKeeps
<1>4. QED BY <1>1, <1>2, <1>3 DEF MwTerm

\* A restart blames the ids that were worked on, and leaves the others at rest.
LEMMA MwRestartKeeps == ASSUME MwInv, MwRestart PROVE MwInv'
<1>0. MwTypes /\ UNCHANGED <<mwrec, mwkind, mwparts, mwsec>> /\ mwp' = [w \in MwWorkers |-> MwIdle]
      /\ mwblame' = mwblame \cup ({Me(w) : w \in MwWorkers} \ {NoMw})
  BY DEF MwInv, MwRestart, Blame
<1>1. \A w \in MwWorkers : mwp'[w].pc = "idle" /\ mwp'[w].rec = NoRec
  BY <1>0 DEF MwIdle
<1>2. \A w \in MwWorkers : Me(w) = NoMw \/ (Me(w) \in MwIds /\ mwkind[Me(w)] # NoMw)
  BY <1>0 DEF MwTypes, MwGood, MwRecs, Me
<1>3. mwblame' \subseteq MwIds /\ \A j \in MwIds : mwkind[j] = NoMw => j \notin mwblame'
  BY <1>0, <1>2 DEF MwTypes
<1>4. MwTypes'
  <2>1. mwp' \in [MwWorkers -> [pc : MwLabels, rec : MwRecs]]
    BY <1>0, NoRecGood DEF MwIdle, MwLabels, MwGood
  <2>2. QED BY <1>0, <1>1, <1>3, <2>1, NoRecGood, MwAssumption DEF MwTypes, MwGood
<1>5. ASSUME NEW j \in MwIds \ mwblame' PROVE Kept(j)'
  <2>1. Kept(j) /\ j # NoMw /\ \A w \in MwWorkers : ~WorksOn(w, j)
    BY <1>0, <1>5, MwAssumption DEF MwInv, WorksOn, Me
  <2>2. \A w \in MwWorkers : ~WorksOn(w, j)'
    BY <1>1, <2>1, NoRecGood DEF WorksOn
  <2>3. AtRest(j)'
    BY <1>0, <2>1 DEF Kept, AtRest
  <2>4. QED BY <2>2, <2>3 DEF Kept
<1>6. QED BY <1>4, <1>5 DEF MwInv

\* The inductive invariant holds.
LEMMA MwInvHolds == MwSpec => []MwInv
<1>1. MwInit => MwInv
  <2> SUFFICES ASSUME MwInit PROVE MwInv
    OBVIOUS
  <2>1. \A w \in MwWorkers : mwp[w].pc = "idle" /\ mwp[w].rec = NoRec
    BY DEF MwInit, MwIdle
  <2>2. mwp \in [MwWorkers -> [pc : MwLabels, rec : MwRecs]]
    BY NoRecGood DEF MwInit, MwIdle, MwLabels, MwGood
  <2>3. MwTypes
    BY <2>1, <2>2, NoRecGood, MwAssumption DEF MwInit, MwTypes
  <2>4. ASSUME NEW j \in MwIds PROVE Kept(j)
    BY <2>1, <2>4, NoRecGood, MwAssumption DEF MwInit, Kept, WorksOn, AtRest
  <2>5. QED BY <2>3, <2>4 DEF MwInv
<1>2. ASSUME MwInv, [MwNext]_mwVars PROVE MwInv'
  <2>1. CASE UNCHANGED mwVars
    BY <1>2, <2>1 DEF mwVars, MwInv, MwTypes, MwGood, Kept, WorksOn, Stage, AtRest
  <2>2. ASSUME NEW w \in MwWorkers, mwp[w].pc # "idle",
               \/ MwInsert(w) \/ InitPart(w) \/ MariaUnwind(w) \/ SecretAdd(w) \/ MwSave(w)
               \/ OutSecret(w) \/ OutFini(w) \/ OutDb(w) \/ MwStall(w)
               \/ MwTerm(w) \/ DelFini(w) \/ DelSecret(w) \/ DelRecord(w)
        PROVE  MwInv'
    <3>1. PICK i, c : MwOn(w, i, c)
      BY <2>2 DEF MwOn
    <3>2. QED
      BY <1>2, <2>2, <3>1, MwInsertKeeps, InitPartKeeps, MariaUnwindKeeps, SecretAddKeeps,
         MwSaveKeeps, OutSecretKeeps, OutFiniKeeps, OutDbKeeps, MwStallKeeps, MwTermKeeps,
         DelFiniKeeps, DelSecretKeeps, DelRecordKeeps
  <2>3. ASSUME NEW w \in MwWorkers,
               \/ MwInsert(w) \/ InitPart(w) \/ MariaUnwind(w) \/ SecretAdd(w) \/ MwSave(w)
               \/ OutSecret(w) \/ OutFini(w) \/ OutDb(w) \/ MwStall(w)
               \/ MwTerm(w) \/ DelFini(w) \/ DelSecret(w) \/ DelRecord(w)
        PROVE  mwp[w].pc # "idle"
    BY <2>3 DEF MwInsert, InitPart, MariaUnwind, SecretAdd, MwSave, OutSecret, OutFini, OutDb,
       MwStall, MwTerm, DelFini, DelSecret, DelRecord
  <2>4. QED BY <1>2, <2>1, <2>2, <2>3, MwAddKeeps, DelGetKeeps, MwRestartKeeps DEF MwNext
<1>3. QED BY <1>1, <1>2, PTL DEF MwSpec

\* The variables of middleware have their types (mware.go).
THEOREM MwareTypes == MwSpec => []MwTypeOK
<1>1. MwInv => MwTypeOK
  BY DEF MwInv, MwTypes, MwTypeOK, MwGood, MwRecs
<1>2. QED BY <1>1, MwInvHolds, PTL

\* Whatever step of Add or Del fails or is interrupted: nothing is left at a server
\* that no record knows of, what is ready is whole, and a secret has its record, but
\* for ids with a reason (mware.go Add and Del, and their handlers).
THEOREM MwareIsSound == MwSpec => []MwareSound
<1>1. ASSUME MwInv PROVE MwareSound
  <2>1. MwTypes
    BY <1>1 DEF MwInv
  <2>2. ASSUME NEW i \in MwIds \ mwblame PROVE Kept(i)
    BY <1>1 DEF MwInv
  <2>3. NoMwLeak
    <3>1. ASSUME NEW i \in MwIds \ mwblame, mwparts[i] # {} PROVE Held(i)
      <4>1. CASE \E w \in MwWorkers : WorksOn(w, i)
        <5>1. PICK w \in MwWorkers : WorksOn(w, i) /\ Stage(w, i)
          BY <2>2, <4>1 DEF Kept
        <5>2. mwp[w].rec.client = i
          BY <2>1, <3>1, <5>1, NoRecGood, MwAssumption DEF Stage, WorksOn, MwTypes, MwLabels
        <5>3. QED BY <5>2 DEF Held
      <4>2. CASE \A w \in MwWorkers : ~WorksOn(w, i)
        BY <2>1, <2>2, <3>1, <4>2 DEF Kept, AtRest, Held, MwTypes, MwGood
      <4>3. QED BY <4>1, <4>2
    <3>2. QED BY <3>1 DEF NoMwLeak
  <2>4. ReadyIsWhole
    <3>1. SUFFICES ASSUME mwrec.state = "rdy", mwrec.id \notin mwblame
                   PROVE  /\ mwparts[mwrec.id] = Range(InitParts(mwkind[mwrec.id]))
                          /\ mwsec = mwrec.id
      BY DEF ReadyIsWhole
    <3>2. mwrec.id \in MwIds
      BY <2>1, <3>1 DEF MwTypes, MwGood, MwRecs, NoRec
    <3>3. \A w \in MwWorkers : ~WorksOn(w, mwrec.id)
      BY <2>1, <2>2, <3>1, <3>2, NoRecGood, MwAssumption DEF Kept, Stage, WorksOn, MwTypes, MwLabels
    <3>4. QED BY <2>2, <3>1, <3>2, <3>3 DEF Kept, AtRest
  <2>5. SecretHasRecord
    BY <2>1, <2>2 DEF SecretHasRecord, Kept, AtRest, WorksOn, MwTypes
  <2>6. QED BY <2>3, <2>4, <2>5 DEF MwareSound
<1>2. QED BY <1>1, MwInvHolds, PTL


-----------------------------------------------------------------------------
(* Web sockets.                                                            *)

\* clients that have been given a number
Counted == {c \in WsConns : wspc[c] \in {"read", "del", "lock", "gone"}}
nCounted == Cardinality(Counted)

\* There are no more numbers in a list than clients that got one.
Numbered == \A l \in Lists : wsrover[l] <= nCounted

\* The list that is found is the newest, and nobody holds one that is not made.
NewestFound ==
    /\ wsmap \in {NoList, wslists}
    /\ \A c \in WsConns :
          /\ wslist[c] <= wslists
          /\ wspc[c] \in {"add", "read", "lock"} => wslist[c] # NoList
          /\ c \in Counted => wscid[c] # 0

\* What a list has under a number is the client with that number, and one of the
\* list that is found will delete itself from it.
ListedOnce ==
    \A l \in Lists, i \in Cids : wscons[l][i] # NoConn =>
        /\ l <= wslists /\ i <= wsrover[l]
        /\ wscons[l][i] \in Counted /\ wscid[wscons[l][i]] = i
        /\ l = wsmap => wspc[wscons[l][i]] # "gone" /\ wslist[wscons[l][i]] = l

\* The record is "trm" while Fini runs.
FiniFits == wsmw = "trm" <=> wsfini.pc # "idle"

\* A client that reads is in its list, and as long as it is open that list is the
\* one that is found, or the one that Fini is about to close.
ReaderListed ==
    \A c \in WsConns : wspc[c] = "read" /\ c \notin wslate \cup wsstray =>
        /\ wscons[wslist[c]][wscid[c]] = c
        /\ c \in wsopen =>
              \/ wsmap = wslist[c] /\ (wsmw = "rdy" \/ wsfini.pc = "load")
              \/ wsfini.pc = "close" /\ wsfini.list = wslist[c]

\* The inductive invariant of a web socket.
WsInv == WsTypeOK /\ Numbered /\ NewestFound /\ ListedOnce /\ FiniFits /\ ReaderListed

\* A number is left for a client that has none yet.
LEMMA NumberLeft ==
  ASSUME WsTypeOK, Numbered, NEW c \in WsConns, wspc[c] = "add", NEW l \in Lists
  PROVE  wsrover[l] + 1 \in Cids /\ nCounted \in Nat /\ Cardinality(Counted \cup {c}) = nCounted + 1
<1>1. IsFiniteSet(Counted) /\ c \notin Counted /\ Counted \cup {c} \subseteq WsConns
  BY WsAssumption, FS_Subset DEF Counted
<1>2. /\ nCounted \in Nat /\ Cardinality(WsConns) \in Nat
      /\ Cardinality(Counted \cup {c}) = nCounted + 1
      /\ Cardinality(Counted \cup {c}) <= Cardinality(WsConns)
  BY <1>1, WsAssumption, FS_CardinalityType, FS_AddElement, FS_Subset DEF nCounted
<1>3. wsrover[l] \in Nat /\ wsrover[l] <= nCounted
  <2>1. wsrover[l] \in Cids \cup {0} /\ \A i \in Cids : i \in Nat
    BY DEF WsTypeOK, Cids
  <2>2. QED BY <2>1 DEF Numbered
<1>4. QED BY <1>2, <1>3 DEF Cids

\* The types hold initially and in every step.
LEMMA WsTypeStep == ASSUME WsInv, [WsNext]_wsVars PROVE WsTypeOK'
<1> USE DEF WsTypeOK
<1>0. WsTypeOK
  BY DEF WsInv
<1>1. CASE UNCHANGED wsVars
  BY <1>0, <1>1 DEF wsVars
<1>2. ASSUME NEW c \in WsConns, WsFind(c) \/ WsReadFails(c) \/ WsUpgrade(c) \/ WsDelLoad(c)
      PROVE  WsTypeOK'
  BY <1>0, <1>2 DEF WsFind, WsReadFails, WsUpgrade, WsDelLoad, WsGoto
<1>3. ASSUME NEW c \in WsConns, WsLoad(c)
      PROVE  WsTypeOK'
  <2>1. wslists < WsMaxLists => wslists + 1 \in Lists /\ wslists + 1 \in 0 .. WsMaxLists
    BY <1>0, WsAssumption DEF Lists
  <2>2. QED BY <1>0, <1>3, <2>1 DEF WsLoad, WsGoto
<1>4. ASSUME NEW c \in WsConns, WsAdd(c)
      PROVE  WsTypeOK'
  <2>1. wslist[c] \in Lists
    BY <1>0, <1>4 DEF WsInv, NewestFound, WsAdd
  <2>2. wsrover[wslist[c]] + 1 \in Cids
    BY <1>0, <1>4, <2>1, NumberLeft DEF WsInv, WsAdd
  <2>3. QED BY <1>0, <1>4, <2>1, <2>2 DEF WsAdd, WsGoto
<1>5. ASSUME NEW c \in WsConns, WsDel(c)
      PROVE  WsTypeOK'
  <2>1. wslist[c] \in Lists /\ wscid[c] \in Cids
    BY <1>0, <1>5 DEF WsInv, NewestFound, WsDel, Counted
  <2>2. QED BY <1>0, <1>5, <2>1 DEF WsDel, WsGoto
<1>6. CASE WsFiniTake \/ WsMwTerm \/ WsFiniClose \/ WsMwAdd
  BY <1>0, <1>6 DEF WsFiniTake, WsMwTerm, WsFiniClose, WsMwAdd, wsClient
<1>7. QED BY <1>1, <1>2, <1>3, <1>4, <1>5, <1>6 DEF WsNext, WsStep

\* Numbers are given to clients once.
LEMMA NumberedStep == ASSUME WsInv, WsTypeOK', [WsNext]_wsVars PROVE Numbered'
<1>0. WsTypeOK /\ Numbered
  BY DEF WsInv
<1>1. ASSUME UNCHANGED wsrover, \A c \in WsConns : c \in Counted <=> c \in Counted'
      PROVE  Numbered'
  <2>1. Counted' = Counted
    BY <1>1 DEF Counted
  <2>2. QED BY <1>0, <1>1, <2>1 DEF Numbered, nCounted
<1>2. CASE UNCHANGED wsVars \/ WsFiniTake \/ WsMwTerm \/ WsFiniClose \/ WsMwAdd
  BY <1>1, <1>2 DEF wsVars, WsFiniTake, WsMwTerm, WsFiniClose, WsMwAdd, wsClient, Counted
<1>3. ASSUME NEW c \in WsConns,
             WsFind(c) \/ WsReadFails(c) \/ WsUpgrade(c) \/ WsDelLoad(c) \/ WsLoad(c) \/ WsDel(c)
      PROVE  Numbered'
  BY <1>0, <1>1, <1>3 DEF WsFind, WsReadFails, WsUpgrade, WsDelLoad, WsLoad, WsDel, WsGoto,
     Counted, WsTypeOK
<1>4. ASSUME NEW c \in WsConns, WsAdd(c)
      PROVE  Numbered'
  <2>1. wslist[c] \in Lists /\ wspc[c] = "add"
    BY <1>0, <1>4 DEF WsInv, NewestFound, WsAdd, WsTypeOK
  <2>2. Counted' = Counted \cup {c}
    BY <1>0, <1>4 DEF Counted, WsAdd, WsGoto, WsTypeOK
  <2>3. nCounted \in Nat /\ nCounted' = nCounted + 1
    BY <1>0, <2>1, <2>2, NumberLeft DEF nCounted
  <2>4. \A l \in Lists : wsrover[l] \in Int
    BY <1>0 DEF WsTypeOK, Cids
  <2>5. \A l \in Lists : wsrover'[l] = wsrover[l] \/ wsrover'[l] = wsrover[l] + 1
    BY <1>0, <1>4 DEF WsAdd, WsTypeOK
  <2>6. QED BY <1>0, <2>3, <2>4, <2>5 DEF Numbered
<1>5. QED BY <1>2, <1>3, <1>4 DEF WsNext, WsStep

\* The newest list is the one that is found.
LEMMA NewestStep == ASSUME WsInv, WsTypeOK', [WsNext]_wsVars PROVE NewestFound'
<1> USE DEF NewestFound, Counted
<1>0. WsTypeOK /\ NewestFound /\ wslists \in Nat /\ (\A c \in WsConns : wslist[c] \in Nat)
  BY WsAssumption DEF WsInv, WsTypeOK, Lists, NoList
<1>1. CASE UNCHANGED wsVars \/ WsFiniTake \/ WsMwTerm \/ WsFiniClose \/ WsMwAdd
  BY <1>0, <1>1 DEF wsVars, WsFiniTake, WsMwTerm, WsFiniClose, WsMwAdd, wsClient
<1>2. ASSUME NEW c \in WsConns, WsFind(c) \/ WsReadFails(c) \/ WsUpgrade(c) \/ WsDel(c)
      PROVE  NewestFound'
  BY <1>0, <1>2 DEF WsFind, WsReadFails, WsUpgrade, WsDel, WsGoto, WsTypeOK
<1>3. ASSUME NEW c \in WsConns, WsDelLoad(c)
      PROVE  NewestFound'
  BY <1>0, <1>3 DEF WsDelLoad, WsGoto, WsTypeOK, NoList
<1>4. ASSUME NEW c \in WsConns, WsLoad(c)
      PROVE  NewestFound'
  BY <1>0, <1>4 DEF WsLoad, WsGoto, WsTypeOK, NoList
<1>5. ASSUME NEW c \in WsConns, WsAdd(c)
      PROVE  NewestFound'
  <2>1. wslist[c] \in Lists /\ wspc[c] = "add"
    BY <1>0, <1>5 DEF WsAdd, WsTypeOK
  <2>2. wsrover[wslist[c]] + 1 # 0
    <3>1. wsrover[wslist[c]] \in Nat
      BY <1>0, <2>1 DEF WsTypeOK, Cids
    <3>2. QED BY <3>1
  <2>3. QED BY <1>0, <1>5, <2>2 DEF WsAdd, WsGoto, WsTypeOK
<1>6. QED BY <1>1, <1>2, <1>3, <1>4, <1>5 DEF WsNext, WsStep

\* The record and Fini go together.
LEMMA FiniStep == ASSUME WsInv, [WsNext]_wsVars PROVE FiniFits'
<1> USE DEF FiniFits, WsInv
<1>1. CASE UNCHANGED wsVars \/ WsFiniTake \/ WsMwTerm \/ WsFiniClose \/ WsMwAdd
  BY <1>1 DEF wsVars, WsFiniTake, WsMwTerm, WsFiniClose, WsMwAdd
<1>2. ASSUME NEW c \in WsConns, WsFind(c) \/ WsReadFails(c) \/ WsStep(c)
      PROVE  FiniFits'
  BY <1>2 DEF WsFind, WsReadFails, WsStep, WsUpgrade, WsDelLoad, WsLoad, WsAdd, WsDel
<1>3. QED BY <1>1, <1>2 DEF WsNext

\* A client is listed under its number in one place.
LEMMA ListedStep == ASSUME WsInv, WsTypeOK', [WsNext]_wsVars PROVE ListedOnce'
<1> USE DEF ListedOnce
<1>0. /\ WsTypeOK /\ ListedOnce /\ NewestFound /\ wslists \in Nat
      /\ \A l \in Lists : wsrover[l] \in Nat /\ l \in Nat /\ l # NoList
      /\ \A i \in Cids : i \in Nat
  BY WsAssumption DEF WsInv, WsTypeOK, Lists, NoList, Cids
<1>1. CASE UNCHANGED wsVars \/ WsFiniTake \/ WsMwTerm \/ WsFiniClose \/ WsMwAdd
  BY <1>0, <1>1 DEF wsVars, WsFiniTake, WsMwTerm, WsFiniClose, WsMwAdd, wsClient, Counted
<1>2. ASSUME NEW c \in WsConns, WsFind(c) \/ WsReadFails(c) \/ WsUpgrade(c)
      PROVE  ListedOnce'
  BY <1>0, <1>2 DEF WsFind, WsReadFails, WsUpgrade, WsGoto, WsTypeOK, Counted
<1>3. ASSUME NEW c \in WsConns, WsDelLoad(c)
      PROVE  ListedOnce'
  BY <1>0, <1>3 DEF WsDelLoad, WsGoto, WsTypeOK, Counted
<1>4. ASSUME NEW c \in WsConns, WsLoad(c)
      PROVE  ListedOnce'
  BY <1>0, <1>4 DEF WsLoad, WsGoto, WsTypeOK, Counted, NewestFound
<1>5. ASSUME NEW c \in WsConns, WsAdd(c)
      PROVE  ListedOnce'
  <2> DEFINE k == wslist[c]
  <2> DEFINE n == wsrover[k] + 1
  <2>1. k \in Lists /\ k <= wslists /\ n \in Cids /\ wspc[c] = "add"
    BY <1>0, <1>5, NumberLeft DEF WsInv, WsAdd, WsTypeOK, NewestFound
  <2>2. \A l \in Lists, i \in Cids :
           wscons'[l][i] = IF l = k /\ i = n THEN c ELSE wscons[l][i]
    BY <1>0, <1>5, <2>1 DEF WsAdd, WsTypeOK
  <2>3. \A l \in Lists : wsrover'[l] = IF l = k THEN n ELSE wsrover[l]
    BY <1>0, <1>5, <2>1 DEF WsAdd, WsTypeOK
  <2>4. wspc' = [wspc EXCEPT ![c] = "read"] /\ wscid' = [wscid EXCEPT ![c] = n]
        /\ UNCHANGED <<wslist, wsmap, wslists>>
    BY <1>5 DEF WsAdd, WsGoto
  <2>5. c \notin Counted
    BY <2>1 DEF Counted
  <2>6. ASSUME NEW l \in Lists, NEW i \in Cids, wscons'[l][i] # NoConn
        PROVE  ListedOnce!(l, i)'
    <3>1. CASE l = k /\ i = n
      BY <1>0, <2>1, <2>2, <2>3, <2>4, <3>1 DEF Counted, WsTypeOK
    <3>2. CASE ~(l = k /\ i = n)
      <4>1. wscons'[l][i] = wscons[l][i] /\ wscons[l][i] # c
        BY <1>0, <2>2, <2>5, <2>6, <3>2
      <4> DEFINE d == wscons[l][i]
      <4>2. d \in Counted /\ d # c /\ l <= wslists /\ i <= wsrover[l] /\ wscid[d] = i
            /\ (l = wsmap => wspc[d] # "gone" /\ wslist[d] = l)
        BY <1>0, <2>6, <4>1
      <4>3. d \in WsConns /\ wspc'[d] = wspc[d] /\ wscid'[d] = wscid[d] /\ wslist'[d] = wslist[d]
        BY <1>0, <2>4, <4>2 DEF Counted, WsTypeOK
      <4>4. i <= wsrover'[l] /\ d \in Counted'
        BY <1>0, <2>3, <4>2, <4>3 DEF Counted
      <4>5. QED BY <2>4, <4>1, <4>2, <4>3, <4>4
    <3>3. QED BY <3>1, <3>2
  <2>7. QED BY <2>6
<1>6. ASSUME NEW c \in WsConns, WsDel(c)
      PROVE  ListedOnce'
  <2> DEFINE k == wslist[c]
  <2>1. k \in Lists /\ wscid[c] \in Cids /\ wspc[c] = "lock"
    BY <1>0, <1>6 DEF WsDel, WsTypeOK, NewestFound, Counted
  <2>2. \A l \in Lists, i \in Cids :
           wscons'[l][i] = IF l = k /\ i = wscid[c] THEN NoConn ELSE wscons[l][i]
    BY <1>0, <1>6, <2>1 DEF WsDel, WsTypeOK
  <2>3. wspc' = [wspc EXCEPT ![c] = "gone"] /\ UNCHANGED <<wslist, wscid, wsmap, wslists, wsrover>>
    BY <1>6 DEF WsDel, WsGoto
  <2>4. QED BY <1>0, <2>1, <2>2, <2>3 DEF Counted, WsTypeOK
<1>7. QED BY <1>1, <1>2, <1>3, <1>4, <1>5, <1>6 DEF WsNext, WsStep

\* Who reads stays in the list, or somebody else deleted it.
LEMMA ReaderStep == ASSUME WsInv, WsTypeOK', [WsNext]_wsVars PROVE ReaderListed'
<1> USE DEF ReaderListed
<1>0. /\ WsTypeOK /\ ReaderListed /\ NewestFound /\ FiniFits /\ ListedOnce
      /\ \A l \in Lists : wsrover[l] \in Nat /\ l # NoList
  BY WsAssumption DEF WsInv, WsTypeOK, Lists, NoList, Cids
<1>1. CASE UNCHANGED wsVars \/ WsFiniTake \/ WsMwTerm \/ WsMwAdd
  BY <1>0, <1>1 DEF wsVars, WsFiniTake, WsMwTerm, WsMwAdd, wsClient, FiniFits, WsTypeOK
<1>2. CASE WsFiniClose
  <2>1. ASSUME NEW c \in WsConns, wspc'[c] = "read", c \notin wslate' \cup wsstray'
        PROVE  wscons'[wslist'[c]][wscid'[c]] = c /\ c \notin wsopen'
    <3>1. wscons[wslist[c]][wscid[c]] = c /\ wslist[c] \in Lists /\ wscid[c] \in Cids
      BY <1>0, <1>2, <2>1 DEF WsFiniClose, wsClient, NewestFound, Counted, WsTypeOK
    <3>2. c \in wsopen => wsfini.list = wslist[c]
      BY <1>0, <1>2, <2>1 DEF WsFiniClose, wsClient, FiniFits
    <3>3. QED BY <1>0, <1>2, <3>1, <3>2 DEF WsFiniClose, wsClient
  <2>2. QED BY <2>1
<1>3. ASSUME NEW c \in WsConns, WsFind(c) \/ WsReadFails(c) \/ WsUpgrade(c)
      PROVE  ReaderListed'
  BY <1>0, <1>3 DEF WsFind, WsReadFails, WsUpgrade, WsGoto, WsTypeOK
<1>4. ASSUME NEW c \in WsConns, WsDelLoad(c)
      PROVE  ReaderListed'
  BY <1>0, <1>4 DEF WsDelLoad, WsGoto, WsTypeOK
<1>5. ASSUME NEW c \in WsConns, WsLoad(c)
      PROVE  ReaderListed'
  BY <1>0, <1>5 DEF WsLoad, WsGoto, WsTypeOK, NewestFound
<1>6. ASSUME NEW c \in WsConns, WsAdd(c)
      PROVE  ReaderListed'
  <2> DEFINE k == wslist[c]
  <2> DEFINE n == wsrover[k] + 1
  <2>1. k \in Lists /\ n \in Cids /\ wspc[c] = "add"
    BY <1>0, <1>6, NumberLeft DEF WsInv, WsAdd, WsTypeOK, NewestFound
  <2>2. \A l \in Lists, i \in Cids :
           wscons'[l][i] = IF l = k /\ i = n THEN c ELSE wscons[l][i]
    BY <1>0, <1>6, <2>1 DEF WsAdd, WsTypeOK
  <2>3. /\ wspc' = [wspc EXCEPT ![c] = "read"] /\ wscid' = [wscid EXCEPT ![c] = n]
        /\ UNCHANGED <<wslist, wsmap, wsmw, wsfini, wsopen, wsstray>>
        /\ wslate' = IF wsmw = "rdy" /\ wsmap = k THEN wslate ELSE wslate \cup {c}
    BY <1>6 DEF WsAdd, WsGoto
  <2>4. wscons[k][n] = NoConn
    <3>1. wscons[k][n] # NoConn => n <= wsrover[k]
      BY <1>0, <2>1 DEF ListedOnce
    <3>2. wsrover[k] \in Nat
      BY <1>0, <2>1
    <3>3. QED BY <3>1, <3>2
  <2>5. ASSUME NEW d \in WsConns, wspc'[d] = "read", d \notin wslate' \cup wsstray'
        PROVE  ReaderListed!(d)!2'
    <3>1. CASE d = c
      BY <1>0, <2>1, <2>2, <2>3, <2>5, <3>1 DEF WsTypeOK
    <3>2. CASE d # c
      <4>1. /\ wspc[d] = "read" /\ d \notin wslate \cup wsstray
              /\ wslist'[d] = wslist[d] /\ wscid'[d] = wscid[d]
        BY <1>0, <2>3, <2>5, <3>2 DEF WsTypeOK
      <4>2. /\ wslist[d] \in Lists /\ wscid[d] \in Cids
              /\ wscons[wslist[d]][wscid[d]] = d /\ d # NoConn
        BY <1>0, <4>1, WsAssumption DEF WsTypeOK, NewestFound, Counted
      <4>3. wscons'[wslist[d]][wscid[d]] = d
        BY <2>2, <2>4, <4>2
      <4>4. QED BY <1>0, <2>3, <4>1, <4>3
    <3>3. QED BY <3>1, <3>2
  <2>6. QED BY <2>5
<1>7. ASSUME NEW c \in WsConns, WsDel(c)
      PROVE  ReaderListed'
  <2> DEFINE k == wslist[c]
  <2>1. k \in Lists /\ wscid[c] \in Cids /\ wspc[c] = "lock"
    BY <1>0, <1>7 DEF WsDel, WsTypeOK, NewestFound, Counted
  <2>2. \A l \in Lists, i \in Cids :
           wscons'[l][i] = IF l = k /\ i = wscid[c] THEN NoConn ELSE wscons[l][i]
    BY <1>0, <1>7, <2>1 DEF WsDel, WsTypeOK
  <2>3. /\ wspc' = [wspc EXCEPT ![c] = "gone"] /\ wsopen' = wsopen \ {c}
        /\ UNCHANGED <<wslist, wscid, wsmap, wsmw, wsfini, wslate>>
        /\ wsstray' = wsstray \cup ({wscons[k][wscid[c]]} \ {c, NoConn})
    BY <1>7 DEF WsDel, WsGoto
  <2>4. ASSUME NEW d \in WsConns, wspc'[d] = "read", d \notin wslate' \cup wsstray'
        PROVE  ReaderListed!(d)!2'
    <3>1. /\ d # c /\ wspc[d] = "read" /\ d \notin wslate \cup wsstray
          /\ (d \in wsopen' <=> d \in wsopen)
      BY <1>0, <2>3, <2>4 DEF WsTypeOK
    <3>2. wslist[d] \in Lists /\ wscid[d] \in Cids /\ wscons[wslist[d]][wscid[d]] = d /\ d # NoConn
      BY <1>0, <3>1, WsAssumption DEF WsTypeOK, NewestFound, Counted
    <3>3. wscons'[wslist[d]][wscid[d]] = d
      BY <2>2, <2>3, <2>4, <3>1, <3>2
    <3>4. QED BY <1>0, <2>3, <3>1, <3>3
  <2>5. QED BY <2>4
<1>8. QED BY <1>1, <1>2, <1>3, <1>4, <1>5, <1>6, <1>7 DEF WsNext, WsStep

\* The inductive invariant holds.
LEMMA WsInvHolds == WsSpec => []WsInv
<1>1. WsInit => WsInv
  <2> SUFFICES ASSUME WsInit PROVE WsInv
    OBVIOUS
  <2>1. WsTypeOK
    BY WsAssumption DEF WsInit, WsTypeOK, NoList
  <2>2. Counted = {} /\ nCounted = 0
    BY FS_EmptySet DEF WsInit, Counted, nCounted
  <2>3. Numbered /\ NewestFound /\ ListedOnce /\ FiniFits /\ ReaderListed
    BY <2>2 DEF WsInit, Numbered, NewestFound, ListedOnce, FiniFits, ReaderListed, NoList
  <2>4. QED BY <2>1, <2>3 DEF WsInv
<1>2. WsInv /\ [WsNext]_wsVars => WsInv'
  BY WsTypeStep, NumberedStep, NewestStep, ListedStep, FiniStep, ReaderStep DEF WsInv
<1>3. QED BY <1>1, <1>2, PTL DEF WsSpec

\* The variables of a web socket have their types (mw-websocket.go).
THEOREM WebSockTypes == WsSpec => []WsTypeOK
  BY WsInvHolds, PTL DEF WsInv

\* A client that reads is reached under its number and no other client is, none is
\* left open once its middleware is gone, and the list that is found holds none that
\* left, but for late and stray ones (wsAddConn, wsDelConn, wsCloseConns).
THEOREM WebSockIsSound == WsSpec => []WebSockSound
<1>1. ASSUME WsInv PROVE WebSockSound
  <2>1. ReaderReached
    BY <1>1 DEF WsInv, ReaderListed, FiniFits, ReaderReached, Reached, NewestFound
  <2>2. ClosedWithMw
    BY <1>1 DEF WsInv, ReaderListed, FiniFits, ClosedWithMw
  <2>3. ListedAreThere
    BY <1>1 DEF WsInv, ListedOnce, ListedAreThere, WsTypeOK
  <2>4. QED BY <2>1, <2>2, <2>3 DEF WebSockSound
<1>2. QED BY <1>1, WsInvHolds, PTL

-----------------------------------------------------------------------------
(* The gate.                                                               *)

\* A behaviour of the gate is one of each of its parts: a step is a step of one of
\* them, and the others stand still.
LEMMA GateParts ==
  GateSpec => DpSpec /\ RpSpec /\ AcSpec /\ PkSpec /\ MwSpec /\ WsSpec
<1>1. GateInit => DpInit /\ RpInit /\ AcInit /\ PkInit /\ MwInit /\ WsInit
  BY DEF GateInit
<1>2. [GateNext]_gateVars =>
        /\ [DpNext]_dpVars /\ [RpNext]_rpVars /\ [AcNext]_acVars
        /\ [PkNext]_pkVars /\ [MwNext]_mwVars /\ [WsNext]_wsVars
  BY DEF GateNext, gateVars
<1>3. QED BY <1>1, <1>2, PTL DEF GateSpec, DpSpec, RpSpec, AcSpec, PkSpec, MwSpec, WsSpec

\* The parts of one gate keep their types, whatever the others do (deploy.go, repo.go,
\* accounts.go, packages.go, mware.go, mw-websocket.go).
THEOREM GateTypes == GateSpec => []GateTypeOK
<1>1. DpTypeOK /\ RpTypeOK /\ AcTypeOK /\ PkTypeOK /\ MwTypeOK /\ WsTypeOK => GateTypeOK
  BY DEF GateTypeOK
<1>2. QED
  BY <1>1, GateParts, DeployTypes, RepoTypes, AccountTypes, PackageTypes, MwareTypes,
     WebSockTypes, PTL

\* In one gate, starting, undoing and deleting leave of a deployment what its record
\* says (StartItems, StopItems, Del).
THEOREM GateDeployments == GateSpec => DeploySound
BY GateParts, DeployIsSound, PTL

\* What the gate keeps in its parts, it keeps when they run in one gate: its
\* middleware and the clients of web sockets (mware.go, mw-websocket.go).
THEOREM GateMiddleware == GateSpec => []MiddlewareSound
<1>1. MwareSound /\ WebSockSound => MiddlewareSound
  BY DEF MiddlewareSound
<1>2. QED BY <1>1, GateParts, MwareIsSound, WebSockIsSound, PTL
=============================================================================
