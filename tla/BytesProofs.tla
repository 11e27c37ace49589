---------------------------- MODULE BytesProofs ----------------------------
(***************************************************************************)
(* What arrives of bytes and names, for every value of the constants: the  *)
(* requests a proxy passes on (TcProxy), the range of an object a client   *)
(* asked for (S3Range), the list of a bucket (S3List) and the messages     *)
(* between the watchdog and a runner (XQueue).  Sums over the lengths of   *)
(* requests, chunks and packets are functions, and what they satisfy is    *)
(* proved by induction over sets of numbers (NatBySteps).                  *)
(***************************************************************************)
EXTENDS TcProxy, XQueue, S3Range, S3List, FiniteSetTheorems, SequenceTheorems,
        WellFoundedInduction, TLAPS

-----------------------------------------------------------------------------
(* Induction over numbers, for sets of them: of the numbers that are not   *)
(* in the set the least would be.                                          *)

LEMMA NatBySteps ==
    ASSUME NEW S, 0 \in S, \A n \in Nat : n \in S => n + 1 \in S
    PROVE  Nat \subseteq S
<1> DEFINE T == Nat \ S
<1>1. SUFFICES ASSUME T # {} PROVE FALSE
  OBVIOUS
<1>2. PICK x \in T : \A y \in T : ~ (<<y, x>> \in OpToRel(<, Nat))
  BY <1>1, WFMin, NatLessThanWellFounded
<1>3. x \in Nat /\ x # 0 /\ x \notin S
  BY DEF T
<1>4. x - 1 \in Nat /\ (x - 1) + 1 = x /\ x - 1 < x
  BY <1>3
<1>5. x - 1 \in T
  BY <1>3, <1>4 DEF T
<1>6. <<x - 1, x>> \in OpToRel(<, Nat)
  BY <1>3, <1>4 DEF OpToRel
<1> QED
  BY <1>2, <1>5, <1>6

\* The least of a set of numbers
LEMMA LeastNumber ==
    ASSUME NEW T, T \subseteq Nat, T # {}
    PROVE  \E x \in T : \A y \in T : x <= y
<1>1. PICK x \in T : \A y \in T : ~ (<<y, x>> \in OpToRel(<, Nat))
  BY WFMin, NatLessThanWellFounded
<1>2. ASSUME NEW y \in T PROVE x <= y
  <2>1. x \in Nat /\ y \in Nat
    OBVIOUS
  <2>2. ~ (y < x)
    BY <1>1, <2>1 DEF OpToRel
  <2> QED
    BY <2>1, <2>2
<1> QED
  BY <1>2

-----------------------------------------------------------------------------
(* The sums of the first numbers of a list.                                *)

IsSums(u, s, m) == \A n \in 0 .. m : u[n] = IF n = 0 THEN 0 ELSE u[n - 1] + s[n]

LEMMA SumsExist ==
    ASSUME NEW m \in Nat, NEW s \in [1 .. m -> Nat]
    PROVE  \E u \in [0 .. m -> Nat] : u = [n \in 0 .. m |-> IF n = 0 THEN 0 ELSE u[n - 1] + s[n]]
<1> DEFINE S == {k \in Nat : k <= m => \E u \in [0 .. k -> Nat] : IsSums(u, s, k)}
<1>1. 0 \in S
  <2>1. [n \in 0 .. 0 |-> 0] \in [0 .. 0 -> Nat] /\ IsSums([n \in 0 .. 0 |-> 0], s, 0)
    BY DEF IsSums
  <2> QED
    BY <2>1
<1>2. ASSUME NEW k \in Nat, k \in S PROVE k + 1 \in S
  <2> SUFFICES ASSUME k + 1 <= m PROVE \E v \in [0 .. k + 1 -> Nat] : IsSums(v, s, k + 1)
    OBVIOUS
  <2>1. PICK u \in [0 .. k -> Nat] : IsSums(u, s, k)
    BY <1>2
  <2> DEFINE v == [n \in 0 .. k + 1 |-> IF n <= k THEN u[n] ELSE u[k] + s[k + 1]]
  <2>2. u[k] \in Nat /\ s[k + 1] \in Nat
    OBVIOUS
  <2>3. v \in [0 .. k + 1 -> Nat]
    BY <2>2
  <2>4. ASSUME NEW n \in 0 .. k + 1 PROVE v[n] = IF n = 0 THEN 0 ELSE v[n - 1] + s[n]
    <3>1. CASE n <= k
      <4>1. n \in 0 .. k /\ (n # 0 => n - 1 \in 0 .. k)
        BY <3>1
      <4> QED
        BY <2>1, <3>1, <4>1 DEF IsSums
    <3>2. CASE n = k + 1
      BY <3>2
    <3> QED
      BY <3>1, <3>2
  <2> QED
    BY <2>3, <2>4 DEF IsSums
<1>3. m \in S
  <2> HIDE DEF S
  <2> QED
    BY <1>1, <1>2, NatBySteps
<1>4. PICK u \in [0 .. m -> Nat] : IsSums(u, s, m)
  BY <1>3
<1> QED
  BY <1>4 DEF IsSums

\* They grow.
LEMMA SumsGrow ==
    ASSUME NEW m \in Nat, NEW s \in [1 .. m -> Nat], NEW u \in [0 .. m -> Nat],
           \A n \in 1 .. m : u[n] = u[n - 1] + s[n]
    PROVE  \A i, j \in 0 .. m : i <= j => u[i] <= u[j]
<1> DEFINE S == {k \in Nat : \A i, j \in 0 .. m : i + k = j => u[i] <= u[j]}
<1>1. 0 \in S
  OBVIOUS
<1>2. ASSUME NEW k \in Nat, k \in S PROVE k + 1 \in S
  <2> SUFFICES ASSUME NEW i \in 0 .. m, NEW j \in 0 .. m, i + k + 1 = j PROVE u[i] <= u[j]
    OBVIOUS
  <2>1. j - 1 \in 0 .. m /\ j \in 1 .. m /\ i + k = j - 1
    OBVIOUS
  <2>2. u[i] <= u[j - 1] /\ u[j] = u[j - 1] + s[j]
    BY <1>2, <2>1
  <2>3. u[i] \in Nat /\ u[j - 1] \in Nat /\ s[j] \in Nat
    BY <2>1
  <2> QED
    BY <2>2, <2>3
<1>3. Nat \subseteq S
  <2> HIDE DEF S
  <2> QED
    BY <1>1, <1>2, NatBySteps
<1>4. ASSUME NEW i \in 0 .. m, NEW j \in 0 .. m, i <= j PROVE u[i] <= u[j]
  <2>1. j - i \in Nat /\ i + (j - i) = j
    BY <1>4
  <2> QED
    BY <1>3, <2>1
<1> QED
  BY <1>4

-----------------------------------------------------------------------------
(* A connection through a database proxy: what was passed on is the        *)
(* requests let through, and of a stream that MariaDB's decoder took too   *)
(* early no more is passed.                                                *)

EndOfIs(n) == EndOf[n] = IF n = 0 THEN 0 ELSE EndOf[n - 1] + TpLens[n]

\* Where requests end (EndOf): the sums are there, and one follows the other.
LEMMA RequestEnds ==
    /\ EndOf \in [0 .. Len(TpLens) -> Nat] /\ \A n \in 0 .. Len(TpLens) : EndOfIs(n)
    /\ Len(TpLens) \in Nat /\ TpLens \in [1 .. Len(TpLens) -> Nat]
<1>1. Len(TpLens) \in Nat /\ TpLens \in [1 .. Len(TpLens) -> Nat]
  BY TpLensAssumption, LenProperties
<1>2. PICK u \in [0 .. Len(TpLens) -> Nat] :
         u = [n \in 0 .. Len(TpLens) |-> IF n = 0 THEN 0 ELSE u[n - 1] + TpLens[n]]
  BY <1>1, SumsExist
<1>3. EndOf = [n \in 0 .. Len(TpLens) |-> IF n = 0 THEN 0 ELSE EndOf[n - 1] + TpLens[n]]
  BY <1>2 DEF EndOf
<1>4. \A n \in 0 .. Len(TpLens) : EndOfIs(n)
  BY <1>3 DEF EndOfIs
<1>5. EndOf \in [0 .. Len(TpLens) -> Nat]
  <2> DEFINE S == {n \in Nat : n <= Len(TpLens) => EndOf[n] \in Nat}
  <2>1. 0 \in S
    BY <1>4, <1>1 DEF EndOfIs
  <2>2. ASSUME NEW n \in Nat, n \in S PROVE n + 1 \in S
    <3> SUFFICES ASSUME n + 1 <= Len(TpLens) PROVE EndOf[n + 1] \in Nat
      OBVIOUS
    <3>1. EndOf[n] \in Nat /\ TpLens[n + 1] \in Nat
      BY <2>2, <1>1
    <3>2. EndOf[n + 1] = EndOf[n] + TpLens[n + 1]
      BY <1>4, <1>1 DEF EndOfIs
    <3> QED
      BY <3>1, <3>2
  <2>3. Nat \subseteq S
    <3> HIDE DEF S
    <3> QED
      BY <2>1, <2>2, NatBySteps
  <2>4. \A n \in 0 .. Len(TpLens) : EndOf[n] \in Nat
    BY <2>3, <1>1
  <2>5. EndOf = [n \in 0 .. Len(TpLens) |-> EndOf[n]]
    BY <1>3
  <2> HIDE DEF S
  <2> QED
    BY <2>4, <2>5
<1> QED
  BY <1>1, <1>4, <1>5

TpInv ==
    /\ TpTypeOK /\ tpfwd = EndOf[tppassed]
    /\ tpfwd <= tpread \/ (tpproto = "maria" /\ tpfwd - tpread <= TpHeader /\ tptorn)
    /\ tprefuse # 0 => tprefuse = tppassed + 1 /\ tping = "done"
    /\ (tphandle = "halfing" => tping = "done") /\ (tphandle = "halfoug" => tpoug = "done")

LEMMA TpNumbers ==
    ASSUME TpInv
    PROVE  /\ Total \in Nat /\ tpread \in Nat /\ tpsent \in Nat /\ tpfwd \in Nat /\ tppassed \in Nat
           /\ TpHeader \in Nat /\ TpRead \in Nat /\ TpRead # 0 /\ Len(TpLens) \in Nat
<1>1. Total \in Nat /\ EndOf \in [0 .. Len(TpLens) -> Nat] /\ Len(TpLens) \in Nat
  BY RequestEnds DEF Total
<1> QED
  BY <1>1, TpLensAssumption DEF TpInv, TpTypeOK

LEMMA TpPassStep == ASSUME TpInv, TpPass PROVE TpInv'
<1>1. tpread \in Nat /\ tpfwd \in Nat /\ tppassed \in Nat /\ TpHeader \in Nat /\ Len(TpLens) \in Nat /\ tpsent \in Nat /\ Total \in Nat
  BY TpNumbers
<1>2. tppassed + 1 \in 1 .. Len(TpLens) /\ tppassed' = tppassed + 1
  BY <1>1 DEF TpPass
<1>3. NextLen \in Nat /\ EndOf[tppassed + 1] = EndOf[tppassed] + NextLen
  BY <1>1, <1>2, RequestEnds DEF NextLen, EndOfIs
<1>4. tpfwd' = EndOf[tppassed']
  BY <1>2, <1>3 DEF TpInv, TpPass
<1>5. tpfwd' = tpfwd + NextLen /\ tpread' = tpread /\ tpproto' = tpproto
      /\ tptorn' = (tpfwd + NextLen > tpread) /\ tprefuse' = tprefuse /\ tping' = tping /\ tping = "try"
  BY DEF TpPass
<1>6. IF tpproto = "maria" THEN tpread - tpfwd >= NextLen - TpHeader ELSE tpread - tpfwd >= NextLen
  BY DEF TpPass, Decodes, Collected
<1>7. tpproto \in {"mongo", "maria"} /\ tprefuse = 0
  BY <1>5 DEF TpInv, TpTypeOK
<1>8. tpfwd' <= tpread' \/ (tpproto' = "maria" /\ tpfwd' - tpread' <= TpHeader /\ tptorn')
  <2>1. CASE tpfwd + NextLen <= tpread
    BY <1>5, <2>1
  <2>2. CASE tpfwd + NextLen > tpread
    <3>1. tptorn'
      BY <1>5, <2>2
    <3>2. tpproto = "maria" /\ (tpfwd + NextLen) - tpread <= TpHeader
      BY <1>1, <1>3, <1>6, <1>7, <2>2
    <3> QED
      BY <1>5, <3>1, <3>2
  <2> QED
    BY <1>1, <1>3, <2>1, <2>2
<1>9. TpTypeOK'
  BY <1>1, <1>2, <1>5 DEF TpInv, TpTypeOK, TpPass
<1> QED
  BY <1>4, <1>5, <1>7, <1>8, <1>9 DEF TpInv, TpPass

LEMMA TpStepInv == ASSUME TpInv, [TpNext]_tpVars PROVE TpInv'
<1>0. tpread \in Nat /\ tpsent \in Nat /\ Total \in Nat /\ Len(TpLens) \in Nat /\ tpfwd \in Nat /\ TpHeader \in Nat /\ tppassed \in Nat /\ TpRead \in Nat /\ TpRead # 0
  BY TpNumbers
<1> USE DEF TpInv, TpTypeOK
<1>1. ASSUME TpMaria PROVE TpInv'
  <2>1. tpread = 0 /\ tpfwd <= tpread
    BY <1>0, <1>1 DEF TpMaria
  <2> QED
    BY <1>0, <1>1, <2>1 DEF TpMaria
<1>2. ASSUME NEW n \in 1 .. TpRead, TpWrite(n) PROVE TpInv'
  <2>1. tpsent' = tpsent + n /\ tpsent' \in 0 .. Total /\ tpread' \in 0 .. tpsent' /\ n \in Nat
    BY <1>0, <1>2 DEF TpWrite
  <2> QED
    BY <1>0, <1>2, <2>1 DEF TpWrite
<1>3. ASSUME TpClientClose PROVE TpInv'
  BY <1>3 DEF TpClientClose
<1>4. ASSUME TpServerClose PROVE TpInv'
  BY <1>4 DEF TpServerClose
<1>5. ASSUME TpIngRead PROVE TpInv'
  <2>1. tpread' \in 0 .. tpsent' /\ tpread <= tpread'
    BY <1>0, <1>5 DEF TpIngRead
  <2>2. tpfwd' <= tpread' \/ (tpproto' = "maria" /\ tpfwd' - tpread' <= TpHeader /\ tptorn')
    BY <1>0, <1>5, <2>1 DEF TpIngRead
  <2> QED
    BY <1>5, <2>1, <2>2 DEF TpIngRead
<1>6. ASSUME TpMore PROVE TpInv'
  BY <1>6 DEF TpMore
<1>7. ASSUME TpPass PROVE TpInv'
  BY <1>7, TpPassStep
<1>8. ASSUME TpRefuse PROVE TpInv'
  BY <1>8, <1>0 DEF TpRefuse
<1>9. ASSUME TpOugEnd PROVE TpInv'
  BY <1>9 DEF TpOugEnd
<1>10. ASSUME TpHalf PROVE TpInv'
  BY <1>10 DEF TpHalf
<1>11. ASSUME TpEnd PROVE TpInv'
  BY <1>11 DEF TpEnd
<1>12. ASSUME UNCHANGED tpVars PROVE TpInv'
  BY <1>12 DEF tpVars
<1> HIDE DEF TpInv, TpTypeOK
<1>13. TpStep => TpInv'
  BY <1>5, <1>6, <1>7, <1>8, <1>9, <1>10, <1>11 DEF TpStep
<1>14. TpNext => TpInv'
  BY <1>1, <1>2, <1>3, <1>4, <1>13 DEF TpNext
<1> QED
  BY <1>12, <1>14

LEMMA TpInvHolds == TpSpec => []TpInv
<1>1. TpInit => TpInv
  <2>1. EndOf[0] = 0 /\ Total \in Nat /\ Len(TpLens) \in Nat
    BY RequestEnds DEF EndOfIs, Total
  <2> SUFFICES ASSUME TpInit PROVE TpInv
    OBVIOUS
  <2>2. TpTypeOK
    <3>1. tptorn \in BOOLEAN /\ tpproto \in {"mongo", "maria"}
      BY DEF TpInit
    <3>2. tpread \in 0 .. tpsent /\ tpsent \in 0 .. Total /\ tppassed \in 0 .. Len(TpLens) /\ tprefuse \in 0 .. Len(TpLens)
      BY <2>1 DEF TpInit
    <3> QED
      BY <3>1, <3>2 DEF TpInit, TpTypeOK
  <2>3. tpfwd = EndOf[tppassed] /\ tpfwd <= tpread
    BY <2>1 DEF TpInit
  <2> QED
    BY <2>2, <2>3 DEF TpInit, TpInv
<1> QED
  BY <1>1, TpStepInv, PTL DEF TpSpec

\* The proxy gives the server whole requests, each once and in order, and nothing of
\* a refused one, however the stream is cut into reads (tcproxy dataReady, Try).
THEOREM RequestsArrive == TpSpec => [](TpTypeOK /\ WholeRequests /\ NothingAfterRefusal)
<1>1. TpInv => TpTypeOK /\ WholeRequests /\ NothingAfterRefusal
  <2> SUFFICES ASSUME TpInv PROVE TpTypeOK /\ WholeRequests /\ NothingAfterRefusal
    OBVIOUS
  <2>1. tprefuse # 0 => tprefuse - 1 = tppassed
    BY TpNumbers DEF TpInv
  <2> QED
    BY <2>1 DEF TpInv, WholeRequests, NothingAfterRefusal
<1> QED
  BY <1>1, TpInvHolds, PTL

-----------------------------------------------------------------------------
(* The range of an object: the walk over parts and chunks is where its     *)
(* rover says as long as the rover is before the end of the range, and     *)
(* what was sent is the range up to the rover.                             *)

\* The sums of a list of numbers are there, one follows the other.
LEMMA SrSumsFacts ==
    ASSUME NEW s \in Seq(Nat)
    PROVE  /\ Len(s) \in Nat /\ SrSums(s) \in [0 .. Len(s) -> Nat] /\ SrSums(s)[0] = 0
           /\ \A n \in 1 .. Len(s) : SrSums(s)[n] = SrSums(s)[n - 1] + s[n]
           /\ \A i, j \in 0 .. Len(s) : i <= j => SrSums(s)[i] <= SrSums(s)[j]
           /\ SrSum(s) \in Nat
<1>1. Len(s) \in Nat /\ s \in [1 .. Len(s) -> Nat]
  BY LenProperties
<1> DEFINE Is(u) == u = [n \in 0 .. Len(s) |-> IF n = 0 THEN 0 ELSE u[n - 1] + s[n]]
<1>2. \E u : Is(u)
  BY <1>1, SumsExist
<1>3. SrSums(s) = CHOOSE u : Is(u)
  BY DEF SrSums
<1>4. Is(SrSums(s))
  BY <1>2, <1>3
<1> DEFINE v == SrSums(s)
<1>5. v[0] = 0 /\ \A n \in 1 .. Len(s) : v[n] = v[n - 1] + s[n]
  <2>1. v = [n \in 0 .. Len(s) |-> IF n = 0 THEN 0 ELSE v[n - 1] + s[n]]
    BY <1>4
  <2> HIDE DEF v
  <2>2. \A n \in 0 .. Len(s) : v[n] = IF n = 0 THEN 0 ELSE v[n - 1] + s[n]
    BY <2>1, Zenon
  <2>3. 0 \in 0 .. Len(s) /\ \A n \in 1 .. Len(s) : n \in 0 .. Len(s) /\ n # 0
    BY <1>1
  <2> QED
    BY <2>2, <2>3
<1>6. v = [n \in 0 .. Len(s) |-> v[n]]
  <2>1. v = [n \in 0 .. Len(s) |-> IF n = 0 THEN 0 ELSE v[n - 1] + s[n]]
    BY <1>4
  <2> HIDE DEF v
  <2> QED
    BY <2>1
<1> HIDE DEF v
<1>7. v \in [0 .. Len(s) -> Nat]
  <2> DEFINE S == {n \in Nat : n <= Len(s) => v[n] \in Nat}
  <2>1. 0 \in S
    BY <1>5
  <2>2. ASSUME NEW n \in Nat, n \in S PROVE n + 1 \in S
    <3> SUFFICES ASSUME n + 1 <= Len(s) PROVE v[n + 1] \in Nat
      OBVIOUS
    <3>1. v[n] \in Nat /\ s[n + 1] \in Nat /\ n + 1 \in 1 .. Len(s)
      BY <1>1, <2>2
    <3>2. v[n + 1] = v[n] + s[n + 1]
      BY <1>5, <3>1
    <3> QED
      BY <3>1, <3>2
  <2>3. Nat \subseteq S
    <3> HIDE DEF S
    <3> QED
      BY <2>1, <2>2, NatBySteps
  <2>4. \A n \in 0 .. Len(s) : v[n] \in Nat
    BY <1>1, <2>3
  <2> QED
    BY <1>6, <2>4
<1>8. \A i, j \in 0 .. Len(s) : i <= j => v[i] <= v[j]
  BY <1>1, <1>5, <1>7, SumsGrow
<1> QED
  BY <1>1, <1>5, <1>7, <1>8 DEF v, SrSum

PartSizes == [i \in DOMAIN srobj |-> SrPartSize(i)]
\* where the first n parts end
PartEnds == SrSums(PartSizes)
\* where the walk is
WalkAt == IF sr.pc = "chunks" THEN PartEnds[sr.part - 1] + SrSums(srobj[sr.part])[sr.chunk - 1]
          ELSE PartEnds[sr.part - 1]

SrLabels == {"idle", "asked", "found", "parts", "chunks", "unread", "refused", "limited", "cut", "done"}
SrRec == [pc : SrLabels, from : Int, to : Int, ds : Int, part : Int, chunk : Int, rover : Int, down : Int]
Walking == sr.pc \in {"parts", "chunks"}
Answered == sr.pc \in {"cut", "done"}
Named(x) == /\ 0 <= x /\ x < SrSize
            /\ \/ srform = "none"
               \/ srform = "one" /\ srrange[1] <= x /\ (srrange[2] = -1 \/ x <= srrange[2])
               \/ srform = "tail" /\ SrSize - srrange[1] <= x

SrTypes ==
    /\ sr \in SrRec /\ srfsck \in BOOLEAN
    /\ srobj \in SrObjects \cup {<< >>} /\ srobj \in Seq(Seq(Nat \ {0}))
    /\ srform \in {"none", "one", "tail", "other"} /\ srrange \in (0 .. SrMaxPos) \X (-1 .. SrMaxPos)
    /\ sr.from \in 0 .. SrNoLimit /\ sr.to \in 0 .. SrNoLimit /\ sr.rover \in 0 .. SrSize
\* the range as ParseRange gives it, and as the size of the object cuts it
ParseFits ==
    /\ sr.pc \in {"idle", "asked"} => sr.from = 0 /\ sr.to = SrNoLimit
    /\ sr.pc = "found" =>
          IF srform = "none" THEN sr.from = 0 /\ sr.to = SrNoLimit
          ELSE srform = "one" /\ sr.from = srrange[1] /\ IF srrange[2] = -1 THEN sr.to = SrNoLimit
                                                         ELSE sr.to = srrange[2] + 1 /\ srrange[1] <= srrange[2]
    /\ sr.pc = "refused" => \A x \in Int : ~ Named(x)
    /\ sr.pc = "unread" => srform \in {"tail", "other"}
    /\ Walking \/ Answered =>
          /\ sr.from <= sr.to /\ sr.to <= SrSize /\ sr.ds = sr.to - sr.from
          /\ \A x \in Int : Named(x) <=> (sr.from <= x /\ x < sr.to)
\* how many bytes are sent when the rover is at r
SentTo(r) == IF r <= sr.from THEN 0 ELSE IF r >= sr.to THEN sr.to - sr.from ELSE r - sr.from
WalkFits ==
    /\ ~ (Walking \/ Answered) => sr.part = 1 /\ sr.chunk = 1 /\ sr.rover = 0 /\ sr.down = 0 /\ ~srfsck
    /\ Walking =>
          /\ sr.part \in 1 .. Len(srobj) + 1 /\ ~srfsck
          /\ sr.pc = "chunks" => sr.part <= Len(srobj) /\ sr.chunk - 1 \in 0 .. Len(srobj[sr.part])
          /\ sr.rover = WalkAt \/ (sr.to <= sr.rover /\ sr.rover <= WalkAt)
          /\ sr.down = SentTo(sr.rover)
    /\ Answered => srfsck = (sr.down # sr.ds) /\ sr.down \in 0 .. sr.ds
    /\ sr.pc = "done" => sr.down = sr.ds
SentFits == srsent = [i \in 1 .. sr.down |-> sr.from + i - 1]
SrInv == SrTypes /\ ParseFits /\ WalkFits /\ SentFits

\* The object as the walk sees it
LEMMA PartFacts ==
    ASSUME SrTypes
    PROVE  /\ Len(srobj) \in Nat /\ PartEnds \in [0 .. Len(srobj) -> Nat] /\ PartEnds[0] = 0
           /\ \A n \in 1 .. Len(srobj) : PartEnds[n] = PartEnds[n - 1] + SrPartSize(n)
           /\ \A i, j \in 0 .. Len(srobj) : i <= j => PartEnds[i] <= PartEnds[j]
           /\ SrSize = PartEnds[Len(srobj)] /\ SrSize \in Nat
           /\ \A n \in 1 .. Len(srobj) :
                 /\ srobj[n] \in Seq(Nat) /\ Len(srobj[n]) \in Nat /\ SrPartSize(n) \in Nat
                 /\ \A c \in 1 .. Len(srobj[n]) : srobj[n][c] \in Nat
<1>1. Len(srobj) \in Nat /\ DOMAIN srobj = 1 .. Len(srobj)
  BY LenProperties DEF SrTypes
<1>2. \A n \in 1 .. Len(srobj) : srobj[n] \in Seq(Nat \ {0})
  BY ElementOfSeq DEF SrTypes
<1>3. ASSUME NEW n \in 1 .. Len(srobj)
      PROVE  /\ srobj[n] \in Seq(Nat) /\ Len(srobj[n]) \in Nat /\ SrPartSize(n) \in Nat
             /\ \A c \in 1 .. Len(srobj[n]) : srobj[n][c] \in Nat
  <2>1. srobj[n] \in Seq(Nat)
    BY <1>2, SeqMonotonic
  <2> QED
    BY <2>1, SrSumsFacts, ElementOfSeq, LenProperties DEF SrPartSize
<1>4. PartSizes = [i \in 1 .. Len(srobj) |-> SrPartSize(i)]
  BY <1>1 DEF PartSizes
<1>5. PartSizes \in Seq(Nat) /\ Len(PartSizes) = Len(srobj)
  <2>1. PartSizes \in [1 .. Len(srobj) -> Nat]
    BY <1>3, <1>4
  <2> QED
    BY <1>1, <2>1
<1>6. \A n \in 1 .. Len(srobj) : PartSizes[n] = SrPartSize(n)
  BY <1>4
<1>7. SrSize = PartEnds[Len(srobj)]
  BY <1>5 DEF SrSize, SrSizeOf, SrPartSize, SrSum, PartEnds, PartSizes
<1>8. SrSize \in Nat
  BY <1>5, SrSumsFacts DEF SrSize, SrSizeOf, SrPartSize, PartSizes
<1> QED
  BY <1>1, <1>3, <1>5, <1>6, <1>7, <1>8, SrSumsFacts DEF PartEnds

LEMMA SrSameObject ==
    ASSUME srobj' = srobj
    PROVE  SrSize' = SrSize /\ PartEnds' = PartEnds /\ Len(srobj') = Len(srobj)
<1>1. PartSizes' = PartSizes
  BY DEF PartSizes, SrPartSize
<1> QED
  BY <1>1 DEF SrSize, PartEnds

LEMMA SrAskStep == ASSUME SrInv, SrAsk PROVE SrInv'
<1>1. sr = [sr EXCEPT !.pc = "idle"] /\ sr.from = 0 /\ sr.to = SrNoLimit /\ sr.part = 1 /\ sr.chunk = 1
      /\ sr.rover = 0 /\ sr.down = 0 /\ ~srfsck /\ sr \in SrRec
  BY DEF SrInv, SrTypes, ParseFits, WalkFits, SrAsk, Walking, Answered, SrRec
<1>2. sr' \in SrRec /\ sr'.pc = "asked" /\ sr'.from = 0 /\ sr'.to = SrNoLimit /\ sr'.part = 1 /\ sr'.chunk = 1
      /\ sr'.rover = 0 /\ sr'.down = 0 /\ srfsck' = srfsck /\ srsent' = srsent
  BY <1>1 DEF SrAsk, SrRec, SrLabels
<1>3. /\ srobj' \in SrObjects /\ srobj' \in Seq(Seq(Nat \ {0}))
      /\ srform' \in {"none", "one", "tail", "other"} /\ srrange' \in (0 .. SrMaxPos) \X (-1 .. SrMaxPos)
  BY SrAssumption DEF SrAsk
<1>4. SrSize' \in Nat
  <2>1. Len(srobj') \in Nat /\ DOMAIN srobj' = 1 .. Len(srobj')
    BY <1>3, LenProperties
  <2>2. ASSUME NEW n \in 1 .. Len(srobj') PROVE SrSum(srobj'[n]) \in Nat
    <3>1. srobj'[n] \in Seq(Nat \ {0})
      BY <1>3, ElementOfSeq
    <3>2. srobj'[n] \in Seq(Nat)
      BY <3>1, SeqMonotonic
    <3> QED
      BY <3>2, SrSumsFacts
  <2>3. [i \in DOMAIN srobj' |-> SrSum(srobj'[i])] \in Seq(Nat)
    BY <2>1, <2>2
  <2> QED
    BY <2>3, SrSumsFacts DEF SrSize, SrSizeOf
<1>5. SrMaxPos \in Nat /\ SrNoLimit \in Nat
  BY SrAssumption DEF SrNoLimit
<1>6. SrTypes'
  <2>1. srfsck' \in BOOLEAN
    BY <1>2 DEF SrInv, SrTypes
  <2>2. sr'.from \in 0 .. SrNoLimit /\ sr'.to \in 0 .. SrNoLimit /\ sr'.rover \in 0 .. SrSize'
    BY <1>2, <1>4, <1>5
  <2>3. SrNoLimit' = SrNoLimit
    BY DEF SrNoLimit
  <2> QED
    BY <1>2, <1>3, <2>1, <2>2, <2>3 DEF SrTypes
<1>7. ParseFits' /\ WalkFits'
  BY <1>1, <1>2 DEF ParseFits, WalkFits, Walking, Answered, SrNoLimit
<1>8. SentFits'
  BY <1>1, <1>2 DEF SentFits, SrInv
<1> QED
  BY <1>6, <1>7, <1>8 DEF SrInv

LEMMA SrParseStep == ASSUME SrInv, SrParse PROVE SrInv'
<1> DEFINE a == srrange[1]  b == srrange[2]
<1>1. sr \in SrRec /\ sr.pc = "asked" /\ sr.from = 0 /\ sr.to = SrNoLimit /\ sr.part = 1 /\ sr.chunk = 1
      /\ sr.rover = 0 /\ sr.down = 0 /\ ~srfsck /\ srsent = [i \in 1 .. 0 |-> i]
  BY DEF SrInv, SrTypes, ParseFits, WalkFits, SentFits, SrParse, Walking, Answered
<1>2. a \in 0 .. SrMaxPos /\ b \in -1 .. SrMaxPos /\ SrNoLimit \in Nat /\ SrMaxPos \in Nat /\ SrNoLimit = SrMaxPos + 2
  BY SrAssumption DEF SrInv, SrTypes, SrNoLimit
<1>3. /\ sr' \in SrRec /\ sr'.part = 1 /\ sr'.chunk = 1 /\ sr'.rover = 0 /\ sr'.down = 0
      /\ sr'.pc = IF srform = "none" THEN "found" ELSE IF srform # "one" THEN "unread"
                  ELSE IF b # -1 /\ b < a THEN "refused" ELSE "found"
      /\ sr'.from = IF srform = "none" \/ sr'.pc \in {"refused", "unread"} THEN 0 ELSE a
      /\ sr'.to = IF srform = "none" \/ sr'.pc \in {"refused", "unread"} \/ b = -1 THEN SrNoLimit ELSE b + 1
  <2> DEFINE pick == IF b = -1 THEN SrNoLimit ELSE b + 1
  <2>0. a \in Int /\ b \in Int /\ pick \in Int
    BY <1>2
  <2>1. sr' = IF srform = "none" THEN [sr EXCEPT !.pc = "found"]
              ELSE IF srform # "one" THEN [sr EXCEPT !.pc = "unread"]
              ELSE IF b # -1 /\ b < a THEN [sr EXCEPT !.pc = "refused"]
              ELSE [sr EXCEPT !.pc = "found", !.from = a, !.to = pick]
    BY DEF SrParse
  <2> HIDE DEF a, b, pick
  <2>2. CASE srform = "none"
    BY <1>1, <2>1, <2>2 DEF SrRec, SrLabels
  <2>5. CASE srform \notin {"none", "one"}
    BY <1>1, <2>1, <2>5 DEF SrRec, SrLabels
  <2>3. CASE srform = "one" /\ b # -1 /\ b < a
    BY <1>1, <2>1, <2>3 DEF SrRec, SrLabels
  <2>4. CASE srform = "one" /\ ~ (b # -1 /\ b < a)
    <3>1. sr' = [sr EXCEPT !.pc = "found", !.from = a, !.to = pick]
      BY <2>1, <2>4
    <3>2. sr' \in SrRec /\ sr'.pc = "found" /\ sr'.from = a /\ sr'.to = pick
          /\ sr'.part = 1 /\ sr'.chunk = 1 /\ sr'.rover = 0 /\ sr'.down = 0
      BY <1>1, <2>0, <3>1 DEF SrRec, SrLabels
    <3> QED
      BY <2>4, <3>2 DEF pick
  <2> QED
    BY <2>2, <2>3, <2>4, <2>5
<1>4. srobj' = srobj /\ srform' = srform /\ srrange' = srrange /\ srsent' = srsent /\ srfsck' = srfsck
  BY DEF SrParse
<1>5. SrSize' = SrSize
  BY <1>4, SrSameObject
<1>6. SrTypes'
  <2>1. sr'.from \in 0 .. SrNoLimit /\ sr'.to \in 0 .. SrNoLimit
    BY <1>2, <1>3
  <2>2. SrNoLimit' = SrNoLimit /\ sr'.rover = sr.rover
    BY <1>1, <1>3 DEF SrNoLimit
  <2> QED
    BY <1>3, <1>4, <1>5, <2>1, <2>2 DEF SrInv, SrTypes
<1>7. ParseFits'
  <2>1. sr'.pc = "refused" => srform = "one" /\ \A x \in Int : ~ (a <= x /\ (b = -1 \/ x <= b))
    BY <1>2, <1>3
  <2>3. sr'.pc = "unread" => srform' \in {"tail", "other"}
    BY <1>3, <1>4 DEF SrInv, SrTypes
  <2>2. sr'.pc = "refused" => \A x \in Int : ~ Named(x)'
    BY <1>4, <2>1 DEF Named
  <2> QED
    BY <1>2, <1>3, <1>4, <2>2, <2>3 DEF ParseFits, Walking, Answered, SrNoLimit
<1>8. WalkFits'
  BY <1>1, <1>3, <1>4 DEF WalkFits, Walking, Answered
<1>9. SentFits'
  BY <1>1, <1>3, <1>4 DEF SentFits
<1> QED
  BY <1>6, <1>7, <1>8, <1>9 DEF SrInv

LEMMA SrStartStep == ASSUME SrInv, SrStart PROVE SrInv'
<1> DEFINE a == srrange[1]  b == srrange[2]
           to == IF sr.to > SrSize THEN SrSize ELSE sr.to
<1>1. sr \in SrRec /\ sr.pc = "found" /\ sr.part = 1 /\ sr.chunk = 1
      /\ sr.rover = 0 /\ sr.down = 0 /\ ~srfsck /\ srsent = [i \in 1 .. 0 |-> i]
  BY DEF SrInv, SrTypes, ParseFits, WalkFits, SentFits, SrStart, Walking, Answered
<1>2. a \in 0 .. SrMaxPos /\ b \in -1 .. SrMaxPos /\ SrNoLimit = SrMaxPos + 2 /\ SrMaxPos \in Nat
      /\ sr.from \in 0 .. SrNoLimit /\ sr.to \in 0 .. SrNoLimit
  BY SrAssumption DEF SrInv, SrTypes, SrNoLimit
<1>3. /\ Len(srobj) \in Nat /\ PartEnds \in [0 .. Len(srobj) -> Nat] /\ PartEnds[0] = 0
      /\ SrSize = PartEnds[Len(srobj)] /\ SrSize \in Nat
  BY PartFacts DEF SrInv
<1>4. IF srform = "none" THEN sr.from = 0 /\ sr.to = SrNoLimit
      ELSE srform = "one" /\ sr.from = a /\ IF b = -1 THEN sr.to = SrNoLimit ELSE sr.to = b + 1 /\ a <= b
  BY <1>1 DEF SrInv, ParseFits
<1>5. /\ sr' \in SrRec /\ sr'.part = 1 /\ sr'.chunk = 1 /\ sr'.rover = 0 /\ sr'.down = 0 /\ sr'.from = sr.from
      /\ \/ sr'.pc = "refused" /\ sr.from > SrSize /\ sr'.to = sr.to
         \/ sr'.pc = "limited" /\ sr.from <= SrSize /\ sr'.to = sr.to
         \/ sr'.pc = "parts" /\ sr.from <= SrSize /\ sr'.to = to /\ sr'.ds = to - sr.from
  <2>1. to \in Int /\ sr.from \in Int /\ to - sr.from \in Int
    BY <1>2, <1>3
  <2>2. \/ sr.from > SrSize /\ sr' = [sr EXCEPT !.pc = "refused"]
        \/ sr.from <= SrSize /\ sr' = [sr EXCEPT !.pc = "limited"]
        \/ sr.from <= SrSize /\ sr' = [sr EXCEPT !.pc = "parts", !.to = to, !.ds = to - sr.from]
    BY <1>3, <2>1 DEF SrStart
  <2> HIDE DEF to
  <2>3. CASE sr.from > SrSize /\ sr' = [sr EXCEPT !.pc = "refused"]
    BY <1>1, <2>3 DEF SrRec, SrLabels
  <2>4. CASE sr.from <= SrSize /\ sr' = [sr EXCEPT !.pc = "limited"]
    BY <1>1, <2>4 DEF SrRec, SrLabels
  <2>5. CASE sr.from <= SrSize /\ sr' = [sr EXCEPT !.pc = "parts", !.to = to, !.ds = to - sr.from]
    BY <1>1, <2>1, <2>5 DEF SrRec, SrLabels
  <2> QED
    BY <2>2, <2>3, <2>4, <2>5
<1>6. srobj' = srobj /\ srform' = srform /\ srrange' = srrange /\ srsent' = srsent /\ srfsck' = srfsck
  BY DEF SrStart
<1>7. SrSize' = SrSize /\ PartEnds' = PartEnds /\ SrNoLimit' = SrNoLimit
  BY <1>6, SrSameObject DEF SrNoLimit
<1>8. SrTypes'
  <2>1. sr'.from \in 0 .. SrNoLimit /\ sr'.to \in 0 .. SrNoLimit /\ sr'.rover = sr.rover
    <3>1. sr'.to = sr.to \/ sr'.to = to
      BY <1>5
    <3>2. to \in 0 .. SrNoLimit
      BY <1>2, <1>3
    <3> HIDE DEF to
    <3> QED
      BY <1>1, <1>2, <1>5, <3>1, <3>2
  <2> QED
    BY <1>5, <1>6, <1>7, <2>1 DEF SrInv, SrTypes
<1>9. ASSUME NEW x \in Int PROVE Named(x)' <=> Named(x)
  BY <1>6, <1>7 DEF Named
<1>10. CASE sr'.pc = "refused"
  <2>4. sr.from > SrSize
    BY <1>5, <1>10
  <2>1. \A x \in Int : ~ Named(x)
    BY <1>2, <1>3, <1>4, <2>4 DEF Named
  <2>2. ParseFits'
    BY <1>5, <1>9, <1>10, <2>1 DEF ParseFits, Walking, Answered
  <2>3. WalkFits'
    BY <1>1, <1>5, <1>6, <1>10 DEF WalkFits, Walking, Answered
  <2> QED
    BY <1>1, <1>5, <1>6, <1>8, <2>2, <2>3 DEF SrInv, SentFits
<1>12. CASE sr'.pc = "limited"
  <2>1. ParseFits'
    BY <1>5, <1>12 DEF ParseFits, Walking, Answered
  <2>2. WalkFits'
    BY <1>1, <1>5, <1>6, <1>12 DEF WalkFits, Walking, Answered
  <2> QED
    BY <1>1, <1>5, <1>6, <1>8, <2>1, <2>2 DEF SrInv, SentFits
<1>11. CASE sr'.pc = "parts"
  <2>1. sr.from <= SrSize /\ sr'.to = to /\ sr'.ds = to - sr.from /\ to \in Int /\ to <= SrSize
    BY <1>2, <1>3, <1>5, <1>11
  <2>2. sr.from <= to
    BY <1>2, <1>3, <1>4, <2>1
  <2>0. SrSize <= SrNoLimit
    <3>1. CASE srobj = << >>
      <4>1. Len(srobj) = 0
        BY <3>1
      <4> QED
        BY <1>2, <1>3, <4>1
    <3>2. CASE srobj \in SrObjects
      BY <3>2, SrAssumption DEF SrSize
    <3> QED
      BY <3>1, <3>2 DEF SrInv, SrTypes
  <2>3. ASSUME NEW x \in Int PROVE Named(x) <=> (sr.from <= x /\ x < to)
    BY <1>2, <1>3, <1>4, <2>0, <2>1 DEF Named
  <2>4. ParseFits'
    BY <1>5, <1>7, <1>9, <1>11, <2>1, <2>2, <2>3 DEF ParseFits, Walking, Answered
  <2>5. WalkAt' = 0
    BY <1>3, <1>5, <1>7, <1>11, <2>1 DEF WalkAt
  <2>6. SentTo(sr.rover)' = 0
    BY <1>2, <1>5 DEF SentTo
  <2>7. WalkFits'
    BY <1>1, <1>3, <1>5, <1>6, <1>11, <2>1, <2>5, <2>6 DEF WalkFits, Walking, Answered
  <2> QED
    BY <1>1, <1>5, <1>6, <1>8, <2>4, <2>7 DEF SrInv, SentFits
<1> QED
  BY <1>5, <1>10, <1>11, <1>12

\* What a step writes into the record of the walk
LEMMA RecToChunks ==
    ASSUME NEW r \in SrRec, NEW u, u = [r EXCEPT !.pc = "chunks", !.chunk = 1]
    PROVE  /\ u \in SrRec /\ u.pc = "chunks" /\ u.from = r.from /\ u.to = r.to /\ u.ds = r.ds
           /\ u.part = r.part /\ u.rover = r.rover /\ u.down = r.down /\ u.chunk = 1
<1>1. u = [pc |-> "chunks", from |-> r.from, to |-> r.to, ds |-> r.ds, part |-> r.part, chunk |-> 1, rover |-> r.rover, down |-> r.down]
  BY DEF SrRec
<1> QED
  BY <1>1 DEF SrRec, SrLabels
\* What is sent goes on where it was.
LEMMA RunOn ==
    ASSUME NEW f \in Int, NEW d \in Nat, NEW m \in Nat, NEW b \in Int, b = f + d
    PROVE  [i \in 1 .. d |-> f + i - 1] \o [i \in 1 .. m |-> b + i - 1] = [i \in 1 .. d + m |-> f + i - 1]
<1> DEFINE w == [i \in 1 .. d |-> f + i - 1]
           u == [i \in 1 .. m |-> b + i - 1]
<1>1. w \in Seq(Int) /\ Len(w) = d /\ u \in Seq(Int) /\ Len(u) = m
  OBVIOUS
<1>2. ASSUME NEW i \in 1 .. d + m PROVE (w \o u)[i] = f + i - 1
  <2>1. CASE i <= d
    BY <1>1, <2>1
  <2>2. CASE i > d
    <3>1. i - d \in 1 .. m /\ (w \o u)[i] = u[i - d]
      BY <1>1, <2>2
    <3> QED
      BY <3>1
  <2> QED
    BY <2>1, <2>2
<1>3. w \o u = [i \in 1 .. d + m |-> (w \o u)[i]]
  BY <1>1
<1> HIDE DEF w, u
<1> QED
  BY <1>2, <1>3
\* What a walking state is, said of its numbers
LEMMA WalkNumbers ==
    ASSUME SrInv, Walking
    PROVE  /\ sr \in SrRec /\ sr.from \in Nat /\ sr.to \in Nat /\ sr.rover \in Nat /\ sr.part \in Nat
           /\ sr.from <= sr.to /\ sr.to <= SrSize /\ sr.ds = sr.to - sr.from /\ sr.down = SentTo(sr.rover)
           /\ sr.part \in 1 .. Len(srobj) + 1 /\ Len(srobj) \in Nat /\ SrSize \in Nat
           /\ sr.rover = WalkAt \/ (sr.to <= sr.rover /\ sr.rover <= WalkAt)
           /\ ~srfsck
           /\ sr.down \in 0 .. sr.to - sr.from
<1>1. sr \in SrRec /\ sr.from \in Nat /\ sr.to \in Nat /\ sr.rover \in Nat /\ Len(srobj) \in Nat /\ SrSize \in Nat
  BY PartFacts DEF SrInv, SrTypes
<1>2. /\ sr.from <= sr.to /\ sr.to <= SrSize /\ sr.ds = sr.to - sr.from /\ sr.down = SentTo(sr.rover)
      /\ sr.part \in 1 .. Len(srobj) + 1
      /\ sr.rover = WalkAt \/ (sr.to <= sr.rover /\ sr.rover <= WalkAt)
  BY DEF SrInv, ParseFits, WalkFits
<1>3. ~srfsck
  BY DEF SrInv, WalkFits
<1>4. sr.down \in 0 .. sr.to - sr.from
  BY <1>1, <1>2 DEF SentTo
<1> QED
  BY <1>1, <1>2, <1>3, <1>4

LEMMA SrPartStep == ASSUME SrInv, SrPart PROVE SrInv'
<1> DEFINE re == sr.rover + SrPartSize(sr.part)
<1>0. Walking /\ sr.pc = "parts" /\ sr.part <= Len(srobj)
  BY DEF SrPart, Walking
<1>1. /\ sr \in SrRec /\ sr.from \in Nat /\ sr.to \in Nat /\ sr.rover \in Nat
      /\ sr.from <= sr.to /\ sr.to <= SrSize /\ sr.down = SentTo(sr.rover)
      /\ sr.part \in 1 .. Len(srobj) /\ Len(srobj) \in Nat /\ SrSize \in Nat
      /\ ~srfsck
  BY <1>0, WalkNumbers
<1>2. /\ PartEnds \in [0 .. Len(srobj) -> Nat] /\ SrSize = PartEnds[Len(srobj)]
      /\ PartEnds[sr.part] = PartEnds[sr.part - 1] + SrPartSize(sr.part)
      /\ PartEnds[sr.part] <= SrSize /\ PartEnds[sr.part - 1] \in Nat
      /\ SrPartSize(sr.part) \in Nat /\ srobj[sr.part] \in Seq(Nat)
  <2>1. sr.part - 1 \in 0 .. Len(srobj) /\ sr.part \in 0 .. Len(srobj) /\ Len(srobj) \in 0 .. Len(srobj)
    BY <1>1
  <2> QED
    BY <1>1, <2>1, PartFacts DEF SrInv
<1>3. srobj' = srobj /\ srform' = srform /\ srrange' = srrange /\ srsent' = srsent /\ srfsck' = srfsck
  BY DEF SrPart
<1>4. SrSize' = SrSize /\ PartEnds' = PartEnds /\ SrNoLimit' = SrNoLimit /\ Len(srobj') = Len(srobj)
  BY <1>3, SrSameObject DEF SrNoLimit
<1>5. sr.rover = PartEnds[sr.part - 1] \/ (sr.to <= sr.rover /\ sr.rover <= PartEnds[sr.part - 1])
  BY <1>0, WalkNumbers DEF WalkAt
<1>6. CASE re < sr.from \/ sr.rover >= sr.to
  <2>1. sr' = [sr EXCEPT !.part = @ + 1, !.rover = re]
    BY <1>6 DEF SrPart
  <2>2. re \in Nat /\ re \in Int /\ sr.part + 1 \in Int
    BY <1>1, <1>2
  <2> HIDE DEF re
  <2>3. /\ sr' \in SrRec /\ sr'.pc = "parts" /\ sr'.from = sr.from /\ sr'.to = sr.to /\ sr'.ds = sr.ds
        /\ sr'.part = sr.part + 1 /\ sr'.rover = re /\ sr'.down = sr.down
    BY <1>0, <1>1, <2>1, <2>2 DEF SrRec
  <2> USE DEF re
  <2>4. WalkAt' = PartEnds[sr.part]
    <3>1. sr'.part - 1 = sr.part /\ sr'.pc # "chunks" /\ PartEnds' = PartEnds
      BY <1>1, <1>4, <2>3
    <3>2. WalkAt' = PartEnds'[sr'.part - 1]
      BY <3>1 DEF WalkAt
    <3> QED
      BY <3>1, <3>2
  <2>5. re = PartEnds[sr.part] \/ (sr.to <= re /\ re <= PartEnds[sr.part])
    BY <1>1, <1>2, <1>5
  <2>6. re <= SrSize
    BY <1>1, <1>2, <2>5
  <2>7. SentTo(sr.rover)' = SentTo(sr.rover)
    BY <1>1, <1>2, <1>6, <2>3 DEF SentTo
  <2>8. SrTypes'
    BY <1>3, <1>4, <2>2, <2>3, <2>6 DEF SrInv, SrTypes
  <2>9. ParseFits'
    <3>1. \A x \in Int : Named(x)' <=> Named(x)
      BY <1>3, <1>4 DEF Named
    <3> QED
      BY <1>0, <1>4, <2>3, <3>1 DEF SrInv, ParseFits, Walking, Answered
  <2>10. WalkFits'
    <3>1. sr'.part \in 1 .. Len(srobj) + 1
      BY <1>1, <2>3
    <3> QED
      BY <1>1, <1>3, <1>4, <2>3, <2>4, <2>5, <2>7, <3>1 DEF WalkFits, Walking, Answered
  <2>11. SentFits'
    BY <1>3, <2>3 DEF SrInv, SentFits
  <2> QED
    BY <2>8, <2>9, <2>10, <2>11 DEF SrInv
<1>7. CASE ~ (re < sr.from \/ sr.rover >= sr.to)
  <2>1. sr' = [sr EXCEPT !.pc = "chunks", !.chunk = 1]
    BY <1>7 DEF SrPart
  <2>0. sr \in SrRec
    BY <1>1
  <2> HIDE DEF re
  <2>2. /\ sr' \in SrRec /\ sr'.pc = "chunks" /\ sr'.from = sr.from /\ sr'.to = sr.to /\ sr'.ds = sr.ds
        /\ sr'.part = sr.part /\ sr'.rover = sr.rover /\ sr'.down = sr.down /\ sr'.chunk = 1
    BY <2>0, <2>1, RecToChunks
  <2>3. SrSums(srobj[sr.part])[0] = 0 /\ Len(srobj[sr.part]) \in Nat
    BY <1>2, SrSumsFacts
  <2>4. WalkAt' = PartEnds[sr.part - 1]
    <3>1. WalkAt' = PartEnds[sr.part - 1] + SrSums(srobj[sr.part])[1 - 1]
      BY <1>3, <1>4, <2>2 DEF WalkAt
    <3> QED
      BY <1>2, <2>3, <3>1
  <2>5. SentTo(sr.rover)' = SentTo(sr.rover)
    BY <2>2 DEF SentTo
  <2>8. SrTypes'
    BY <1>3, <1>4, <2>2 DEF SrInv, SrTypes
  <2>9. ParseFits'
    <3>1. \A x \in Int : Named(x)' <=> Named(x)
      BY <1>3, <1>4 DEF Named
    <3> QED
      BY <1>0, <1>4, <2>2, <3>1 DEF SrInv, ParseFits, Walking, Answered
  <2>10. WalkFits'
    <3>1. sr'.part \in 1 .. Len(srobj) + 1 /\ sr'.chunk - 1 \in 0 .. Len(srobj[sr.part])
      BY <1>1, <2>2, <2>3
    <3> QED
      BY <1>1, <1>3, <1>4, <1>5, <2>2, <2>4, <2>5, <3>1 DEF WalkFits, Walking, Answered
  <2>11. SentFits'
    BY <1>3, <2>2 DEF SrInv, SentFits
  <2> QED
    BY <2>8, <2>9, <2>10, <2>11 DEF SrInv
<1> QED
  BY <1>6, <1>7

LEMMA SrLostStep == ASSUME SrInv, SrLost PROVE SrInv'
<1>0. Walking
  BY DEF SrLost, Walking
<1>1. sr \in SrRec /\ sr.down \in 0 .. sr.ds /\ sr.from \in Int
  BY <1>0, WalkNumbers
<1>2. /\ sr' \in SrRec /\ sr'.pc = "cut" /\ sr'.from = sr.from /\ sr'.to = sr.to /\ sr'.ds = sr.ds
      /\ sr'.rover = sr.rover /\ sr'.down = sr.down
  BY <1>1 DEF SrLost, SrRec, SrLabels
<1>3. srobj' = srobj /\ srform' = srform /\ srrange' = srrange /\ srsent' = srsent /\ srfsck' = (sr.down # sr.ds)
  BY DEF SrLost
<1>4. SrSize' = SrSize /\ SrNoLimit' = SrNoLimit
  BY <1>3, SrSameObject DEF SrNoLimit
<1>5. SrTypes'
  BY <1>2, <1>3, <1>4 DEF SrInv, SrTypes
<1>6. ParseFits'
  <2>1. \A x \in Int : Named(x)' <=> Named(x)
    BY <1>3, <1>4 DEF Named
  <2> QED
    BY <1>0, <1>2, <1>4, <2>1 DEF SrInv, ParseFits, Walking, Answered
<1>7. WalkFits'
  BY <1>1, <1>2, <1>3 DEF WalkFits, Walking, Answered
<1>8. SentFits'
  BY <1>2, <1>3 DEF SrInv, SentFits
<1> QED
  BY <1>5, <1>6, <1>7, <1>8 DEF SrInv

LEMMA SrDoneStep == ASSUME SrInv, SrDone PROVE SrInv'
<1>0. Walking /\ sr.pc = "parts" /\ sr.part > Len(srobj)
  BY DEF SrDone, Walking
<1>1. sr \in SrRec /\ sr.down \in 0 .. sr.ds /\ sr.from \in Int
  BY <1>0, WalkNumbers
<1>2. sr.down = sr.ds
  <2>1. sr.part - 1 = Len(srobj)
    BY <1>0, WalkNumbers
  <2>2. WalkAt = SrSize
    BY <1>0, <2>1, PartFacts DEF WalkAt, SrInv
  <2> QED
    BY <1>0, <2>2, WalkNumbers DEF SentTo
<1>3. /\ sr' \in SrRec /\ sr'.pc = "done" /\ sr'.from = sr.from /\ sr'.to = sr.to /\ sr'.ds = sr.ds
      /\ sr'.rover = sr.rover /\ sr'.down = sr.down
  BY <1>1 DEF SrDone, SrRec, SrLabels
<1>4. srobj' = srobj /\ srform' = srform /\ srrange' = srrange /\ srsent' = srsent /\ srfsck' = (sr.down # sr.ds)
  BY DEF SrDone
<1>5. SrSize' = SrSize /\ SrNoLimit' = SrNoLimit
  BY <1>4, SrSameObject DEF SrNoLimit
<1>6. SrTypes'
  BY <1>3, <1>4, <1>5 DEF SrInv, SrTypes
<1>7. ParseFits'
  <2>1. \A x \in Int : Named(x)' <=> Named(x)
    BY <1>4, <1>5 DEF Named
  <2> QED
    BY <1>0, <1>3, <1>5, <2>1 DEF SrInv, ParseFits, Walking, Answered
<1>8. WalkFits'
  BY <1>1, <1>2, <1>3, <1>4 DEF WalkFits, Walking, Answered
<1>9. SentFits'
  BY <1>3, <1>4 DEF SrInv, SentFits
<1> QED
  BY <1>6, <1>7, <1>8, <1>9 DEF SrInv

LEMMA SrChunkStep == ASSUME SrInv, SrChunk PROVE SrInv'
<1> DEFINE len == srobj[sr.part][sr.chunk]
           re  == sr.rover + len
           out == re < sr.from \/ sr.rover >= sr.to
           s   == IF sr.from > sr.rover THEN sr.from - sr.rover ELSE 0
           e   == IF sr.to <= re THEN sr.to - sr.rover ELSE len
           last == sr.chunk = Len(srobj[sr.part])
           rov == IF out THEN re ELSE sr.rover + e
           dow == IF out THEN sr.down ELSE sr.down + e - s
           sums == SrSums(srobj[sr.part])
<1>0. Walking /\ sr.pc = "chunks" /\ sr.chunk <= Len(srobj[sr.part])
  BY DEF SrChunk, Walking
<1>1. /\ sr \in SrRec /\ sr.from \in Nat /\ sr.to \in Nat /\ sr.rover \in Nat
      /\ sr.from <= sr.to /\ sr.to <= SrSize /\ sr.down = SentTo(sr.rover) /\ sr.ds = sr.to - sr.from
      /\ sr.part \in 1 .. Len(srobj) /\ Len(srobj) \in Nat /\ SrSize \in Nat
      /\ ~srfsck /\ sr.chunk - 1 \in 0 .. Len(srobj[sr.part]) /\ sr.chunk \in Int
  <2>1. sr.part <= Len(srobj) /\ sr.chunk - 1 \in 0 .. Len(srobj[sr.part])
    BY <1>0 DEF SrInv, WalkFits
  <2> QED
    BY <1>0, <2>1, WalkNumbers DEF SrRec
<1>2. /\ PartEnds \in [0 .. Len(srobj) -> Nat] /\ SrSize = PartEnds[Len(srobj)]
      /\ PartEnds[sr.part] = PartEnds[sr.part - 1] + SrPartSize(sr.part)
      /\ PartEnds[sr.part] <= SrSize /\ PartEnds[sr.part - 1] \in Nat /\ PartEnds[sr.part] \in Nat
      /\ SrPartSize(sr.part) \in Nat /\ srobj[sr.part] \in Seq(Nat)
  <2>1. sr.part - 1 \in 0 .. Len(srobj) /\ sr.part \in 0 .. Len(srobj) /\ Len(srobj) \in 0 .. Len(srobj)
    BY <1>1
  <2>2. SrTypes
    BY DEF SrInv
  <2>3. /\ PartEnds \in [0 .. Len(srobj) -> Nat] /\ SrSize = PartEnds[Len(srobj)]
        /\ PartEnds[sr.part] = PartEnds[sr.part - 1] + SrPartSize(sr.part)
        /\ SrPartSize(sr.part) \in Nat /\ srobj[sr.part] \in Seq(Nat)
    BY <1>1, <2>2, PartFacts
  <2>4. PartEnds[sr.part] <= PartEnds[Len(srobj)]
    BY <1>1, <2>1, <2>2, PartFacts
  <2> QED
    BY <2>1, <2>3, <2>4
<1>3. /\ Len(srobj[sr.part]) \in Nat /\ sr.chunk \in 1 .. Len(srobj[sr.part])
      /\ len \in Nat /\ sums[sr.chunk] = sums[sr.chunk - 1] + len /\ sums[sr.chunk - 1] \in Nat
      /\ sums[sr.chunk] <= SrPartSize(sr.part) /\ sums[Len(srobj[sr.part])] = SrPartSize(sr.part)
  <2>1. Len(srobj[sr.part]) \in Nat /\ sr.chunk \in 1 .. Len(srobj[sr.part])
    BY <1>0, <1>1, <1>2, LenProperties
  <2>2. len \in Nat
    BY <1>2, <2>1, ElementOfSeq
  <2>3. sr.chunk - 1 \in 0 .. Len(srobj[sr.part]) /\ sr.chunk \in 0 .. Len(srobj[sr.part])
        /\ Len(srobj[sr.part]) \in 0 .. Len(srobj[sr.part]) /\ sr.chunk <= Len(srobj[sr.part])
    BY <2>1
  <2>4. SrPartSize(sr.part) = sums[Len(srobj[sr.part])]
    BY DEF SrPartSize, SrSum
  <2> QED
    BY <1>2, <2>1, <2>2, <2>3, <2>4, SrSumsFacts
<1>4. srobj' = srobj /\ srform' = srform /\ srrange' = srrange /\ srfsck' = srfsck
      /\ srsent' = IF out THEN srsent ELSE srsent \o [i \in 1 .. e - s |-> sr.rover + s + i - 1]
  BY DEF SrChunk
<1>5. SrSize' = SrSize /\ PartEnds' = PartEnds /\ SrNoLimit' = SrNoLimit /\ Len(srobj') = Len(srobj)
  BY <1>4, SrSameObject DEF SrNoLimit
<1>6. WalkAt = PartEnds[sr.part - 1] + sums[sr.chunk - 1]
  BY <1>0 DEF WalkAt
<1>7. sr.rover = WalkAt \/ (sr.to <= sr.rover /\ sr.rover <= WalkAt)
  BY <1>0, WalkNumbers
<1> DEFINE wa == PartEnds[sr.part - 1] + sums[sr.chunk - 1]
           wb == PartEnds[sr.part - 1] + sums[sr.chunk]
<1>8. /\ wa \in Nat /\ wb = wa + len
      /\ sr.rover = wa \/ (sr.to <= sr.rover /\ sr.rover <= wa)
      /\ wb <= SrSize
  <2> DEFINE pa == PartEnds[sr.part - 1]  pb == PartEnds[sr.part]  sz == SrPartSize(sr.part)
             sa == sums[sr.chunk - 1]  sb == sums[sr.chunk]
  <2>0. /\ wa = pa + sa /\ wb = pa + sb /\ pa \in Nat /\ sa \in Nat /\ len \in Nat /\ pb = pa + sz /\ sz \in Nat
        /\ sb = sa + len /\ sb <= sz /\ pb <= SrSize /\ SrSize \in Nat
    BY <1>1, <1>2, <1>3
  <2>1. wa \in Nat /\ wb = wa + len /\ wb \in Nat
    <3> HIDE DEF wa, wb, pa, pb, sa, sb, sz, len
    <3> QED
      BY <2>0
  <2>3. wb <= SrSize
    <3> HIDE DEF wa, wb, pa, pb, sa, sb, sz, len
    <3> QED
      BY <2>0, <2>1
  <2>4. sr.rover = wa \/ (sr.to <= sr.rover /\ sr.rover <= wa)
    BY <1>6, <1>7
  <2> QED
    BY <2>1, <2>3, <2>4
<1>9. IF out
      THEN /\ re = wa + len \/ (sr.to <= re /\ re <= wa + len)
           /\ sr.down = IF re <= sr.from THEN 0 ELSE IF re >= sr.to THEN sr.to - sr.from ELSE re - sr.from
      ELSE /\ sr.rover + e \in Nat
           /\ sr.rover + e = wa + len \/ (sr.to <= sr.rover + e /\ sr.rover + e <= wa + len)
           /\ sr.down + e - s = IF sr.rover + e <= sr.from THEN 0
                                ELSE IF sr.rover + e >= sr.to THEN sr.to - sr.from ELSE sr.rover + e - sr.from
           /\ sr.from + sr.down = sr.rover + s /\ e - s \in Nat /\ sr.down \in Nat
  <2>1. sr.down = IF sr.rover <= sr.from THEN 0 ELSE IF sr.rover >= sr.to THEN sr.to - sr.from ELSE sr.rover - sr.from
    BY <1>1 DEF SentTo
  <2>2. /\ sr.from \in Nat /\ sr.to \in Nat /\ sr.rover \in Nat /\ wa \in Nat /\ len \in Nat /\ sr.from <= sr.to
        /\ sr.rover = wa \/ (sr.to <= sr.rover /\ sr.rover <= wa)
    BY <1>1, <1>3, <1>8
  <2> HIDE DEF wa, len
  <2>3. CASE out
    BY <2>1, <2>2, <2>3
  <2>4. CASE ~out
    <3>1. sr.rover = wa /\ e \in Nat /\ s \in Nat /\ sr.down \in Nat
      BY <2>1, <2>2, <2>4
    <3>2. CASE sr.from > sr.rover
      BY <2>1, <2>2, <2>4, <3>1, <3>2
    <3>3. CASE ~ (sr.from > sr.rover)
      BY <2>1, <2>2, <2>4, <3>1, <3>3
    <3> QED
      BY <3>2, <3>3
  <2> QED
    BY <2>3, <2>4
<1>10. /\ rov \in Nat
       /\ rov = wb \/ (sr.to <= rov /\ rov <= wb)
       /\ rov <= SrSize /\ dow \in Int
       /\ dow = IF rov <= sr.from THEN 0 ELSE IF rov >= sr.to THEN sr.to - sr.from ELSE rov - sr.from
       /\ ~out => sr.from + sr.down = sr.rover + s /\ e - s \in Nat /\ sr.down \in Nat
  <2>0. sr.rover \in Nat /\ len \in Nat /\ re \in Nat /\ sr.from \in Nat /\ sr.to \in Nat /\ SrSize \in Nat
    BY <1>1, <1>3
  <2>1. CASE out
    <3>1. rov = re /\ dow = sr.down
      BY <2>1
    <3> HIDE DEF rov, dow, re, wa, wb, out
    <3> QED
      BY <1>8, <1>9, <2>0, <2>1, <3>1
  <2>2. CASE ~out
    <3>1. rov = sr.rover + e /\ dow = sr.down + e - s
      BY <2>2
    <3>2. /\ sr.rover + e \in Nat
          /\ sr.rover + e = wa + len \/ (sr.to <= sr.rover + e /\ sr.rover + e <= wa + len)
          /\ sr.down + e - s = IF sr.rover + e <= sr.from THEN 0
                               ELSE IF sr.rover + e >= sr.to THEN sr.to - sr.from ELSE sr.rover + e - sr.from
          /\ sr.from + sr.down = sr.rover + s /\ e - s \in Nat /\ sr.down \in Nat
      BY <1>9, <2>2
    <3>0. e \in Int /\ s \in Int
      BY <2>0
    <3> HIDE DEF rov, dow, re, wa, wb, out, s, e
    <3>3. /\ rov \in Nat
          /\ rov = wb \/ (sr.to <= rov /\ rov <= wb)
          /\ dow = IF rov <= sr.from THEN 0 ELSE IF rov >= sr.to THEN sr.to - sr.from ELSE rov - sr.from
      <4>1. wb = wa + len
        BY <1>8
      <4>2. dow = IF rov <= sr.from THEN 0 ELSE IF rov >= sr.to THEN sr.to - sr.from ELSE rov - sr.from
        <5>1. sr.down + e - s = IF sr.rover + e <= sr.from THEN 0
                               ELSE IF sr.rover + e >= sr.to THEN sr.to - sr.from ELSE sr.rover + e - sr.from
          BY <3>2
        <5> QED
          BY <2>0, <3>0, <3>1, <3>2, <5>1
      <4> QED
        BY <3>1, <3>2, <4>1, <4>2
    <3>4. dow \in Int /\ wb \in Nat
      BY <1>8, <2>0, <3>3
    <3>5. rov <= SrSize
      BY <1>8, <2>0, <3>3, <3>4
    <3> QED
      BY <3>2, <3>3, <3>4, <3>5
  <2> QED
    BY <2>1, <2>2
<1>11. sr' = IF last THEN [sr EXCEPT !.rover = rov, !.down = dow, !.pc = "parts", !.part = @ + 1]
             ELSE [sr EXCEPT !.rover = rov, !.down = dow, !.chunk = @ + 1]
  <2>1. sr' = LET at == [sr EXCEPT !.rover = rov, !.down = dow]
              IN IF last THEN [at EXCEPT !.pc = "parts", !.part = @ + 1] ELSE [at EXCEPT !.chunk = @ + 1]
    BY DEF SrChunk
  <2> HIDE DEF rov, dow, last
  <2> QED
    BY <1>1, <2>1 DEF SrRec
<1> HIDE DEF rov, dow, last, wa
<1>12. /\ sr' \in SrRec /\ sr'.from = sr.from /\ sr'.to = sr.to /\ sr'.ds = sr.ds /\ sr'.rover = rov /\ sr'.down = dow
       /\ last => sr'.pc = "parts" /\ sr'.part = sr.part + 1
       /\ ~last => sr'.pc = "chunks" /\ sr'.part = sr.part /\ sr'.chunk = sr.chunk + 1
  <2>1. sr \in SrRec /\ rov \in Int /\ dow \in Int /\ sr.pc = "chunks"
    BY <1>0, <1>1, <1>10
  <2>2. CASE last
    <3>1. sr' = [sr EXCEPT !.rover = rov, !.down = dow, !.pc = "parts", !.part = @ + 1]
      BY <1>11, <2>2
    <3>2. /\ sr' \in SrRec /\ sr'.pc = "parts" /\ sr'.from = sr.from /\ sr'.to = sr.to /\ sr'.ds = sr.ds
          /\ sr'.part = sr.part + 1 /\ sr'.rover = rov /\ sr'.down = dow
      <4>1. sr' = [pc |-> "parts", from |-> sr.from, to |-> sr.to, ds |-> sr.ds, part |-> sr.part + 1, chunk |-> sr.chunk, rover |-> rov, down |-> dow]
        BY <2>1, <3>1 DEF SrRec
      <4>2. sr.part + 1 \in Int
        BY <1>1
      <4> QED
        BY <2>1, <4>1, <4>2 DEF SrRec, SrLabels
    <3> QED
      BY <2>2, <3>2
  <2>3. CASE ~last
    <3>1. sr' = [sr EXCEPT !.rover = rov, !.down = dow, !.chunk = @ + 1]
      BY <1>11, <2>3
    <3>2. /\ sr' \in SrRec /\ sr'.pc = sr.pc /\ sr'.from = sr.from /\ sr'.to = sr.to /\ sr'.ds = sr.ds
          /\ sr'.part = sr.part /\ sr'.rover = rov /\ sr'.down = dow /\ sr'.chunk = sr.chunk + 1
      <4>1. sr' = [pc |-> sr.pc, from |-> sr.from, to |-> sr.to, ds |-> sr.ds, part |-> sr.part, chunk |-> sr.chunk + 1, rover |-> rov, down |-> dow]
        BY <2>1, <3>1 DEF SrRec
      <4>2. sr.chunk + 1 \in Int
        BY <1>1
      <4> QED
        BY <2>1, <4>1, <4>2 DEF SrRec, SrLabels
    <3> QED
      BY <2>1, <2>3, <3>2
  <2> QED
    BY <2>2, <2>3
<1>13. WalkAt' = PartEnds[sr.part - 1] + sums[sr.chunk]
  <2>1. CASE last
    <3>0. sr'.part = sr.part + 1 /\ sr'.pc = "parts"
      BY <1>12, <2>1
    <3>1. sr'.part - 1 = sr.part /\ sr'.pc # "chunks" /\ PartEnds' = PartEnds
      BY <1>1, <1>5, <3>0
    <3>2. WalkAt' = PartEnds'[sr'.part - 1]
      BY <3>1 DEF WalkAt
    <3>3. sums[sr.chunk] = SrPartSize(sr.part)
      BY <1>3, <2>1 DEF last
    <3> QED
      BY <1>2, <3>1, <3>2, <3>3
  <2>2. CASE ~last
    <3>1. sr'.part = sr.part /\ sr'.pc = "chunks" /\ PartEnds' = PartEnds /\ sr'.chunk - 1 = sr.chunk
      BY <1>1, <1>5, <1>12, <2>2
    <3>2. WalkAt' = PartEnds'[sr'.part - 1] + SrSums(srobj'[sr'.part])[sr'.chunk - 1]
      BY <3>1 DEF WalkAt
    <3> QED
      BY <1>4, <3>1, <3>2
  <2> QED
    BY <2>1, <2>2
<1>14. SentTo(sr.rover)' = dow
  BY <1>10, <1>12 DEF SentTo
<1>15. SrTypes'
  BY <1>4, <1>5, <1>10, <1>12 DEF SrInv, SrTypes
<1>16. Walking'
  BY <1>12 DEF Walking
<1>17. ParseFits'
  <2>1. \A x \in Int : Named(x)' <=> Named(x)
    BY <1>4, <1>5 DEF Named
  <2>2. sr'.pc \notin {"idle", "asked", "found", "refused"}
    BY <1>12
  <2> QED
    BY <1>0, <1>5, <1>12, <1>16, <2>1, <2>2 DEF SrInv, ParseFits
<1>18. WalkFits'
  <2>1. sr'.part \in 1 .. Len(srobj) + 1
    BY <1>1, <1>12
  <2>2. sr'.pc = "chunks" => sr'.part <= Len(srobj) /\ sr'.chunk - 1 \in 0 .. Len(srobj[sr'.part])
    BY <1>1, <1>3, <1>12 DEF last
  <2>3. sr'.rover = WalkAt' \/ (sr'.to <= sr'.rover /\ sr'.rover <= WalkAt')
    BY <1>10, <1>12, <1>13
  <2>4. sr'.pc \notin {"cut", "done"}
    BY <1>12
  <2> QED
    BY <1>1, <1>4, <1>5, <1>12, <1>14, <1>16, <2>1, <2>2, <2>3, <2>4 DEF WalkFits, Answered
<1>19. SentFits'
  <2>1. srsent = [i \in 1 .. sr.down |-> sr.from + i - 1]
    BY DEF SrInv, SentFits
  <2>2. CASE out
    BY <1>4, <1>12, <2>1, <2>2 DEF SentFits, dow
  <2>3. CASE ~out
    <3> DEFINE m == e - s
               b == sr.rover + s
    <3>1. srsent' = srsent \o [i \in 1 .. m |-> b + i - 1] /\ dow = sr.down + e - s
      BY <1>4, <2>3 DEF dow
    <3>2. m \in Nat /\ sr.down \in Nat /\ b = sr.from + sr.down /\ sr.from \in Int /\ b \in Int
      BY <1>1, <1>10, <2>3
    <3>3. dow = sr.down + m
      <4>1. len \in Int /\ sr.rover \in Int /\ sr.to \in Int /\ sr.from \in Int /\ sr.down \in Int
        BY <1>1, <1>3, <3>2
      <4>2. e \in Int /\ s \in Int
        BY <4>1
      <4> HIDE DEF e, s
      <4> QED
        BY <3>1, <4>1, <4>2
    <3> HIDE DEF m, b
    <3> QED
      <4>1. srsent' = [i \in 1 .. sr.down + m |-> sr.from + i - 1]
        BY <2>1, <3>1, <3>2, RunOn
      <4> QED
        BY <1>12, <3>3, <4>1 DEF SentFits
  <2> QED
    BY <2>2, <2>3
<1> QED
  BY <1>15, <1>17, <1>18, <1>19 DEF SrInv

LEMMA SrInvHolds == SrSpec => []SrInv
<1>1. SrInit => SrInv
  <2> SUFFICES ASSUME SrInit PROVE SrInv
    OBVIOUS
  <2>1. srobj = << >> /\ sr = SrAtRest /\ srsent = << >> /\ ~srfsck
        /\ srfsck \in BOOLEAN /\ srform = "none" /\ srrange = <<0, -1>>
    BY DEF SrInit
  <2>0. srobj \in Seq(Seq(Nat \ {0}))
    BY <2>1
  <2>2. SrMaxPos \in Nat /\ SrNoLimit \in Nat
    BY SrAssumption DEF SrNoLimit
  <2>3. SrSize \in Nat
    <3>1. [i \in DOMAIN srobj |-> SrSum(srobj[i])] = << >>
      BY <2>1
    <3>2. << >> \in Seq(Nat)
      OBVIOUS
    <3> QED
      BY <3>1, <3>2, SrSumsFacts DEF SrSize, SrSizeOf
  <2>4. /\ sr.pc = "idle" /\ sr.from = 0 /\ sr.to = SrNoLimit /\ sr.part = 1 /\ sr.chunk = 1
        /\ sr.rover = 0 /\ sr.down = 0 /\ sr \in SrRec
    BY <2>1, <2>2 DEF SrAtRest, SrRec, SrLabels
  <2>5. SrTypes
    BY <2>0, <2>1, <2>2, <2>3, <2>4 DEF SrTypes
  <2>6. ParseFits /\ WalkFits
    BY <2>1, <2>4 DEF ParseFits, WalkFits, Walking, Answered
  <2>7. SentFits
    BY <2>1, <2>4 DEF SentFits
  <2> QED
    BY <2>5, <2>6, <2>7 DEF SrInv
<1>2. SrInv /\ SrNext => SrInv'
  BY SrAskStep, SrParseStep, SrStartStep, SrPartStep, SrChunkStep, SrLostStep, SrDoneStep DEF SrNext
<1>3. SrInv /\ UNCHANGED srVars => SrInv'
  BY DEF srVars, SrInv, SrTypes, ParseFits, WalkFits, SentFits, Walking, Answered, Named, SentTo, WalkAt, PartEnds,
         PartSizes, SrPartSize, SrSize, SrNoLimit
<1> QED
  BY <1>1, <1>2, <1>3, PTL DEF SrSpec

\* What a GET of a range sends is what the header names, in order and without a gap,
\* for every object and every range (s3/handlers.go handleGetObject, ParseRange).
THEOREM RangesAreExact == SrSpec => [](SrTypeOK /\ RangeIsExact)
<1>1. SrInv => SrTypeOK /\ RangeIsExact
  <2> SUFFICES ASSUME SrInv PROVE SrTypeOK /\ RangeIsExact
    OBVIOUS
  <2>1. SrSize \in Nat /\ sr \in SrRec /\ sr.from \in Nat /\ sr.to \in Nat /\ srrange[1] \in Int /\ srrange[2] \in Int
    BY PartFacts DEF SrInv, SrTypes
  <2>2. sr.down \in Nat /\ (Walking \/ Answered => sr.down <= sr.to - sr.from) /\ (~ (Walking \/ Answered) => sr.down = 0)
    <3>1. CASE Walking
      BY <2>1, <3>1, WalkNumbers
    <3>2. CASE Answered
      <4>1. sr.down \in 0 .. sr.ds /\ sr.ds = sr.to - sr.from
        BY <3>2 DEF SrInv, WalkFits, ParseFits
      <4> QED
        BY <2>1, <3>2, <4>1
    <3>3. CASE ~ (Walking \/ Answered)
      BY <3>3 DEF SrInv, WalkFits
    <3> QED
      BY <3>1, <3>2, <3>3
  <2>3. Len(srsent) = sr.down /\ DOMAIN srsent = 1 .. sr.down /\ srsent = [i \in 1 .. sr.down |-> sr.from + i - 1]
    <3>1. srsent = [i \in 1 .. sr.down |-> sr.from + i - 1]
      BY DEF SrInv, SentFits
    <3> QED
      BY <2>2, <3>1
  <2>4. ToSet(srsent) = {x \in Int : sr.from <= x /\ x < sr.from + sr.down}
    <3>1. \A x \in ToSet(srsent) : x \in Int /\ sr.from <= x /\ x < sr.from + sr.down
      BY <2>1, <2>2, <2>3 DEF ToSet
    <3>2. ASSUME NEW x \in Int, sr.from <= x, x < sr.from + sr.down PROVE x \in ToSet(srsent)
      <4>1. x - sr.from + 1 \in 1 .. sr.down /\ sr.from + (x - sr.from + 1) - 1 = x
        BY <2>1, <2>2, <3>2
      <4> QED
        BY <2>3, <4>1 DEF ToSet
    <3> QED
      BY <3>1, <3>2
  <2>5. SrAsked = {x \in Int : Named(x)}
    BY <2>1 DEF SrAsked, Named
  <2>6. Walking \/ Answered => SrAsked = {x \in Int : sr.from <= x /\ x < sr.to}
    BY <2>5 DEF SrInv, ParseFits
  <2>7. ToSet(srsent) \subseteq SrAsked
    <3>1. CASE Walking \/ Answered
      BY <2>1, <2>2, <2>4, <2>6, <3>1
    <3>2. CASE ~ (Walking \/ Answered)
      BY <2>1, <2>2, <2>4, <3>2
    <3> QED
      BY <3>1, <3>2
  <2>8. ASSUME Answered PROVE (ToSet(srsent) = SrAsked) <=> sr.down = sr.ds
    <3>1. sr.ds = sr.to - sr.from /\ sr.from <= sr.to
      BY <2>8 DEF SrInv, ParseFits
    <3>2. CASE sr.down = sr.ds
      BY <2>1, <2>4, <2>6, <2>8, <3>1, <3>2
    <3>3. CASE sr.down # sr.ds
      <4>1. sr.to - 1 \in SrAsked /\ sr.to - 1 \notin ToSet(srsent)
        BY <2>1, <2>2, <2>4, <2>6, <2>8, <3>1, <3>3
      <4> QED
        BY <3>3, <4>1
    <3> QED
      BY <3>2, <3>3
  <2>9. (sr.pc = "done" => ToSet(srsent) = SrAsked /\ ~srfsck) /\ (sr.pc = "cut" => (ToSet(srsent) = SrAsked) = ~srfsck)
    <3>1. Answered => srfsck = (sr.down # sr.ds)
      BY DEF SrInv, WalkFits
    <3>2. sr.pc = "done" => sr.down = sr.ds
      BY DEF SrInv, WalkFits
    <3>3. srfsck \in BOOLEAN
      BY DEF SrInv, SrTypes
    <3> QED
      BY <2>8, <3>1, <3>2, <3>3 DEF Answered
  <2>10. sr.pc = "refused" => SrAsked = {}
    BY <2>5 DEF SrInv, ParseFits
  <2>13. sr.pc \in SrRefusals => srsent = << >>
    BY <2>2, <2>3 DEF SrRefusals, Walking, Answered
  <2>14. sr.pc = "unread" => srform \in {"tail", "other"}
    BY DEF SrInv, ParseFits
  <2>11. RangeIsExact
    BY <2>3, <2>7, <2>9, <2>10, <2>13, <2>14 DEF RangeIsExact
  <2>12. SrTypeOK
    BY <2>3 DEF SrTypeOK, SrInv, SrTypes, SrRec, SrLabels, SrRefusals
  <2> QED
    BY <2>11, <2>12
<1> QED
  BY <1>1, SrInvHolds, PTL

-----------------------------------------------------------------------------
(* The list of a bucket.  The order of its keys is the one of a dictionary, *)
(* the keys with one prefix stand together in it, and a set of keys is      *)
(* listed by rank.                                                          *)

Agree(a, b, n) == n <= Len(a) /\ n <= Len(b) /\ \A j \in 1 .. n : a[j] = b[j]
\* a and b part behind n, and a comes first.
Parts(a, b, n) == Agree(a, b, n) /\ n < Len(b) /\ (n = Len(a) \/ (n < Len(a) /\ a[n + 1] < b[n + 1]))

LEMMA OfNumbers ==
    /\ \A x, y \in Nat : x = y \/ x < y \/ y < x
    /\ \A x, y \in Nat : x <= y /\ x # y => x < y
    /\ \A x, y, z \in Nat : x < y /\ y < z => x < z /\ x # z
    /\ \A x, y \in Nat : x < y => x + 1 \in 1 .. y
  OBVIOUS

LEMMA SeqNats ==
    ASSUME NEW a \in Seq(Nat)
    PROVE  Len(a) \in Nat /\ DOMAIN a = 1 .. Len(a) /\ \A i \in 1 .. Len(a) : a[i] \in Nat
  BY LenProperties, ElementOfSeq

LEMMA SameSeq ==
    ASSUME NEW a \in Seq(Nat), NEW b \in Seq(Nat), Len(a) = Len(b), \A j \in 1 .. Len(a) : a[j] = b[j]
    PROVE  a = b
<1>1. a = [j \in 1 .. Len(a) |-> a[j]] /\ b = [j \in 1 .. Len(b) |-> b[j]]
  BY LenProperties
<1> QED
  BY <1>1

LEMMA SameStart ==
    ASSUME NEW a \in Seq(Nat), NEW b \in Seq(Nat), NEW n \in Nat, n <= Len(a), n <= Len(b)
    PROVE  SubSeq(a, 1, n) = SubSeq(b, 1, n) <=> \A j \in 1 .. n : a[j] = b[j]
<1>1. /\ SubSeq(a, 1, n) = [j \in 1 .. n |-> a[j]]
      /\ SubSeq(b, 1, n) = [j \in 1 .. n |-> b[j]]
  <2>1. 1 + n - 1 = n
    OBVIOUS
  <2> QED
    BY <2>1 DEF SubSeq
<1> QED
  BY <1>1

LEMMA PrefixAgrees ==
    ASSUME NEW a \in Seq(Nat), NEW b \in Seq(Nat)
    PROVE  IsPrefix(a, b) <=> Agree(a, b, Len(a))
<1>1. Len(a) \in Nat /\ Len(b) \in Nat
  BY SeqNats
<1>2. Len(a) <= Len(b) => (SubSeq(a, 1, Len(a)) = SubSeq(b, 1, Len(a)) <=> \A j \in 1 .. Len(a) : a[j] = b[j])
  BY <1>1, SameStart
<1> QED
  BY <1>1, <1>2 DEF IsPrefix, Agree

LEMMA BeforeParts ==
    ASSUME NEW a \in Seq(Nat), NEW b \in Seq(Nat)
    PROVE  SlBefore(a, b) <=> \E n \in Nat : Parts(a, b, n)
<1>1. Len(a) \in Nat /\ Len(b) \in Nat /\ DOMAIN a = 1 .. Len(a) /\ DOMAIN b = 1 .. Len(b)
  BY SeqNats
<1>2. ASSUME IsStrictPrefix(a, b) PROVE Parts(a, b, Len(a))
  <2>1. Agree(a, b, Len(a)) /\ a # b
    BY <1>2, PrefixAgrees DEF IsStrictPrefix
  <2>2. Len(a) <= Len(b) /\ \A j \in 1 .. Len(a) : a[j] = b[j]
    BY <2>1 DEF Agree
  <2>3. Len(a) # Len(b)
    BY <2>1, <2>2, SameSeq
  <2>4. Len(a) < Len(b)
    BY <1>1, <2>2, <2>3, OfNumbers, Zenon
  <2> QED
    BY <2>1, <2>4 DEF Parts
<1>3. ASSUME NEW i \in DOMAIN a \cap DOMAIN b, a[i] < b[i], SubSeq(a, 1, i - 1) = SubSeq(b, 1, i - 1)
      PROVE  i - 1 \in Nat /\ Parts(a, b, i - 1)
  <2>1. i - 1 \in Nat /\ i - 1 < Len(a) /\ i - 1 < Len(b) /\ (i - 1) + 1 = i
    BY <1>1
  <2>2. \A j \in 1 .. i - 1 : a[j] = b[j]
    BY <1>1, <1>3, <2>1, SameStart
  <2> QED
    BY <1>1, <1>3, <2>1, <2>2 DEF Parts, Agree
<1>4. ASSUME NEW n \in Nat, Parts(a, b, n) PROVE SlBefore(a, b)
  <2>1. CASE n = Len(a)
    <3>1. Agree(a, b, Len(a)) /\ Len(a) < Len(b)
      BY <1>4, <2>1 DEF Parts
    <3>2. IsPrefix(a, b)
      BY <3>1, PrefixAgrees
    <3>3. a # b
      BY <1>1, <3>1
    <3> QED
      BY <3>2, <3>3 DEF SlBefore, IsStrictPrefix
  <2>2. CASE n # Len(a)
    <3>0. n < Len(a) /\ n < Len(b) /\ a[n + 1] < b[n + 1]
      BY <1>4, <2>2 DEF Parts
    <3>1. n + 1 \in DOMAIN a \cap DOMAIN b /\ a[n + 1] < b[n + 1] /\ (n + 1) - 1 = n
      BY <1>1, <3>0
    <3>2. SubSeq(a, 1, n) = SubSeq(b, 1, n)
      BY <1>4, SameStart DEF Parts, Agree
    <3> QED
      BY <3>1, <3>2 DEF SlBefore
  <2> QED
    BY <2>1, <2>2
<1> QED
  BY <1>1, <1>2, <1>3, <1>4 DEF SlBefore

LEMMA BeforeIrreflexive == ASSUME NEW a \in Seq(Nat) PROVE ~ SlBefore(a, a)
<1> SUFFICES ASSUME NEW n \in Nat, Parts(a, a, n) PROVE FALSE
  BY BeforeParts
<1> QED
  BY SeqNats DEF Parts

LEMMA BeforeTransitive ==
    ASSUME NEW a \in Seq(Nat), NEW b \in Seq(Nat), NEW c \in Seq(Nat), SlBefore(a, b), SlBefore(b, c)
    PROVE  SlBefore(a, c)
<1>1. PICK n \in Nat : Parts(a, b, n)
  BY BeforeParts
<1>2. PICK m \in Nat : Parts(b, c, m)
  BY BeforeParts
<1>3. Len(a) \in Nat /\ Len(b) \in Nat /\ Len(c) \in Nat
  BY SeqNats
<1>4. CASE n < m
  <2>1. Agree(a, c, n) /\ n < Len(c) /\ n + 1 \in 1 .. m
    BY <1>1, <1>2, <1>3, <1>4 DEF Parts, Agree
  <2>2. b[n + 1] = c[n + 1]
    BY <1>2, <2>1 DEF Parts, Agree
  <2>3. Parts(a, c, n)
    BY <1>1, <2>1, <2>2 DEF Parts
  <2> QED
    BY <2>3, BeforeParts
<1>5. CASE n = m
  <2>1. Agree(a, c, n) /\ n < Len(c) /\ b[n + 1] < c[n + 1] /\ n + 1 \in 1 .. Len(b) /\ n + 1 \in 1 .. Len(c)
    BY <1>1, <1>2, <1>3, <1>5 DEF Parts, Agree
  <2>2. n < Len(a) => n + 1 \in 1 .. Len(a)
    BY <1>3
  <2>3. n < Len(a) => a[n + 1] \in Nat /\ b[n + 1] \in Nat /\ c[n + 1] \in Nat
    BY <2>1, <2>2, SeqNats
  <2>4. Parts(a, c, n)
    BY <1>1, <2>1, <2>3 DEF Parts
  <2> QED
    BY <2>4, BeforeParts
<1>6. CASE m < n
  <2>1. Agree(a, c, m) /\ m < Len(c) /\ m < Len(a) /\ b[m + 1] < c[m + 1] /\ m + 1 \in 1 .. n
    BY <1>1, <1>2, <1>3, <1>6 DEF Parts, Agree
  <2>2. a[m + 1] = b[m + 1]
    BY <1>1, <2>1 DEF Parts, Agree
  <2>3. Parts(a, c, m)
    BY <2>1, <2>2 DEF Parts
  <2> QED
    BY <2>3, BeforeParts
<1> QED
  BY <1>4, <1>5, <1>6

LEMMA BeforeTotal ==
    ASSUME NEW a \in Seq(Nat), NEW b \in Seq(Nat)
    PROVE  a = b \/ SlBefore(a, b) \/ SlBefore(b, a)
<1> DEFINE T == {n \in Nat : n < Len(a) /\ n < Len(b) /\ a[n + 1] # b[n + 1]}
<1>1. Len(a) \in Nat /\ Len(b) \in Nat /\ DOMAIN a = 1 .. Len(a) /\ DOMAIN b = 1 .. Len(b)
  BY SeqNats
<1>2. CASE T # {}
  <2>1. PICK n \in T : \A y \in T : n <= y
    BY <1>2, LeastNumber
  <2>2. ASSUME NEW j \in 1 .. n PROVE a[j] = b[j]
    <3>1. j - 1 \in Nat /\ j - 1 < n /\ (j - 1) + 1 = j
      BY <2>1
    <3>2. j - 1 \notin T
      BY <2>1, <3>1
    <3> QED
      BY <1>1, <2>1, <3>1, <3>2
  <2>3. Agree(a, b, n) /\ Agree(b, a, n)
    BY <1>1, <2>1, <2>2 DEF Agree
  <2>4. a[n + 1] \in Nat /\ b[n + 1] \in Nat
    BY <1>1, <2>1, SeqNats
  <2>5. Parts(a, b, n) \/ Parts(b, a, n)
    <3>1. n < Len(a) /\ n < Len(b) /\ a[n + 1] # b[n + 1]
      BY <2>1
    <3>2. a[n + 1] < b[n + 1] \/ b[n + 1] < a[n + 1]
      BY <2>4, <3>1
    <3> QED
      BY <2>3, <3>1, <3>2 DEF Parts
  <2> QED
    BY <2>1, <2>5, BeforeParts
<1>3. CASE T = {}
  <2>1. ASSUME NEW j \in 1 .. Len(a), j <= Len(b) PROVE a[j] = b[j]
    <3>1. j - 1 \in Nat /\ j - 1 < Len(a) /\ j - 1 < Len(b) /\ (j - 1) + 1 = j
      BY <1>1, <2>1
    <3>2. j - 1 \notin T
      BY <1>3
    <3> QED
      BY <3>1, <3>2
  <2>2. CASE Len(a) = Len(b)
    <3>1. \A j \in 1 .. Len(a) : a[j] = b[j]
      BY <1>1, <2>1, <2>2
    <3> QED
      BY <2>2, <3>1, SameSeq
  <2>3. CASE Len(a) < Len(b)
    <3>1. Parts(a, b, Len(a))
      BY <1>1, <2>1, <2>3 DEF Parts, Agree
    <3> QED
      BY <1>1, <3>1, BeforeParts
  <2>4. CASE Len(b) < Len(a)
    <3>1. Parts(b, a, Len(b))
      BY <1>1, <2>1, <2>4 DEF Parts, Agree
    <3> QED
      BY <1>1, <3>1, BeforeParts
  <2>5. Len(a) = Len(b) \/ Len(a) < Len(b) \/ Len(b) < Len(a)
    BY <1>1, OfNumbers, Zenon
  <2> QED
    BY <2>2, <2>3, <2>4, <2>5
<1> QED
  BY <1>2, <1>3

\* The keys with a prefix stand together.
LEMMA PrefixBetween ==
    ASSUME NEW a \in Seq(Nat), NEW x \in Seq(Nat), NEW b \in Seq(Nat), NEW w \in Seq(Nat),
           IsPrefix(w, a), IsPrefix(w, b), SlBefore(a, x), SlBefore(x, b)
    PROVE  IsPrefix(w, x)
<1>1. PICK n \in Nat : Parts(a, x, n)
  BY BeforeParts
<1>2. PICK m \in Nat : Parts(x, b, m)
  BY BeforeParts
<1>3. Len(a) \in Nat /\ Len(b) \in Nat /\ Len(x) \in Nat /\ Len(w) \in Nat
  BY SeqNats
<1>4. Agree(w, a, Len(w)) /\ Agree(w, b, Len(w))
  BY PrefixAgrees
<1>5. CASE Len(w) <= n
  <2>1. Agree(w, x, Len(w))
    BY <1>1, <1>3, <1>4, <1>5 DEF Parts, Agree
  <2> QED
    BY <2>1, PrefixAgrees
<1>6. CASE Len(w) <= m
  <2>1. Agree(w, x, Len(w))
    BY <1>2, <1>3, <1>4, <1>6 DEF Parts, Agree
  <2> QED
    BY <2>1, PrefixAgrees
<1>7. CASE n < Len(w) /\ m < Len(w)
  <2>1. n < Len(a) /\ a[n + 1] < x[n + 1] /\ n + 1 \in 1 .. Len(w) /\ n < Len(x)
    BY <1>1, <1>3, <1>4, <1>7 DEF Parts, Agree
  <2>2. m < Len(b) /\ (m = Len(x) \/ x[m + 1] < b[m + 1]) /\ m + 1 \in 1 .. Len(w)
    BY <1>2, <1>3, <1>4, <1>7 DEF Parts, Agree
  <2>3. a[n + 1] = b[n + 1] /\ a[m + 1] = b[m + 1]
    BY <1>4, <2>1, <2>2 DEF Agree
  <2>4. a[n + 1] \in Nat /\ x[n + 1] \in Nat /\ b[m + 1] \in Nat /\ (m < Len(x) => x[m + 1] \in Nat)
    <3>1. n + 1 \in 1 .. Len(a) /\ n + 1 \in 1 .. Len(x) /\ m + 1 \in 1 .. Len(b) /\ (m < Len(x) => m + 1 \in 1 .. Len(x))
      BY <1>3, <2>1, <2>2, OfNumbers, Zenon
    <3> QED
      BY <3>1, SeqNats
  <2>5. CASE n < m
    <3>1. n + 1 \in 1 .. m
      BY <2>5
    <3>2. x[n + 1] = b[n + 1]
      BY <1>2, <3>1 DEF Parts, Agree
    <3> QED
      BY <2>1, <2>3, <2>4, <3>2
  <2>6. CASE n = m
    <3>1. m < Len(x) /\ m # Len(x)
      BY <1>3, <2>1, <2>6
    <3>2. a[m + 1] < x[m + 1] /\ x[m + 1] < b[m + 1]
      BY <2>1, <2>2, <2>6, <3>1
    <3>3. a[m + 1] \in Nat /\ x[m + 1] \in Nat /\ b[m + 1] \in Nat
      BY <2>4, <2>6, <3>1
    <3> QED
      BY <2>3, <3>2, <3>3
  <2>7. CASE m < n
    <3>1. m + 1 \in 1 .. n
      BY <2>7
    <3>2. a[m + 1] = x[m + 1]
      BY <1>1, <3>1 DEF Parts, Agree
    <3>3. m < Len(x) /\ m # Len(x)
      BY <1>3, <2>1, <2>7, OfNumbers, Zenon
    <3> QED
      BY <2>2, <2>3, <2>4, <3>2, <3>3
  <2> QED
    BY <2>5, <2>6, <2>7
<1> QED
  BY <1>3, <1>5, <1>6, <1>7

Below(S, k) == {j \in S : SlBefore(j, k)}

LEMMA RankFacts ==
    ASSUME NEW S, IsFiniteSet(S), S \subseteq Seq(Nat)
    PROVE  /\ Cardinality(S) \in Nat
           /\ \A k \in S : Cardinality(Below(S, k)) \in 0 .. Cardinality(S) - 1
           /\ \A j, k \in S : SlBefore(j, k) => Cardinality(Below(S, j)) < Cardinality(Below(S, k))
           /\ \A j, k \in S : Cardinality(Below(S, j)) <= Cardinality(Below(S, k)) => j = k \/ SlBefore(j, k)
           /\ \A i \in 0 .. Cardinality(S) - 1 : \E k \in S : Cardinality(Below(S, k)) = i
<1> DEFINE n == Cardinality(S)
           rank(k) == Cardinality(Below(S, k))
<1>1. n \in Nat
  BY FS_CardinalityType
<1>2. ASSUME NEW k \in S PROVE rank(k) \in 0 .. n - 1 /\ IsFiniteSet(Below(S, k))
  <2>1. Below(S, k) \in SUBSET S /\ k \notin Below(S, k)
    BY BeforeIrreflexive DEF Below
  <2>2. IsFiniteSet(Below(S, k)) /\ rank(k) <= n /\ rank(k) # n
    BY <2>1, FS_Subset
  <2>3. rank(k) \in Nat
    BY <2>2, FS_CardinalityType
  <2> HIDE DEF n, rank
  <2> QED
    BY <1>1, <2>2, <2>3
<1>3. ASSUME NEW j \in S, NEW k \in S, SlBefore(j, k) PROVE rank(j) < rank(k)
  <2>1. Below(S, j) \in SUBSET Below(S, k)
    BY <1>3, BeforeTransitive DEF Below
  <2>2. j \in Below(S, k) /\ j \notin Below(S, j)
    BY <1>3, BeforeIrreflexive DEF Below
  <2>3. rank(j) <= rank(k) /\ rank(j) # rank(k)
    BY <1>2, <2>1, <2>2, FS_Subset
  <2>4. rank(j) \in Nat /\ rank(k) \in Nat
    BY <1>1, <1>2
  <2> HIDE DEF rank
  <2> QED
    BY <2>3, <2>4
<1>4. ASSUME NEW j \in S, NEW k \in S, rank(j) <= rank(k) PROVE j = k \/ SlBefore(j, k)
  <2>1. SlBefore(k, j) => rank(k) < rank(j)
    BY <1>3
  <2>2. rank(j) \in Nat /\ rank(k) \in Nat
    BY <1>1, <1>2
  <2>3. ~ SlBefore(k, j)
    <3> HIDE DEF rank
    <3> QED
      BY <1>4, <2>1, <2>2
  <2> QED
    BY <2>3, BeforeTotal
<1>5. ASSUME NEW i \in 0 .. n - 1 PROVE \E k \in S : rank(k) = i
  <2> DEFINE f == [k \in S |-> rank(k)]
  <2>1. f \in [S -> 0 .. n - 1]
    BY <1>2
  <2>2. ASSUME NEW j \in S, NEW k \in S, f[j] = f[k] PROVE j = k
    <3>1. rank(j) = rank(k) /\ rank(j) \in Nat
      BY <1>1, <1>2, <2>2
    <3>2. rank(j) <= rank(k) /\ rank(k) <= rank(j)
      <4> HIDE DEF rank
      <4> QED
        BY <3>1
    <3>3. j # k => SlBefore(j, k) /\ SlBefore(k, j)
      BY <1>4, <3>2
    <3> QED
      BY <3>3, BeforeTransitive, BeforeIrreflexive
  <2>3. f \in Injection(S, 0 .. n - 1)
    BY <2>1, <2>2 DEF Injection, IsInjective
  <2>4. IsFiniteSet(0 .. n - 1) /\ Cardinality(0 .. n - 1) = n
    <3>1. 0 \in Int /\ n - 1 \in Int /\ (IF 0 > n - 1 THEN 0 ELSE n - 1 - 0 + 1) = n
      <4> HIDE DEF n
      <4> QED
        BY <1>1
    <3> QED
      BY <3>1, FS_Interval
  <2>5. f \in Surjection(S, 0 .. n - 1)
    BY <2>3, <2>4, FS_Injection
  <2> QED
    BY <2>5 DEF Surjection
<1> QED
  BY <1>1, <1>2, <1>3, <1>4, <1>5

LEMMA SortedFacts ==
    ASSUME NEW S, IsFiniteSet(S), S \subseteq Seq(Nat)
    PROVE  /\ SlSorted(S) \in Seq(S) /\ Len(SlSorted(S)) = Cardinality(S) /\ ToSet(SlSorted(S)) = S
           /\ Cardinality(S) \in Nat
           /\ \A i, j \in 1 .. Cardinality(S) : i < j => SlBefore(SlSorted(S)[i], SlSorted(S)[j])
<1> DEFINE n == Cardinality(S)
           s == SlSorted(S)
           rank(k) == Cardinality(Below(S, k))
<1>1. n \in Nat
  BY RankFacts
<1>2. s = [i \in 1 .. n |-> CHOOSE k \in S : rank(k) = i - 1]
  BY DEF SlSorted, Below
<1>3. ASSUME NEW i \in 1 .. n PROVE s[i] \in S /\ rank(s[i]) = i - 1
  <2>1. i - 1 \in 0 .. n - 1
    <3> HIDE DEF n
    <3> QED
      BY <1>1
  <2>2. \E k \in S : rank(k) = i - 1
    BY <2>1, RankFacts
  <2>3. s[i] = CHOOSE k \in S : rank(k) = i - 1
    BY <1>2
  <2> HIDE DEF rank, n, s
  <2> QED
    BY <2>2, <2>3
<1>4. s \in [1 .. n -> S]
  <2> HIDE DEF rank, n
  <2> QED
    BY <1>2, <1>3
<1>5. s \in Seq(S) /\ Len(s) = n /\ DOMAIN s = 1 .. n
  <2> HIDE DEF n, s
  <2> QED
    BY <1>1, <1>4
<1>6. ToSet(s) = S
  <2>1. ASSUME NEW k \in S PROVE \E i \in 1 .. n : s[i] = k
    <3>1. rank(k) \in 0 .. n - 1
      BY RankFacts
    <3> DEFINE i == rank(k) + 1
    <3>2. i \in 1 .. n /\ i - 1 = rank(k)
      <4> HIDE DEF rank, n
      <4> QED
        BY <1>1, <3>1
    <3>3. s[i] \in S /\ rank(s[i]) = rank(k)
      BY <1>3, <3>2
    <3>4. rank(s[i]) <= rank(k) /\ rank(k) <= rank(s[i])
      <4> HIDE DEF rank, n, s, i
      <4> QED
        BY <1>1, <3>1, <3>3
    <3>5. s[i] # k => SlBefore(s[i], k) /\ SlBefore(k, s[i])
      BY <3>3, <3>4, RankFacts
    <3>6. s[i] = k
      BY <3>3, <3>5, BeforeTransitive, BeforeIrreflexive
    <3> QED
      BY <3>2, <3>6
  <2> HIDE DEF n, s
  <2> QED
    BY <1>3, <1>5, <2>1 DEF ToSet
<1>7. ASSUME NEW i \in 1 .. n, NEW j \in 1 .. n, i < j PROVE SlBefore(s[i], s[j])
  <2>1. rank(s[i]) <= rank(s[j]) /\ rank(s[i]) # rank(s[j])
    <3>1. rank(s[i]) = i - 1 /\ rank(s[j]) = j - 1
      BY <1>3
    <3> HIDE DEF rank, s, n
    <3> QED
      BY <1>1, <1>7, <3>1
  <2>2. s[i] = s[j] \/ SlBefore(s[i], s[j])
    BY <1>3, <2>1, RankFacts
  <2> QED
    BY <2>1, <2>2
<1> HIDE DEF n, s
<1>8. s \in Seq(S) /\ Len(s) = n /\ ToSet(s) = S /\ n \in Nat /\ \A i, j \in 1 .. n : i < j => SlBefore(s[i], s[j])
  BY <1>1, <1>5, <1>6, <1>7
<1> QED
  BY <1>8 DEF n, s

LEMMA LastFacts ==
    ASSUME NEW S, IsFiniteSet(S), S \subseteq Seq(Nat), S # {}
    PROVE  SlLast(S) \in S /\ \A j \in S : j = SlLast(S) \/ SlBefore(j, SlLast(S))
<1> DEFINE n == Cardinality(S)
           rank(k) == Cardinality(Below(S, k))
<1>1. n \in Nat /\ n # 0
  BY RankFacts, FS_EmptySet
<1>2. n - 1 \in 0 .. n - 1
  <2> HIDE DEF n
  <2> QED
    BY <1>1
<1>3. PICK k \in S : rank(k) = n - 1
  BY <1>2, RankFacts
<1>4. ASSUME NEW j \in S PROVE j = k \/ SlBefore(j, k)
  <2>1. rank(j) \in 0 .. n - 1
    BY RankFacts
  <2>2. rank(j) <= rank(k)
    <3> HIDE DEF rank, n
    <3> QED
      BY <1>1, <1>3, <2>1
  <2> QED
    BY <2>2, RankFacts
<1>5. \E x \in S : \A j \in S : j = x \/ SlBefore(j, x)
  BY <1>4
<1> QED
  BY <1>5 DEF SlLast

\* The first m of a set, and what comes behind them
LEMMA FirstOnes ==
    ASSUME NEW S, IsFiniteSet(S), S \subseteq Seq(Nat), NEW m \in Nat \ {0},
           NEW T, T = {k \in S : Cardinality(Below(S, k)) < m}
    PROVE  /\ T \subseteq S /\ IsFiniteSet(T) /\ Cardinality(S) \in Nat
           /\ Cardinality(S) < m => T = S
           /\ Cardinality(S) >= m => /\ T # {} /\ SlLast(T) \in T
                                     /\ \A k \in S : k \in T \/ SlBefore(SlLast(T), k)
                                     /\ \A k \in T : k = SlLast(T) \/ SlBefore(k, SlLast(T))
<1> DEFINE n == Cardinality(S)
           rank(k) == Cardinality(Below(S, k))
<1>1. n \in Nat /\ \A k \in S : rank(k) \in 0 .. n - 1
  BY RankFacts
<1>2. T = {k \in S : rank(k) < m}
  OBVIOUS
<1>3. T \subseteq S /\ IsFiniteSet(T) /\ T \subseteq Seq(Nat)
  <2>1. T \in SUBSET S
    BY <1>2
  <2> QED
    BY <2>1, FS_Subset
<1>4. n < m => T = S
  <2> HIDE DEF n, rank
  <2> QED
    BY <1>1, <1>2
<1>5. ASSUME n >= m
      PROVE  /\ T # {} /\ SlLast(T) \in T
             /\ \A k \in S : k \in T \/ SlBefore(SlLast(T), k)
             /\ \A k \in T : k = SlLast(T) \/ SlBefore(k, SlLast(T))
  <2>1. 0 \in 0 .. n - 1
    <3> HIDE DEF n
    <3> QED
      BY <1>1, <1>5
  <2>2. PICK k0 \in S : rank(k0) = 0
    BY <2>1, RankFacts
  <2>3. k0 \in T
    <3> HIDE DEF rank
    <3> QED
      BY <1>2, <2>2
  <2>4. SlLast(T) \in T /\ \A k \in T : k = SlLast(T) \/ SlBefore(k, SlLast(T))
    BY <1>3, <2>3, LastFacts
  <2>5. ASSUME NEW k \in S, k \notin T PROVE SlBefore(SlLast(T), k)
    <3>1. rank(SlLast(T)) <= rank(k) /\ SlLast(T) \in S
      <4>1. rank(SlLast(T)) \in Nat /\ rank(k) \in Nat /\ rank(SlLast(T)) < m /\ ~ (rank(k) < m)
        BY <1>1, <1>2, <1>3, <2>4, <2>5
      <4> HIDE DEF rank
      <4> QED
        BY <1>3, <2>4, <4>1
    <3>2. SlLast(T) = k \/ SlBefore(SlLast(T), k)
      BY <3>1, RankFacts
    <3> QED
      BY <2>4, <2>5, <3>2
  <2> QED
    BY <2>3, <2>4, <2>5
<1> QED
  BY <1>1, <1>3, <1>4, <1>5

\* A key that is folded: its common prefix, and every key with that prefix is folded.
LEMMA CommonFacts ==
    ASSUME NEW k \in Seq(Nat), NEW w, w.pfx \in Seq(Nat), SlFolded(k, w)
    PROVE  /\ SlCommon(k, w) \in Seq(Nat) /\ IsPrefix(SlCommon(k, w), k)
           /\ \A x \in Seq(Nat) : IsPrefix(SlCommon(k, w), x) => SlFolded(x, w)
<1> DEFINE D == SlDelims(k, w.pfx)
           f == SlFirst(k, w.pfx)
           c == SlCommon(k, w)
<1>1. Len(k) \in Nat /\ Len(w.pfx) \in Nat /\ \A i \in 1 .. Len(k) : k[i] \in Nat
  BY SeqNats
<1>2. D \subseteq Nat /\ D # {}
  BY <1>1 DEF SlDelims, SlFolded
<1>3. \E i \in D : \A j \in D : i <= j
  BY <1>2, LeastNumber
<1>4. f \in D
  BY <1>3 DEF SlFirst
<1>5. f \in Len(w.pfx) + 1 .. Len(k) /\ k[f] = 0 /\ f \in 1 .. Len(k)
  BY <1>1, <1>4 DEF SlDelims
<1>6. c = [j \in 1 .. f |-> k[j]] /\ c \in Seq(Nat) /\ Len(c) = f
  <2>1. c = SubSeq(k, 1, f)
    BY DEF SlCommon
  <2> HIDE DEF c, f
  <2>2. 1 + f - 1 = f
    BY <1>5
  <2>3. c = [j \in 1 .. f |-> k[j]]
    BY <1>5, <2>1, <2>2 DEF SubSeq
  <2>4. \A j \in 1 .. f : k[j] \in Nat
    BY <1>1, <1>5
  <2> QED
    BY <1>5, <2>3, <2>4
<1>7. Agree(c, k, Len(c))
  BY <1>5, <1>6 DEF Agree
<1>8. ASSUME NEW x \in Seq(Nat), IsPrefix(c, x) PROVE SlFolded(x, w)
  <2>1. Agree(c, x, f)
    BY <1>6, <1>8, PrefixAgrees
  <2>2. f <= Len(x) /\ x[f] = k[f] /\ Len(x) \in Nat
    BY <1>5, <1>6, <2>1, SeqNats DEF Agree
  <2>3. f \in SlDelims(x, w.pfx)
    BY <1>1, <1>5, <2>2 DEF SlDelims
  <2> QED
    BY <2>3 DEF SlFolded
<1> QED
  BY <1>6, <1>7, <1>8, PrefixAgrees

-----------------------------------------------------------------------------
SlAsks == [pc : {"idle", "page", "done"}, pfx : Seq(Nat), delim : BOOLEAN, max : Nat \ {0}, after : SlKeys \cup {SlNone}]

\* What is asked for does not change, but for the key to start after.
SlTypes ==
    /\ slbkt \subseteq SlKeys /\ slops \in 0 .. SlMaxOps /\ slq \in SlAsks
    /\ slgot \in Seq(SlKeys) /\ slpfx \in Seq(Seq(Nat))
    /\ slghost \in [stay : SUBSET SlKeys, lost : BOOLEAN] /\ slghost.stay \subseteq slbkt
    /\ slq.pc = "idle" => slgot = <<>> /\ slpfx = <<>> /\ slghost.stay = {}
    /\ slq.pc = "page" /\ slq.after = SlNone => slgot = <<>> /\ slpfx = <<>>
AllInOrder ==
    /\ \A i, j \in 1 .. Len(slgot) : i < j => SlBefore(slgot[i], slgot[j])
    /\ IsInjective(slpfx)
\* The key to start after is behind all that was listed, and is itself not folded.
AllBehind ==
    slq.pc = "page" /\ (slgot # <<>> \/ slpfx # <<>>) =>
        /\ ~ SlFolded(slq.after, slq)
        /\ \A i \in 1 .. Len(slgot) : slgot[i] = slq.after \/ SlBefore(slgot[i], slq.after)
        /\ \A i \in 1 .. Len(slpfx) : \E j \in SlKeys :
              SlFolded(j, slq) /\ slpfx[i] = SlCommon(j, slq) /\ SlBefore(j, slq.after)
Listed(k) == IF SlFolded(k, slq) THEN SlDropped(k, slq) \/ SlCommon(k, slq) \in ToSet(slpfx) ELSE k \in ToSet(slgot)
\* A key that stays is listed or still to come.
ListedOrLeft ==
    slq.pc # "idle" /\ ~slghost.lost =>
        \A k \in slghost.stay : IsPrefix(slq.pfx, k) =>
            Listed(k) \/ (slq.pc = "page" /\ (slq.after = SlNone \/ SlBefore(slq.after, k)))
SlInv == SlTypes /\ AllInOrder /\ AllBehind /\ ListedOrLeft

LEMMA KeysAreSeqs == SlKeys \subseteq Seq(Nat) /\ IsFiniteSet(SlKeys) /\ SlNone \notin SlKeys /\ SlNone \in Seq(Nat)
  BY SlAssumption DEF SlNone

\* What a page is made of
LEMMA PageFacts ==
    ASSUME SlTypes
    PROVE  /\ SlRest(slq) \subseteq SlKeys /\ SlPlain(slq) \subseteq SlKeys /\ IsFiniteSet(SlPlain(slq))
           /\ SlPage(slq) \subseteq SlPlain(slq) /\ IsFiniteSet(SlPage(slq))
           /\ ~SlTruncated(slq) => SlPage(slq) = SlPlain(slq)
           /\ SlTruncated(slq) =>
                 /\ SlLast(SlPage(slq)) \in SlPage(slq)
                 /\ \A k \in SlPlain(slq) : k \in SlPage(slq) \/ SlBefore(SlLast(SlPage(slq)), k)
                 /\ \A k \in SlPage(slq) : k = SlLast(SlPage(slq)) \/ SlBefore(k, SlLast(SlPage(slq)))
           /\ IsFiniteSet(SlPrefixesOf(slq)) /\ SlPrefixesOf(slq) \subseteq Seq(Nat)
           /\ slq.after # SlNone => \A k \in SlRest(slq) : SlBefore(slq.after, k)
<1>1. SlRest(slq) \subseteq SlKeys /\ (slq.after # SlNone => \A k \in SlRest(slq) : SlBefore(slq.after, k))
  BY DEF SlTypes, SlRest, SlFound
<1>2. SlPlain(slq) \in SUBSET SlKeys
  BY <1>1 DEF SlPlain
<1>3. IsFiniteSet(SlPlain(slq)) /\ SlPlain(slq) \subseteq Seq(Nat) /\ slq.max \in Nat \ {0} /\ slq.pfx \in Seq(Nat)
  BY <1>2, KeysAreSeqs, FS_Subset DEF SlTypes, SlAsks
<1> DEFINE P == SlPlain(slq)
           T == SlPage(slq)
<1>4. T = {k \in P : Cardinality(Below(P, k)) < slq.max}
  BY DEF SlPage, Below
<1>5. SlTruncated(slq) <=> Cardinality(P) >= slq.max
  BY DEF SlTruncated
<1>6. /\ T \subseteq P /\ IsFiniteSet(T)
      /\ ~SlTruncated(slq) => T = P
      /\ SlTruncated(slq) =>
            /\ SlLast(T) \in T
            /\ \A k \in P : k \in T \/ SlBefore(SlLast(T), k)
            /\ \A k \in T : k = SlLast(T) \/ SlBefore(k, SlLast(T))
  <2> HIDE DEF P, T
  <2>1. /\ T \subseteq P /\ IsFiniteSet(T) /\ Cardinality(P) \in Nat
        /\ Cardinality(P) < slq.max => T = P
        /\ Cardinality(P) >= slq.max =>
              /\ SlLast(T) \in T
              /\ \A k \in P : k \in T \/ SlBefore(SlLast(T), k)
              /\ \A k \in T : k = SlLast(T) \/ SlBefore(k, SlLast(T))
    BY <1>3, <1>4, FirstOnes DEF P
  <2>2. ~ (Cardinality(P) >= slq.max) => Cardinality(P) < slq.max
    BY <1>3, <2>1
  <2> QED
    BY <1>5, <2>1, <2>2
<1>7. IsFiniteSet(SlPrefixesOf(slq)) /\ SlPrefixesOf(slq) \subseteq Seq(Nat)
  <2> DEFINE F == {j \in SlRest(slq) :
                     /\ SlFolded(j, slq) /\ ~SlDropped(j, slq)
                     /\ SlTruncated(slq) => SlBefore(j, SlLast(SlPage(slq)))}
             G == [k \in F |-> SlCommon(k, slq)]
             CP == SlPrefixesOf(slq)
  <2>1. F \in SUBSET SlKeys
    BY <1>1
  <2>2. IsFiniteSet(F)
    BY <2>1, KeysAreSeqs, FS_Subset
  <2>3. CP = {SlCommon(k, slq) : k \in F}
    BY DEF SlPrefixesOf
  <2>4. CP \subseteq Seq(Nat)
    <3> SUFFICES ASSUME NEW k \in F PROVE SlCommon(k, slq) \in Seq(Nat)
      BY <2>3
    <3>1. k \in Seq(Nat) /\ SlFolded(k, slq)
      BY <2>1, KeysAreSeqs
    <3> QED
      BY <1>3, <3>1, CommonFacts
  <2>5. G \in Surjection(F, CP)
    <3> HIDE DEF F, CP
    <3>1. G \in [F -> CP]
      BY <2>3
    <3>2. \A y \in CP : \E k \in F : G[k] = y
      BY <2>3
    <3> QED
      BY <3>1, <3>2 DEF Surjection
  <2> HIDE DEF F, G
  <2> QED
    BY <2>2, <2>4, <2>5, FS_Surjection
<1> QED
  BY <1>1, <1>2, <1>3, <1>6, <1>7

LEMMA ConcatFacts ==
    ASSUME NEW S, NEW s \in Seq(S), NEW t \in Seq(S)
    PROVE  /\ s \o t \in Seq(S) /\ Len(s) \in Nat /\ Len(t) \in Nat /\ Len(s \o t) = Len(s) + Len(t)
           /\ \A i \in 1 .. Len(s) : (s \o t)[i] = s[i]
           /\ \A i \in Len(s) + 1 .. Len(s \o t) : i - Len(s) \in 1 .. Len(t) /\ (s \o t)[i] = t[i - Len(s)]
           /\ ToSet(s \o t) = ToSet(s) \cup ToSet(t)
           /\ \A i \in 1 .. Len(s) : s[i] \in ToSet(s) /\ \A x \in ToSet(s) : \E j \in 1 .. Len(s) : s[j] = x
<1>1. s \o t \in Seq(S) /\ Len(s) \in Nat /\ Len(t) \in Nat /\ Len(s \o t) = Len(s) + Len(t)
      /\ DOMAIN s = 1 .. Len(s) /\ DOMAIN t = 1 .. Len(t) /\ DOMAIN (s \o t) = 1 .. Len(s) + Len(t)
  BY ConcatProperties, LenProperties
<1>2. \A i \in 1 .. Len(s) : (s \o t)[i] = s[i]
  BY <1>1, ConcatProperties
<1>3. \A i \in Len(s) + 1 .. Len(s \o t) : i - Len(s) \in 1 .. Len(t) /\ (s \o t)[i] = t[i - Len(s)]
  BY <1>1, ConcatProperties
<1>4. ToSet(s \o t) \subseteq ToSet(s) \cup ToSet(t)
  <2> SUFFICES ASSUME NEW i \in 1 .. Len(s) + Len(t) PROVE (s \o t)[i] \in ToSet(s) \cup ToSet(t)
    BY <1>1 DEF ToSet
  <2>1. CASE i \in 1 .. Len(s)
    BY <1>1, <1>2, <2>1 DEF ToSet
  <2>2. CASE i \in Len(s) + 1 .. Len(s \o t)
    BY <1>1, <1>3, <2>2 DEF ToSet
  <2> QED
    BY <1>1, <2>1, <2>2
<1>5. ASSUME NEW i \in 1 .. Len(s) PROVE s[i] \in ToSet(s \o t)
  <2>1. i \in 1 .. Len(s) + Len(t)
    BY <1>1
  <2> QED
    BY <1>1, <1>2, <2>1 DEF ToSet
<1>6. ASSUME NEW i \in 1 .. Len(t) PROVE t[i] \in ToSet(s \o t)
  <2>1. i + Len(s) \in 1 .. Len(s) + Len(t) /\ i + Len(s) \in Len(s) + 1 .. Len(s \o t) /\ (i + Len(s)) - Len(s) = i
    BY <1>1
  <2> QED
    BY <1>1, <1>3, <2>1 DEF ToSet
<1>7. ToSet(s) \cup ToSet(t) \subseteq ToSet(s \o t)
  BY <1>1, <1>5, <1>6 DEF ToSet
<1> QED
  BY <1>1, <1>2, <1>3, <1>4, <1>7 DEF ToSet

LEMMA SlListStep == ASSUME SlInv, SlList PROVE SlInv'
<1> DEFINE page == SlPage(slq)
           new == SlSorted(page)
           pre == SlSorted(SlPrefixesOf(slq))
           last == SlLast(page)
           g == Len(slgot)
           x == Len(slpfx)
<1>0. SlTypes /\ slq.pc = "page" /\ slq \in SlAsks /\ slgot \in Seq(SlKeys) /\ slpfx \in Seq(Seq(Nat)) /\ slq.pfx \in Seq(Nat)
      /\ slq.after \in SlKeys \cup {SlNone} /\ slq.after \in Seq(Nat)
  BY KeysAreSeqs DEF SlInv, SlList, SlTypes, SlAsks
<1>1. /\ slgot' = slgot \o new /\ slpfx' = slpfx \o pre /\ slbkt' = slbkt /\ slops' = slops
      /\ slq' = IF SlTruncated(slq) THEN [slq EXCEPT !.after = last] ELSE [slq EXCEPT !.pc = "done"]
      /\ slghost' = [slghost EXCEPT !.lost = @ \/ (slq.after # SlNone /\ slq.after \notin SlFound(slq))]
  BY DEF SlList
<1>2. /\ SlRest(slq) \subseteq SlKeys /\ SlPlain(slq) \subseteq SlRest(slq) /\ page \subseteq SlPlain(slq) /\ IsFiniteSet(page)
      /\ page \subseteq SlKeys /\ page \subseteq Seq(Nat)
      /\ ~SlTruncated(slq) => page = SlPlain(slq)
      /\ SlTruncated(slq) =>
            /\ last \in page
            /\ \A k \in SlPlain(slq) : k \in page \/ SlBefore(last, k)
            /\ \A k \in page : k = last \/ SlBefore(k, last)
      /\ IsFiniteSet(SlPrefixesOf(slq)) /\ SlPrefixesOf(slq) \subseteq Seq(Nat)
      /\ slq.after # SlNone => \A k \in SlRest(slq) : SlBefore(slq.after, k)
  BY <1>0, PageFacts, KeysAreSeqs DEF SlPlain
<1>3. /\ new \in Seq(SlKeys) /\ ToSet(new) = page /\ Len(new) \in Nat
      /\ \A i, j \in 1 .. Len(new) : i < j => SlBefore(new[i], new[j])
  <2>1. new \in Seq(page) /\ ToSet(new) = page /\ Len(new) = Cardinality(page) /\ Cardinality(page) \in Nat
        /\ \A i, j \in 1 .. Cardinality(page) : i < j => SlBefore(new[i], new[j])
    BY <1>2, SortedFacts
  <2> HIDE DEF new, page
  <2> QED
    BY <1>2, <2>1, SeqMonotonic
<1>4. /\ pre \in Seq(Seq(Nat)) /\ ToSet(pre) = SlPrefixesOf(slq) /\ Len(pre) \in Nat
      /\ \A i, j \in 1 .. Len(pre) : i < j => SlBefore(pre[i], pre[j])
  <2> DEFINE pres == SlPrefixesOf(slq)
  <2>1. pre \in Seq(pres) /\ ToSet(pre) = pres /\ Len(pre) = Cardinality(pres) /\ Cardinality(pres) \in Nat
        /\ \A i, j \in 1 .. Cardinality(pres) : i < j => SlBefore(pre[i], pre[j])
    BY <1>2, SortedFacts
  <2> HIDE DEF pre, pres
  <2>2. pre \in Seq(Seq(Nat))
    BY <1>2, <2>1, SeqMonotonic DEF pres
  <2> QED
    BY <2>1, <2>2 DEF pres
<1> HIDE DEF new, pre, page, last
<1>5. /\ slgot' \in Seq(SlKeys) /\ g \in Nat /\ Len(slgot') = g + Len(new)
      /\ \A i \in 1 .. g : slgot'[i] = slgot[i]
      /\ \A i \in g + 1 .. Len(slgot') : i - g \in 1 .. Len(new) /\ slgot'[i] = new[i - g]
      /\ ToSet(slgot') = ToSet(slgot) \cup page
  <2>1. slgot \o new \in Seq(SlKeys) /\ Len(slgot) \in Nat /\ Len(slgot \o new) = Len(slgot) + Len(new)
        /\ ToSet(slgot \o new) = ToSet(slgot) \cup ToSet(new)
    BY <1>0, <1>3, ConcatFacts
  <2>2. /\ \A i \in 1 .. Len(slgot) : (slgot \o new)[i] = slgot[i]
        /\ \A i \in Len(slgot) + 1 .. Len(slgot \o new) :
              i - Len(slgot) \in 1 .. Len(new) /\ (slgot \o new)[i] = new[i - Len(slgot)]
    BY <1>0, <1>3, ConcatFacts
  <2> QED
    BY <1>1, <1>3, <2>1, <2>2
<1>6. /\ slpfx' \in Seq(Seq(Nat)) /\ x \in Nat /\ Len(slpfx') = x + Len(pre) /\ DOMAIN slpfx' = 1 .. Len(slpfx')
      /\ \A i \in 1 .. x : slpfx'[i] = slpfx[i]
      /\ \A i \in x + 1 .. Len(slpfx') : i - x \in 1 .. Len(pre) /\ slpfx'[i] = pre[i - x]
      /\ ToSet(slpfx') = ToSet(slpfx) \cup SlPrefixesOf(slq)
  <2>1. slpfx \o pre \in Seq(Seq(Nat)) /\ Len(slpfx) \in Nat /\ Len(slpfx \o pre) = Len(slpfx) + Len(pre)
        /\ ToSet(slpfx \o pre) = ToSet(slpfx) \cup ToSet(pre)
    BY <1>0, <1>4, ConcatFacts
  <2>2. /\ \A i \in 1 .. Len(slpfx) : (slpfx \o pre)[i] = slpfx[i]
        /\ \A i \in Len(slpfx) + 1 .. Len(slpfx \o pre) :
              i - Len(slpfx) \in 1 .. Len(pre) /\ (slpfx \o pre)[i] = pre[i - Len(slpfx)]
    BY <1>0, <1>4, ConcatFacts
  <2>3. DOMAIN (slpfx \o pre) = 1 .. Len(slpfx \o pre)
    BY <2>1, LenProperties
  <2> QED
    BY <1>1, <1>4, <2>1, <2>2, <2>3
<1>7. \A i \in 1 .. Len(new) : new[i] \in page
  <2>1. DOMAIN new = 1 .. Len(new)
    BY <1>3, LenProperties
  <2> QED
    BY <1>3, <2>1 DEF ToSet
<1>8. \A i \in 1 .. Len(pre) : \E j \in SlRest(slq) :
         /\ SlFolded(j, slq) /\ ~SlDropped(j, slq) /\ pre[i] = SlCommon(j, slq)
         /\ SlTruncated(slq) => SlBefore(j, last)
  <2>1. DOMAIN pre = 1 .. Len(pre)
    BY <1>4, LenProperties
  <2>2. \A i \in 1 .. Len(pre) : pre[i] \in SlPrefixesOf(slq)
    BY <1>4, <2>1 DEF ToSet
  <2> QED
    BY <2>2 DEF SlPrefixesOf, last, page
<1>9. slgot \in Seq(SlKeys) /\ \A i \in 1 .. g : slgot[i] \in SlKeys
  BY <1>0, ElementOfSeq
<1>10. ASSUME slgot # <<>> \/ slpfx # <<>>
       PROVE  /\ slq.after # SlNone /\ slq.after \in SlKeys /\ ~SlFolded(slq.after, slq)
              /\ \A i \in 1 .. g : slgot[i] = slq.after \/ SlBefore(slgot[i], slq.after)
              /\ \A i \in 1 .. x : \E j \in SlKeys :
                    SlFolded(j, slq) /\ slpfx[i] = SlCommon(j, slq) /\ SlBefore(j, slq.after)
  <2>1. slq.after # SlNone
    BY <1>0, <1>10 DEF SlTypes
  <2> QED
    BY <1>0, <1>10, <2>1 DEF SlInv, AllBehind
<1>11. ASSUME SlTruncated(slq), NEW k \in SlKeys, slq.after # SlNone, k = slq.after \/ SlBefore(k, slq.after)
       PROVE  SlBefore(k, last)
  <2>1. last \in SlRest(slq) /\ last \in Seq(Nat) /\ k \in Seq(Nat)
    BY <1>2, <1>11, KeysAreSeqs
  <2>2. SlBefore(slq.after, last)
    BY <1>2, <1>11, <2>1
  <2> QED
    BY <1>0, <1>11, <2>1, <2>2, BeforeTransitive
<1>12. SlTypes'
  <2>1. slq' \in SlAsks /\ slq'.pc # "idle" /\ (slq'.pc = "page" => slq'.after # SlNone)
    <3>1. CASE SlTruncated(slq)
      <4>1. slq' = [slq EXCEPT !.after = last] /\ last \in SlKeys /\ last # SlNone
        BY <1>1, <1>2, <3>1, KeysAreSeqs
      <4> QED
        BY <1>0, <4>1 DEF SlAsks
    <3>2. CASE ~SlTruncated(slq)
      <4>1. slq' = [slq EXCEPT !.pc = "done"]
        BY <1>1, <3>2
      <4> QED
        BY <1>0, <4>1 DEF SlAsks
    <3> QED
      BY <3>1, <3>2
  <2>2. slghost'.stay = slghost.stay /\ slghost' \in [stay : SUBSET SlKeys, lost : BOOLEAN]
    BY <1>0, <1>1 DEF SlTypes
  <2> QED
    BY <1>0, <1>1, <1>5, <1>6, <2>1, <2>2 DEF SlTypes
<1>13. ASSUME NEW i \in 1 .. Len(slgot'), NEW j \in 1 .. Len(slgot'), i < j PROVE SlBefore(slgot'[i], slgot'[j])
  <2>1. CASE j \in 1 .. g
    <3>1. i \in 1 .. g
      BY <1>5, <1>13, <2>1
    <3> QED
      BY <1>5, <1>13, <2>1, <3>1 DEF SlInv, AllInOrder
  <2>2. CASE i \in g + 1 .. Len(slgot')
    <3>1. j \in g + 1 .. Len(slgot') /\ i - g < j - g
      BY <1>5, <1>13, <2>2
    <3> QED
      BY <1>3, <1>5, <2>2, <3>1
  <2>3. CASE i \in 1 .. g /\ j \in g + 1 .. Len(slgot')
    <3>1. slgot # <<>>
      BY <1>5, <2>3
    <3>2. slgot'[j] \in page /\ slgot'[i] = slgot[i] /\ slgot[i] \in SlKeys
      BY <1>5, <1>7, <1>9, <2>3
    <3>3. slgot'[j] \in SlRest(slq) /\ slgot'[j] \in Seq(Nat) /\ slgot[i] \in Seq(Nat)
      BY <1>2, <3>2, KeysAreSeqs
    <3>4. SlBefore(slq.after, slgot'[j])
      BY <1>2, <1>10, <3>1, <3>3
    <3>5. slgot[i] = slq.after \/ SlBefore(slgot[i], slq.after)
      BY <1>10, <2>3, <3>1
    <3> QED
      BY <1>0, <3>2, <3>3, <3>4, <3>5, BeforeTransitive
  <2> QED
    BY <1>5, <2>1, <2>2, <2>3
<1>14. ASSUME NEW i \in 1 .. x, NEW j \in 1 .. Len(pre) PROVE slpfx[i] # pre[j]
  <2> SUFFICES ASSUME slpfx[i] = pre[j] PROVE FALSE
    OBVIOUS
  <2>1. slpfx # <<>>
    BY <1>6
  <2>2. PICK a \in SlKeys : SlFolded(a, slq) /\ slpfx[i] = SlCommon(a, slq) /\ SlBefore(a, slq.after)
    BY <1>10, <2>1
  <2>3. PICK b \in SlRest(slq) : SlFolded(b, slq) /\ pre[j] = SlCommon(b, slq)
    BY <1>8
  <2>4. a \in Seq(Nat) /\ b \in Seq(Nat) /\ SlBefore(slq.after, b)
    BY <1>2, <1>10, <2>1, KeysAreSeqs
  <2>5. IsPrefix(SlCommon(a, slq), a) /\ IsPrefix(SlCommon(a, slq), b) /\ SlCommon(a, slq) \in Seq(Nat)
        /\ \A y \in Seq(Nat) : IsPrefix(SlCommon(a, slq), y) => SlFolded(y, slq)
    BY <1>0, <2>2, <2>3, <2>4, CommonFacts
  <2>6. IsPrefix(SlCommon(a, slq), slq.after)
    BY <1>0, <2>2, <2>4, <2>5, PrefixBetween
  <2> QED
    BY <1>0, <1>10, <2>1, <2>5, <2>6
<1>15. AllInOrder'
  <2>1. IsInjective(slpfx')
    <3> SUFFICES ASSUME NEW i \in 1 .. Len(slpfx'), NEW j \in 1 .. Len(slpfx'), slpfx'[i] = slpfx'[j], i < j PROVE FALSE
      BY <1>6 DEF IsInjective
    <3>1. CASE j \in 1 .. x
      <4>1. i \in 1 .. x /\ DOMAIN slpfx = 1 .. x /\ i # j
        BY <1>0, <1>6, <3>1, LenProperties
      <4>2. IsInjective(slpfx)
        BY DEF SlInv, AllInOrder
      <4> QED
        BY <1>6, <3>1, <4>1, <4>2 DEF IsInjective
    <3>2. CASE i \in x + 1 .. Len(slpfx')
      <4>1. j \in x + 1 .. Len(slpfx') /\ i - x < j - x
        BY <1>6, <3>2
      <4>2. SlBefore(pre[i - x], pre[j - x]) /\ pre[i - x] = pre[j - x]
        BY <1>4, <1>6, <3>2, <4>1
      <4>3. pre[i - x] \in Seq(Nat)
        BY <1>4, <1>6, <3>2, ElementOfSeq
      <4> QED
        BY <4>2, <4>3, BeforeIrreflexive
    <3>3. CASE i \in 1 .. x /\ j \in x + 1 .. Len(slpfx')
      BY <1>6, <1>14, <3>3
    <3> QED
      BY <1>6, <3>1, <3>2, <3>3
  <2> QED
    BY <1>13, <2>1 DEF AllInOrder
<1>16. \A k : SlFolded(k, slq)' = SlFolded(k, slq) /\ SlDropped(k, slq)' = SlDropped(k, slq) /\ SlCommon(k, slq)' = SlCommon(k, slq)
       /\ slq'.pfx = slq.pfx
  <2>1. slq'.pfx = slq.pfx /\ slq'.delim = slq.delim
    BY <1>0, <1>1 DEF SlAsks
  <2> QED
    BY <2>1 DEF SlFolded, SlDropped, SlCommon
<1>17. AllBehind'
  <2> SUFFICES ASSUME SlTruncated(slq) PROVE AllBehind'
    BY <1>0, <1>1 DEF AllBehind, SlAsks
  <2>1. slq'.after = last /\ last \in page /\ last \in SlPlain(slq) /\ last \in SlRest(slq) /\ last \in SlKeys
    BY <1>0, <1>1, <1>2 DEF SlAsks
  <2>2. ~ SlFolded(last, slq)
    BY <2>1 DEF SlPlain
  <2>3. ASSUME NEW i \in 1 .. Len(slgot') PROVE slgot'[i] = last \/ SlBefore(slgot'[i], last)
    <3>1. CASE i \in 1 .. g
      <4>1. slgot # <<>> /\ slgot[i] \in SlKeys /\ slgot'[i] = slgot[i]
        BY <1>5, <1>9, <3>1
      <4> QED
        BY <1>10, <1>11, <3>1, <4>1
    <3>2. CASE i \in g + 1 .. Len(slgot')
      BY <1>2, <1>5, <1>7, <3>2
    <3> QED
      BY <1>5, <3>1, <3>2
  <2>4. ASSUME NEW i \in 1 .. Len(slpfx')
        PROVE  \E j \in SlKeys : SlFolded(j, slq) /\ slpfx'[i] = SlCommon(j, slq) /\ SlBefore(j, last)
    <3>1. CASE i \in 1 .. x
      <4>1. slpfx # <<>>
        BY <1>6, <3>1
      <4>2. PICK j \in SlKeys : SlFolded(j, slq) /\ slpfx[i] = SlCommon(j, slq) /\ SlBefore(j, slq.after)
        BY <1>10, <3>1, <4>1
      <4>3. SlBefore(j, last)
        BY <1>10, <1>11, <4>1, <4>2
      <4> QED
        BY <1>6, <3>1, <4>2, <4>3
    <3>2. CASE i \in x + 1 .. Len(slpfx')
      BY <1>2, <1>6, <1>8, <3>2
    <3> QED
      BY <1>6, <3>1, <3>2
  <2> QED
    BY <1>16, <2>1, <2>2, <2>3, <2>4 DEF AllBehind
<1>18. ListedOrLeft'
  <2> SUFFICES ASSUME ~slghost'.lost, NEW k \in slghost.stay, IsPrefix(slq.pfx, k)
               PROVE  Listed(k)' \/ (slq'.pc = "page" /\ SlBefore(slq'.after, k))
    BY <1>0, <1>1, <1>16 DEF ListedOrLeft, SlTypes
  <2>1. ~slghost.lost /\ (slq.after = SlNone \/ slq.after \in SlFound(slq))
    BY <1>0, <1>1 DEF SlTypes
  <2>2. Listed(k)' = IF SlFolded(k, slq) THEN SlDropped(k, slq) \/ SlCommon(k, slq) \in ToSet(slpfx') ELSE k \in ToSet(slgot')
    BY <1>16 DEF Listed
  <2>3. Listed(k) => Listed(k)'
    BY <1>5, <1>6, <2>2 DEF Listed
  <2>4. ASSUME ~ Listed(k) PROVE k \in SlRest(slq)
    <3>1. slq.after = SlNone \/ SlBefore(slq.after, k)
      BY <1>0, <2>1, <2>4 DEF SlInv, ListedOrLeft
    <3>2. k \in SlFound(slq)
      BY <1>0 DEF SlTypes, SlFound
    <3> QED
      BY <2>1, <3>1, <3>2 DEF SlRest
  <2>5. CASE k \in SlRest(slq) /\ ~SlTruncated(slq)
    <3>1. CASE SlFolded(k, slq)
      <4>1. SlDropped(k, slq) \/ SlCommon(k, slq) \in SlPrefixesOf(slq)
        BY <2>5, <3>1 DEF SlPrefixesOf
      <4> QED
        BY <1>6, <2>2, <3>1, <4>1
    <3>2. CASE ~SlFolded(k, slq)
      <4>1. k \in page
        BY <1>2, <2>5, <3>2 DEF SlPlain
      <4> QED
        BY <1>5, <2>2, <3>2, <4>1
    <3> QED
      BY <3>1, <3>2
  <2>6. CASE k \in SlRest(slq) /\ SlTruncated(slq)
    <3>0. slq'.pc = "page" /\ slq'.after = last /\ last \in SlPlain(slq) /\ last \in page
      BY <1>0, <1>1, <1>2, <2>6 DEF SlAsks
    <3>1. CASE SlFolded(k, slq)
      <4>1. k # last /\ k \in Seq(Nat) /\ last \in Seq(Nat)
        BY <1>2, <2>6, <3>0, <3>1, KeysAreSeqs DEF SlPlain
      <4>2. SlBefore(k, last) \/ SlBefore(last, k)
        BY <4>1, BeforeTotal
      <4>3. SlBefore(k, last) => SlDropped(k, slq) \/ SlCommon(k, slq) \in SlPrefixesOf(slq)
        BY <2>6, <3>1 DEF SlPrefixesOf, last, page
      <4> QED
        BY <1>6, <2>2, <3>0, <3>1, <4>2, <4>3
    <3>2. CASE ~SlFolded(k, slq)
      <4>1. k \in SlPlain(slq)
        BY <2>6, <3>2 DEF SlPlain
      <4>2. k \in page \/ SlBefore(last, k)
        BY <1>2, <2>6, <4>1
      <4> QED
        BY <1>5, <2>2, <3>0, <3>2, <4>2
    <3> QED
      BY <3>1, <3>2
  <2> QED
    BY <2>3, <2>4, <2>5, <2>6
<1> QED
  BY <1>12, <1>15, <1>17, <1>18 DEF SlInv

LEMMA SlBeginStep == ASSUME SlInv, SlBegin PROVE SlInv'
<1>1. slq' \in [pc : {"page"}, pfx : SlPrefixes, delim : BOOLEAN, max : SlMaxKeys, after : SlKeys \cup {SlNone}]
      /\ slghost' = [stay |-> {k \in slbkt : slq'.after = SlNone \/ SlBefore(slq'.after, k)}, lost |-> FALSE]
      /\ slbkt' = slbkt /\ slops' = slops /\ slgot' = <<>> /\ slpfx' = <<>> /\ slgot' = slgot /\ slpfx' = slpfx
  BY DEF SlBegin, SlInv, SlTypes
<1>2. slq' \in SlAsks /\ slq'.pc = "page"
  <2>1. SlPrefixes \subseteq Seq(Nat) /\ SlMaxKeys \subseteq Nat \ {0}
    BY SlAssumption
  <2> QED
    BY <1>1, <2>1 DEF SlAsks
<1>3. SlTypes'
  BY <1>1, <1>2 DEF SlInv, SlTypes
<1>4. AllInOrder'
  BY <1>1 DEF SlInv, AllInOrder
<1>5. AllBehind'
  BY <1>1 DEF AllBehind
<1>6. ListedOrLeft'
  BY <1>1, <1>2 DEF ListedOrLeft
<1> QED
  BY <1>3, <1>4, <1>5, <1>6 DEF SlInv

LEMMA SlQuietStep ==
    ASSUME SlInv, UNCHANGED <<slq, slgot, slpfx>>, slbkt' \subseteq SlKeys, slops' \in 0 .. SlMaxOps,
           slghost' \in [stay : SUBSET SlKeys, lost : BOOLEAN],
           slghost'.stay \subseteq slbkt', slghost'.stay \subseteq slghost.stay, slghost'.lost = slghost.lost
    PROVE  SlInv'
<1>1. SlTypes'
  BY DEF SlInv, SlTypes
<1>2. AllInOrder' /\ AllBehind'
  BY DEF SlInv, AllInOrder, AllBehind, SlFolded, SlCommon
<1>3. ListedOrLeft'
  <2>1. \A k : Listed(k)' <=> Listed(k)
    BY DEF Listed, SlFolded, SlDropped, SlCommon
  <2> QED
    BY <2>1 DEF SlInv, ListedOrLeft
<1> QED
  BY <1>1, <1>2, <1>3 DEF SlInv

LEMMA SlStepInv == ASSUME SlInv, [SlNext]_slVars PROVE SlInv'
<1>0. SlTypes /\ SlMaxOps \in Nat
  BY SlAssumption DEF SlInv
<1>1. ASSUME SlFill PROVE SlInv'
  <2>1. slghost'.stay = {}
    BY <1>0, <1>1 DEF SlFill, SlTypes
  <2> QED
    BY <1>0, <1>1, <2>1, SlQuietStep DEF SlFill, SlTypes
<1>2. ASSUME SlPut PROVE SlInv'
  BY <1>0, <1>2, SlQuietStep DEF SlPut, SlTypes
<1>3. ASSUME SlDelete PROVE SlInv'
  <2>1. PICK k \in slbkt : slbkt' = slbkt \ {k} /\ slghost' = [slghost EXCEPT !.stay = @ \ {k}]
    BY <1>3 DEF SlDelete
  <2>2. slghost' \in [stay : SUBSET SlKeys, lost : BOOLEAN] /\ slghost'.stay = slghost.stay \ {k} /\ slghost'.lost = slghost.lost
    BY <1>0, <2>1 DEF SlTypes
  <2> QED
    BY <1>0, <1>3, <2>1, <2>2, SlQuietStep DEF SlDelete, SlTypes
<1>4. ASSUME UNCHANGED slVars PROVE SlInv'
  BY <1>0, <1>4, SlQuietStep DEF slVars, SlTypes
<1> QED
  BY <1>1, <1>2, <1>3, <1>4, SlBeginStep, SlListStep DEF SlNext

\* A list, page by page, lists every key that was there all the time once, in order,
\* for every set of keys, every prefix and every size of a page (s3/bucket.go
\* s3ListBucket), with the two exceptions ListIsWhole names.
THEOREM ListsAreWhole == SlSpec => [](SlTypeOK /\ ListIsWhole)
<1>1. SlInit => SlInv
  <2> SUFFICES ASSUME SlInit PROVE SlInv
    OBVIOUS
  <2>1. slq \in SlAsks /\ slq.pc = "idle" /\ slgot = <<>> /\ slpfx = <<>> /\ slbkt = {} /\ slops = 0
        /\ slghost = [stay |-> {}, lost |-> FALSE]
    BY DEF SlInit, SlIdle, SlAsks, SlNone
  <2>2. SlMaxOps \in Nat
    BY SlAssumption
  <2>3. SlTypes
    BY <2>1, <2>2 DEF SlTypes
  <2>4. AllInOrder /\ AllBehind /\ ListedOrLeft
    BY <2>1 DEF AllInOrder, AllBehind, ListedOrLeft, IsInjective
  <2> QED
    BY <2>3, <2>4 DEF SlInv
<1>2. SlInv => SlTypeOK /\ ListIsWhole
  <2> SUFFICES ASSUME SlInv PROVE SlTypeOK /\ ListIsWhole
    OBVIOUS
  <2>1. slgot \in Seq(SlKeys) /\ Len(slgot) \in Nat /\ DOMAIN slgot = 1 .. Len(slgot) /\ \A i \in 1 .. Len(slgot) : slgot[i] \in SlKeys
    BY ElementOfSeq, LenProperties DEF SlInv, SlTypes
  <2>2. Len(slgot) <= Cardinality(SlKeys)
    <3> DEFINE n == Len(slgot)
    <3>1. ASSUME NEW i \in 1 .. n, NEW j \in 1 .. n, slgot[i] = slgot[j] PROVE i = j
      <4>1. slgot[i] \in Seq(Nat)
        BY <2>1, KeysAreSeqs
      <4>2. ~ (i < j) /\ ~ (j < i)
        BY <3>1, <4>1, BeforeIrreflexive DEF SlInv, AllInOrder
      <4> QED
        BY <2>1, <4>2
    <3>2. slgot \in [1 .. n -> SlKeys]
      BY <2>1, LenProperties
    <3>3. slgot \in Injection(1 .. n, SlKeys)
      BY <2>1, <3>1, <3>2 DEF Injection, IsInjective
    <3>4. Cardinality(1 .. n) <= Cardinality(SlKeys)
      BY <3>3, KeysAreSeqs, FS_Injection
    <3>5. Cardinality(1 .. n) = n
      <4>1. 1 \in Int /\ n \in Int /\ (IF 1 > n THEN 0 ELSE n - 1 + 1) = n
        <5> HIDE DEF n
        <5>1. n \in Nat
          BY <2>1 DEF n
        <5> QED
          BY <5>1
      <4> QED
        BY <4>1, FS_Interval
    <3> QED
      BY <3>4, <3>5
  <2>3. SlTypeOK
    <3>1. ToSet(slgot) \subseteq SlKeys
      BY <2>1 DEF ToSet
    <3>2. slbkt \subseteq SlKeys /\ slops \in 0 .. SlMaxOps /\ slq \in SlAsks
      BY DEF SlInv, SlTypes
    <3>3. slq.pc \in {"idle", "page", "done"} /\ slq.after \in SlKeys \cup {SlNone}
      BY <3>2 DEF SlAsks
    <3> QED
      BY <2>2, <3>1, <3>2, <3>3 DEF SlTypeOK
  <2>4. \A i \in 1 .. Len(slgot) - 1 : SlBefore(slgot[i], slgot[i + 1])
    <3> SUFFICES ASSUME NEW i \in 1 .. Len(slgot) - 1 PROVE SlBefore(slgot[i], slgot[i + 1])
      OBVIOUS
    <3>1. i \in 1 .. Len(slgot) /\ i + 1 \in 1 .. Len(slgot) /\ i < i + 1
      BY <2>1
    <3> QED
      BY <3>1 DEF SlInv, AllInOrder
  <2>5. IsInjective(slpfx)
    BY DEF SlInv, AllInOrder
  <2>6. slq.pc = "done" /\ ~slghost.lost => \A k \in slghost.stay : IsPrefix(slq.pfx, k) => Listed(k)
    BY DEF SlInv, ListedOrLeft
  <2> QED
    BY <2>3, <2>4, <2>5, <2>6 DEF ListIsWhole, Listed
<1> QED
  BY <1>1, <1>2, SlStepInv, PTL DEF SlSpec

-----------------------------------------------------------------------------
(* Messages in packets.  All packets of a message but the last are full,   *)
(* and the last is not: so the receiver knows where a message ends.        *)

LEMMA Euclid ==
    ASSUME NEW a \in Nat, NEW c \in Nat \ {0}
    PROVE  a \div c \in Nat /\ a % c \in 0 .. c - 1 /\ a = (c * (a \div c)) + (a % c)
  OBVIOUS

LEMMA Times ==
    ASSUME NEW c \in Nat
    PROVE /\ \A i, j \in Int : i <= j => i * c <= j * c
          /\ \A i \in Int : (i + 1) * c = i * c + c /\ (i - 1) * c = i * c - c /\ i * c \in Int /\ c * i = i * c
          /\ \A i \in Nat : i * c \in Nat
          /\ 0 * c = 0 /\ 1 * c = c
  OBVIOUS

LEMMA NoRest ==
    ASSUME NEW c \in Nat \ {0}, NEW i \in Int, NEW j \in Int, NEW r \in 0 .. c - 1, i * c = j * c + r
    PROVE  r = 0
<1>1. CASE i <= j
  <2>1. i * c <= j * c /\ i * c \in Int /\ j * c \in Int
    BY <1>1, Times
  <2> QED
    BY <2>1
<1>2. CASE i >= j + 1
  <2>1. (j + 1) * c <= i * c /\ (j + 1) * c = j * c + c /\ i * c \in Int /\ j * c \in Int
    BY <1>2, Times
  <2> QED
    BY <2>1
<1> QED
  BY <1>1, <1>2

\* A multiple leaves no rest, and what leaves none is a multiple.
LEMMA Multiples ==
    ASSUME NEW c \in Nat \ {0}, NEW a \in Nat
    PROVE  (a % c = 0) <=> \E i \in Int : a = i * c
<1>1. a \div c \in Nat /\ a % c \in 0 .. c - 1 /\ a = ((a \div c) * c) + (a % c)
  <2>1. c * (a \div c) = (a \div c) * c
    BY Euclid, Times
  <2> QED
    BY <2>1, Euclid
<1> DEFINE x == a \div c
           y == a % c
<1>2. x \in Int /\ y \in 0 .. c - 1 /\ a = x * c + y /\ x * c \in Int
  BY <1>1, Times
<1> HIDE DEF x, y
<1>3. y = 0 => a = x * c
  BY <1>2
<1>4. ASSUME NEW i \in Int, a = i * c PROVE y = 0
  BY <1>2, <1>4, NoRest
<1> QED
  BY <1>2, <1>3, <1>4 DEF y

LEMMA Joined ==
    ASSUME NEW S, NEW s \in Seq(S), NEW a \in Nat, NEW b \in Nat, a <= b, b <= Len(s)
    PROVE  /\ SubSeq(s, 1, a) \o SubSeq(s, a + 1, b) = SubSeq(s, 1, b)
           /\ SubSeq(s, a + 1, b) \in Seq(S) /\ Len(SubSeq(s, a + 1, b)) = b - a
           /\ \A k \in 1 .. b - a : SubSeq(s, a + 1, b)[k] = s[a + k]
           /\ SubSeq(s, 1, Len(s)) = s /\ SubSeq(s, 1, 0) = <<>> /\ Len(s) \in Nat
<1>0. Len(s) \in Nat /\ DOMAIN s = 1 .. Len(s) /\ s = [k \in 1 .. Len(s) |-> s[k]] /\ \A k \in 1 .. Len(s) : s[k] \in S
  BY LenProperties, ElementOfSeq
<1>1. SubSeq(s, 1, a) = [k \in 1 .. a |-> s[k]]
  <2>1. 1 + a - 1 = a /\ \A k \in 1 .. a : k + 1 - 1 = k
    OBVIOUS
  <2> QED
    BY <2>1 DEF SubSeq
<1>2. SubSeq(s, 1, b) = [k \in 1 .. b |-> s[k]]
  <2>1. 1 + b - 1 = b /\ \A k \in 1 .. b : k + 1 - 1 = k
    OBVIOUS
  <2> QED
    BY <2>1 DEF SubSeq
<1>3. SubSeq(s, a + 1, b) = [k \in 1 .. b - a |-> s[a + k]]
  <2>1. 1 + b - (a + 1) = b - a /\ \A k \in 1 .. b - a : k + (a + 1) - 1 = a + k
    OBVIOUS
  <2> QED
    BY <2>1 DEF SubSeq
<1>4. SubSeq(s, 1, Len(s)) = s
  <2>1. 1 + Len(s) - 1 = Len(s) /\ \A k \in 1 .. Len(s) : k + 1 - 1 = k
    BY <1>0
  <2>2. SubSeq(s, 1, Len(s)) = [k \in 1 .. Len(s) |-> s[k]]
    BY <2>1 DEF SubSeq
  <2> QED
    BY <1>0, <2>2
<1>5. SubSeq(s, 1, 0) = <<>>
  BY <1>0
<1> DEFINE u == [k \in 1 .. a |-> s[k]]
           v == [k \in 1 .. b - a |-> s[a + k]]
           t == [k \in 1 .. b |-> s[k]]
<1>6. u \in Seq(S) /\ Len(u) = a /\ v \in Seq(S) /\ Len(v) = b - a /\ b - a \in Nat
  <2>1. (\A k \in 1 .. a : s[k] \in S) /\ (\A k \in 1 .. b - a : s[a + k] \in S) /\ b - a \in Nat
    BY <1>0
  <2> QED
    BY <2>1
<1>7. u \o v = t
  <2>1. u \o v \in Seq(S) /\ Len(u \o v) = b
    <3> HIDE DEF u, v
    <3>1. u \o v \in Seq(S) /\ Len(u \o v) = Len(u) + Len(v)
      BY <1>6, ConcatProperties
    <3>2. a + (b - a) = b
      OBVIOUS
    <3> QED
      BY <1>6, <3>1, <3>2
  <2>2. ASSUME NEW k \in 1 .. b PROVE (u \o v)[k] = s[k]
    <3>1. CASE k <= a
      <4>1. (u \o v)[k] = u[k]
        <5> HIDE DEF u, v
        <5> QED
          BY <1>6, <3>1, ConcatProperties
      <4> QED
        BY <3>1, <4>1
    <3>2. CASE k > a
      <4>1. (u \o v)[k] = v[k - a] /\ k - a \in 1 .. b - a /\ a + (k - a) = k
        <5> HIDE DEF u, v
        <5> QED
          BY <1>6, <3>2, ConcatProperties
      <4> QED
        BY <4>1
    <3> QED
      BY <3>1, <3>2
  <2>3. u \o v = [k \in 1 .. b |-> (u \o v)[k]]
    <3> HIDE DEF u, v
    <3> QED
      BY <2>1, LenProperties
  <2> HIDE DEF u, v
  <2> QED
    BY <2>2, <2>3
<1> QED
  BY <1>0, <1>1, <1>2, <1>3, <1>4, <1>5, <1>6, <1>7

\* The packets of a message
LEMMA PacketsFacts ==
    ASSUME NEW S, NEW m \in Seq(S)
    PROVE  /\ Packets(m) \in Seq(Seq(S)) /\ Len(Packets(m)) \in Nat /\ DOMAIN Packets(m) = 1 .. Len(Packets(m))
           /\ Len(m) <= Len(Packets(m)) * XqChunk
           /\ \A i \in 1 .. Len(Packets(m)) :
                 /\ (i - 1) * XqChunk \in Nat /\ (i - 1) * XqChunk < Len(m)
                 /\ Packets(m)[i] = SubSeq(m, (i - 1) * XqChunk + 1, IF i * XqChunk < Len(m) THEN i * XqChunk ELSE Len(m))
                 /\ Len(Packets(m)[i]) = IF i * XqChunk < Len(m) THEN XqChunk ELSE Len(m) - (i - 1) * XqChunk
                 /\ Len(Packets(m)[i]) \in 1 .. XqChunk
                 /\ i * XqChunk = (i - 1) * XqChunk + XqChunk
                 /\ i # Len(Packets(m)) => i * XqChunk < Len(m)
<1> DEFINE c == XqChunk
           l == Len(m)
           n == (l + c - 1) \div c
           ps == Packets(m)
<1>0. c \in Nat \ {0} /\ l \in Nat /\ c \in Nat
  BY XqChunkAssumption, LenProperties
<1>1. n \in Nat /\ n * c \in Int /\ l <= n * c /\ n * c <= l + c - 1
  <2> DEFINE a == l + c - 1
             r == a % c
  <2>1. a \in Nat
    BY <1>0
  <2>2. n \in Nat /\ r \in 0 .. c - 1 /\ a = (c * n) + r
    <3> HIDE DEF a, c
    <3> QED
      BY <1>0, <2>1, Euclid DEF a, c
  <2>3. c * n = n * c /\ n * c \in Int
    <3> HIDE DEF n, c
    <3> QED
      BY <1>0, <2>2, Times
  <2> HIDE DEF n, r, c, l
  <2> QED
    BY <1>0, <2>2, <2>3
<1>2. ps = [i \in 1 .. n |-> SubSeq(m, (i - 1) * c + 1, IF i * c < l THEN i * c ELSE l)]
  BY DEF Packets
<1> HIDE DEF n, ps, c, l
<1>3. ASSUME NEW i \in 1 .. n
      PROVE  /\ (i - 1) * c \in Nat /\ (i - 1) * c < l /\ i * c = (i - 1) * c + c /\ i * c \in Nat
             /\ i # n => i * c < l
  <2>1. i * c <= n * c /\ (i - 1) * c = i * c - c /\ i * c \in Nat /\ (i - 1) * c \in Nat
    <3>1. i \in Int /\ n \in Int /\ i <= n /\ i \in Nat /\ i - 1 \in Nat
      BY <1>1
    <3> QED
      BY <1>0, <3>1, Times
  <2>2. i # n => i * c + c <= n * c
    <3> SUFFICES ASSUME i # n PROVE i * c + c <= n * c
      OBVIOUS
    <3>1. i + 1 \in Int /\ n \in Int /\ i + 1 <= n /\ i \in Int
      BY <1>1
    <3>2. (i + 1) * c <= n * c /\ (i + 1) * c = i * c + c
      BY <1>0, <3>1, Times
    <3> QED
      BY <3>2
  <2> DEFINE ic == i * c   nc == n * c   jc == (i - 1) * c
  <2>3. ic \in Nat /\ nc \in Int /\ jc \in Nat /\ ic <= nc /\ jc = ic - c /\ (i # n => ic + c <= nc) /\ nc <= l + c - 1
    BY <1>1, <2>1, <2>2
  <2> HIDE DEF ic, nc, jc
  <2>4. jc < l /\ ic = jc + c /\ (i # n => ic < l)
    BY <1>0, <2>3
  <2> QED
    BY <2>1, <2>4 DEF ic, jc
<1>4. ASSUME NEW i \in 1 .. n
      PROVE  /\ ps[i] = SubSeq(m, (i - 1) * c + 1, IF i * c < l THEN i * c ELSE l)
             /\ Len(ps[i]) = IF i * c < l THEN c ELSE l - (i - 1) * c
             /\ Len(ps[i]) \in 1 .. c /\ ps[i] \in Seq(S)
  <2> DEFINE a == (i - 1) * c
             b == IF i * c < l THEN i * c ELSE l
             ic == i * c
  <2>1. a \in Nat /\ a < l /\ ic = a + c /\ ic \in Nat /\ b = IF ic < l THEN ic ELSE l
    BY <1>3
  <2> HIDE DEF a, b, ic
  <2>2. b \in Nat /\ a <= b /\ b <= l /\ b - a \in 1 .. c /\ b - a = IF ic < l THEN c ELSE l - a
    BY <1>0, <2>1
  <2>3. SubSeq(m, a + 1, b) \in Seq(S) /\ Len(SubSeq(m, a + 1, b)) = b - a
    BY <2>1, <2>2, Joined DEF l
  <2>4. ps[i] = SubSeq(m, a + 1, b)
    BY <1>2 DEF a, b
  <2> QED
    BY <2>2, <2>3, <2>4 DEF a, b, ic
<1>5. ps \in Seq(Seq(S)) /\ Len(ps) = n /\ DOMAIN ps = 1 .. n
  <2>1. ps = [i \in 1 .. n |-> ps[i]] /\ \A i \in 1 .. n : ps[i] \in Seq(S)
    BY <1>2, <1>4
  <2>2. ps \in [1 .. n -> Seq(S)]
    BY <2>1
  <2> QED
    BY <1>1, <2>2
<1> QED
  BY <1>1, <1>3, <1>4, <1>5 DEF ps, c, l

-----------------------------------------------------------------------------
\* The packets a sender makes of a message
Pieces(m) == CASE xqway[1] = "go" -> Packets(Padded(m))
               [] xqway[1] = "js" -> JsSend(m)
               [] xqway[1] = "py" -> PySend(m)
               [] xqway[1] = "cs" -> CsSend(m)
XqBound == IF xqway[1] = "cs" THEN XqMaxLen ELSE XqChunk

LEMMA MessageFacts ==
    ASSUME NEW m \in XqMessages
    PROVE  /\ m \in Seq(XqBytes) /\ Len(m) \in 0 .. XqMaxLen /\ Len(m) \in Nat
           /\ Padded(m) \in Seq(XqBytes) /\ Len(Padded(m)) \in Nat /\ Len(Padded(m)) % XqChunk # 0
           /\ Len(m) % XqChunk # 0 => Padded(m) = m
           /\ Len(m) % XqChunk = 0 => Padded(m) = Append(m, 0) /\ Last(Padded(m)) = 0 /\ Front(Padded(m)) = m
           /\ Len(m) \in 1 .. XqChunk - 1 => Len(m) % XqChunk # 0
<1>0. XqChunk \in Nat \ {0} /\ XqChunk # 1 /\ 0 \in XqBytes /\ XqMaxLen \in Nat
  BY XqChunkAssumption
<1>1. m \in Seq(XqBytes) /\ Len(m) \in 0 .. XqMaxLen /\ Len(m) \in Nat
  <2>1. PICK n \in 0 .. XqMaxLen : m \in [1 .. n -> XqBytes]
    BY DEF XqMessages
  <2>2. n \in Nat
    BY <1>0
  <2> QED
    BY <2>1, <2>2
<1>2. ASSUME Len(m) % XqChunk # 0
      PROVE  Padded(m) = m /\ Padded(m) \in Seq(XqBytes) /\ Len(Padded(m)) \in Nat /\ Len(Padded(m)) % XqChunk # 0
  <2>1. Padded(m) = m
    BY <1>2 DEF Padded
  <2> QED
    BY <1>1, <1>2, <2>1
<1>3. ASSUME Len(m) % XqChunk = 0
      PROVE  /\ Padded(m) = Append(m, 0) /\ Last(Padded(m)) = 0 /\ Front(Padded(m)) = m
             /\ Padded(m) \in Seq(XqBytes) /\ Len(Padded(m)) \in Nat /\ Len(Padded(m)) % XqChunk # 0
  <2>1. Padded(m) = Append(m, 0)
    BY <1>3 DEF Padded
  <2> DEFINE w == Padded(m)
             l == Len(m)
  <2>2. w \in Seq(XqBytes) /\ Len(w) = l + 1 /\ w[l + 1] = 0 /\ \A k \in 1 .. l : w[k] = m[k]
    <3> HIDE DEF w
    <3> QED
      BY <1>0, <1>1, <2>1, AppendProperties DEF w
  <2> HIDE DEF w
  <2>3. Last(w) = 0
    BY <2>2 DEF Last
  <2>4. Front(w) = m
    <3>1. Len(w) - 1 = l /\ l \in Nat /\ l <= Len(w) /\ Len(m) = l
      BY <1>1, <2>2
    <3>2. Front(w) = SubSeq(w, 1, l)
      BY <3>1 DEF Front
    <3>3. SubSeq(w, 1, l) = [k \in 1 .. l |-> w[k]]
      <4>1. 1 + l - 1 = l /\ \A k \in 1 .. l : k + 1 - 1 = k
        BY <3>1
      <4> QED
        BY <4>1 DEF SubSeq
    <3>4. m = [k \in 1 .. l |-> m[k]]
      BY <1>1, LenProperties
    <3> QED
      BY <2>2, <3>2, <3>3, <3>4
  <2>5. (l + 1) % XqChunk # 0
    <3> SUFFICES ASSUME (l + 1) % XqChunk = 0 PROVE FALSE
      OBVIOUS
    <3>1. PICK i \in Int : l = i * XqChunk
      BY <1>0, <1>1, <1>3, Multiples
    <3>2. l + 1 \in Nat
      BY <1>1
    <3>3. PICK j \in Int : l + 1 = j * XqChunk
      BY <1>0, <3>2, Multiples
    <3>4. 1 \in 0 .. XqChunk - 1 /\ j * XqChunk = i * XqChunk + 1
      BY <1>0, <3>1, <3>3
    <3> QED
      BY <1>0, <3>4, NoRest
  <2> QED
    BY <1>1, <2>1, <2>2, <2>3, <2>4, <2>5 DEF w
<1>4. ASSUME Len(m) \in 1 .. XqChunk - 1 PROVE Len(m) % XqChunk # 0
  <2> SUFFICES ASSUME Len(m) % XqChunk = 0 PROVE FALSE
    OBVIOUS
  <2>1. PICK i \in Int : Len(m) = i * XqChunk
    BY <1>0, <1>1, Multiples
  <2>2. i * XqChunk = 0 * XqChunk + Len(m) /\ Len(m) \in 0 .. XqChunk - 1
    BY <1>0, <1>1, <1>4, <2>1, Times
  <2>3. Len(m) = 0
    BY <1>0, <2>2, NoRest
  <2> QED
    BY <1>4, <2>3
<1> QED
  BY <1>1, <1>2, <1>3, <1>4

\* Of a message, whoever sends it, only the last packet is not full.
LEMMA PiecesFacts ==
    ASSUME NEW m \in XqMessages, xqway \in XqWays
    PROVE  /\ Pieces(m) \in Seq(Seq(XqBytes)) /\ Len(Pieces(m)) \in Nat /\ DOMAIN Pieces(m) = 1 .. Len(Pieces(m))
           /\ \A i \in 1 .. Len(Pieces(m)) :
                 /\ Pieces(m)[i] \in Seq(XqBytes) /\ Len(Pieces(m)[i]) \in 1 .. XqBound
                 /\ Len(Pieces(m)[i]) < XqChunk => i = Len(Pieces(m))
<1>0. XqChunk \in Nat /\ m \in Seq(XqBytes) /\ Padded(m) \in Seq(XqBytes) /\ Len(m) \in 0 .. XqMaxLen /\ XqMaxLen \in Nat
  BY MessageFacts, XqChunkAssumption
<1>1. ASSUME NEW w \in Seq(XqBytes), xqway[1] # "cs"
      PROVE  /\ Packets(w) \in Seq(Seq(XqBytes)) /\ Len(Packets(w)) \in Nat /\ DOMAIN Packets(w) = 1 .. Len(Packets(w))
             /\ \A i \in 1 .. Len(Packets(w)) :
                   /\ Packets(w)[i] \in Seq(XqBytes) /\ Len(Packets(w)[i]) \in 1 .. XqBound
                   /\ Len(Packets(w)[i]) < XqChunk => i = Len(Packets(w))
  <2>1. Packets(w) \in Seq(Seq(XqBytes)) /\ Len(Packets(w)) \in Nat /\ DOMAIN Packets(w) = 1 .. Len(Packets(w))
    BY PacketsFacts
  <2>2. ASSUME NEW i \in 1 .. Len(Packets(w))
        PROVE  /\ Packets(w)[i] \in Seq(XqBytes) /\ Len(Packets(w)[i]) \in 1 .. XqBound
               /\ Len(Packets(w)[i]) < XqChunk => i = Len(Packets(w))
    <3>1. Packets(w)[i] \in Seq(XqBytes)
      BY <2>1, ElementOfSeq
    <3>2. /\ Len(Packets(w)[i]) = IF i * XqChunk < Len(w) THEN XqChunk ELSE Len(w) - (i - 1) * XqChunk
          /\ Len(Packets(w)[i]) \in 1 .. XqChunk
          /\ i # Len(Packets(w)) => i * XqChunk < Len(w)
      BY PacketsFacts
    <3>3. i # Len(Packets(w)) => Len(Packets(w)[i]) = XqChunk
      BY <3>2
    <3>4. XqBound = XqChunk
      BY <1>1 DEF XqBound
    <3> QED
      BY <1>0, <3>1, <3>2, <3>3, <3>4
  <2> QED
    BY <2>1, <2>2
<1>2. CASE xqway[1] = "cs"
  <2>1. Pieces(m) = IF m = <<>> THEN <<>> ELSE <<m>>
    BY <1>2 DEF Pieces, CsSend
  <2>2. m # <<>> => Len(m) \in 1 .. XqMaxLen
    BY <1>0
  <2>3. CASE m = <<>>
    <3>1. Pieces(m) = <<>>
      BY <2>1, <2>3
    <3> QED
      BY <3>1
  <2>4. CASE m # <<>>
    <3>1. Pieces(m) = <<m>> /\ Len(m) \in 1 .. XqBound
      BY <1>2, <2>1, <2>2, <2>4 DEF XqBound
    <3> HIDE DEF XqBound
    <3>2. <<m>> \in Seq(Seq(XqBytes)) /\ Len(<<m>>) = 1 /\ <<m>>[1] = m /\ DOMAIN <<m>> = 1 .. 1
      BY <1>0
    <3> QED
      BY <1>0, <3>1, <3>2
  <2> QED
    BY <2>3, <2>4
<1>3. CASE xqway[1] \in {"go", "js"}
  <2>1. Pieces(m) = Packets(Padded(m))
    BY <1>3 DEF Pieces, JsSend
  <2> QED
    BY <1>0, <1>1, <1>3, <2>1
<1>4. CASE xqway[1] = "py"
  <2>1. Pieces(m) = Packets(m)
    BY <1>4 DEF Pieces, PySend
  <2> QED
    BY <1>0, <1>1, <1>4, <2>1
<1>5. xqway[1] \in {"go", "js", "py", "cs"}
  BY DEF XqWays, XqLangs
<1> QED
  BY <1>2, <1>3, <1>4, <1>5

LEMMA StartOf ==
    ASSUME NEW w, NEW d \in Nat
    PROVE  SubSeq(w, 1, d) = [k \in 1 .. d |-> w[k]]
<1>1. 1 + d - 1 = d /\ \A k \in 1 .. d : k + 1 - 1 = k
  OBVIOUS
<1> QED
  BY <1>1 DEF SubSeq

\* Of a message that is handled, the packets are those of the padded message.
LEMMA HandledPieces ==
    ASSUME NEW m \in XqMessages, xqway \in XqWays, Handled(m)
    PROVE  /\ Pieces(m) = Packets(Padded(m)) /\ Len(Pieces(m)) >= 1
           /\ xqway[2] # "go" => Padded(m) = m
           /\ xqway[2] = "cs" => Len(Pieces(m)) = 1 /\ Len(m) < XqChunk
<1>0. /\ XqChunk \in Nat \ {0} /\ m \in Seq(XqBytes) /\ Len(m) \in Nat
      /\ Padded(m) \in Seq(XqBytes) /\ Len(Padded(m)) \in Nat /\ Len(Padded(m)) % XqChunk # 0
      /\ Len(m) % XqChunk # 0 => Padded(m) = m
      /\ Len(m) \in 1 .. XqChunk - 1 => Len(m) % XqChunk # 0
  BY MessageFacts, XqChunkAssumption
<1>1. xqway[1] \in {"go", "js", "py", "cs"} /\ xqway[2] \in {"go", "js", "py", "cs"} /\ (xqway[1] = "go" \/ xqway[2] = "go")
  BY DEF XqWays, XqLangs
<1>2. Len(Padded(m)) # 0
  <2>1. 0 % XqChunk = 0
    <3>1. 0 = 0 * XqChunk
      BY <1>0, Times
    <3> QED
      BY <1>0, <3>1, Multiples
  <2> QED
    BY <1>0, <2>1
<1>3. Len(Packets(Padded(m))) >= 1 /\ Len(Packets(Padded(m))) \in Nat
  <2> DEFINE n == Len(Packets(Padded(m)))
  <2>1. n \in Nat /\ Len(Padded(m)) <= n * XqChunk
    BY <1>0, PacketsFacts
  <2>2. n # 0
    <3> SUFFICES ASSUME n = 0 PROVE FALSE
      OBVIOUS
    <3>1. n * XqChunk = 0
      BY <1>0, Times
    <3> QED
      BY <1>0, <1>2, <2>1, <3>1
  <2> HIDE DEF n
  <2> QED
    BY <2>1, <2>2 DEF n
<1>4. ASSUME "cs" \in {xqway[1], xqway[2]}
      PROVE  Len(m) \in 1 .. XqChunk - 1 /\ Padded(m) = m /\ Len(Packets(m)) = 1 /\ Packets(m) = <<m>> /\ m # <<>>
  <2>1. m # <<>> /\ Len(m) < XqChunk
    BY <1>4 DEF Handled
  <2>2. Len(m) \in 1 .. XqChunk - 1
    BY <1>0, <2>1
  <2>3. Padded(m) = m
    BY <1>0, <2>2
  <2> DEFINE n == Len(Packets(m))
  <2>4. n \in Nat /\ n >= 1
    BY <1>3, <2>3
  <2>5. n = 1
    <3> SUFFICES ASSUME n # 1 PROVE FALSE
      OBVIOUS
    <3>1. 2 \in 1 .. n
      <4> HIDE DEF n
      <4> QED
        BY <2>4
    <3>2. (2 - 1) * XqChunk < Len(m)
      BY <1>0, <3>1, PacketsFacts
    <3>3. (2 - 1) * XqChunk = XqChunk
      BY <1>0, Times
    <3> QED
      BY <1>0, <2>1, <3>2, <3>3
  <2>6. Packets(m)[1] = m
    <3>0. 1 \in 1 .. Len(Packets(m))
      BY <2>5
    <3>1. Packets(m)[1] = SubSeq(m, (1 - 1) * XqChunk + 1, IF 1 * XqChunk < Len(m) THEN 1 * XqChunk ELSE Len(m))
      BY <1>0, <3>0, PacketsFacts
    <3>2. (1 - 1) * XqChunk + 1 = 1 /\ 1 * XqChunk = XqChunk /\ ~ (XqChunk < Len(m))
      <4>1. 1 - 1 = 0 /\ 0 * XqChunk = 0 /\ 1 * XqChunk = XqChunk
        BY <1>0, Times
      <4> QED
        BY <1>0, <2>1, <4>1
    <3>3. Packets(m)[1] = SubSeq(m, 1, Len(m))
      BY <3>1, <3>2
    <3> QED
      BY <1>0, <3>3, Joined
  <2>7. Packets(m) = <<m>>
    <3>1. Packets(m) \in Seq(Seq(XqBytes)) /\ DOMAIN Packets(m) = 1 .. 1
      BY <1>0, <2>5, PacketsFacts
    <3>2. Packets(m) = [i \in 1 .. 1 |-> Packets(m)[i]]
      BY <2>5, <3>1, LenProperties
    <3> QED
      BY <2>6, <3>2
  <2> QED
    BY <2>1, <2>2, <2>3, <2>5, <2>7
<1>5. xqway[2] # "go" => Padded(m) = m
  <2>1. CASE xqway[2] \in {"js", "py"}
    BY <1>0, <2>1 DEF Handled
  <2>2. CASE xqway[2] = "cs"
    BY <1>4, <2>2
  <2> QED
    BY <1>1, <2>1, <2>2
<1>6. Pieces(m) = Packets(Padded(m))
  <2>1. CASE xqway[1] \in {"go", "js"}
    BY <2>1 DEF Pieces, JsSend
  <2>2. CASE xqway[1] = "py"
    <3>1. Padded(m) = m
      BY <1>0, <2>2 DEF Handled
    <3> QED
      BY <2>2, <3>1 DEF Pieces, PySend
  <2>3. CASE xqway[1] = "cs"
    <3>1. Padded(m) = m /\ Packets(m) = <<m>> /\ m # <<>>
      BY <1>4, <2>3
    <3> QED
      BY <2>3, <3>1 DEF Pieces, CsSend
  <2> QED
    BY <1>1, <2>1, <2>2, <2>3
<1>7. xqway[2] = "cs" => Len(Pieces(m)) = 1 /\ Len(m) < XqChunk
  <2> SUFFICES ASSUME xqway[2] = "cs" PROVE Len(Pieces(m)) = 1 /\ Len(m) < XqChunk
    OBVIOUS
  <2>1. Len(m) \in 1 .. XqChunk - 1 /\ Padded(m) = m /\ Len(Packets(m)) = 1
    BY <1>4
  <2> QED
    BY <1>0, <1>6, <2>1
<1> QED
  BY <1>3, <1>5, <1>6, <1>7

\* What the receiver has put together of a message after i packets, and what it makes
\* of the last one.
Together(m, i) == SubSeq(Padded(m), 1, i * XqChunk)

LEMMA PieceJoins ==
    ASSUME NEW m \in XqMessages, xqway \in XqWays, Handled(m), NEW i \in 1 .. Len(Pieces(m)),
           NEW w, w = Pieces(m)[i]
    PROVE  /\ w \in Seq(XqBytes) /\ Len(w) \in 1 .. XqChunk
           /\ i # Len(Pieces(m)) => Len(w) = XqChunk /\ Together(m, i - 1) \o w = Together(m, i)
           /\ i = Len(Pieces(m)) =>
                 /\ Len(w) < XqChunk
                 /\ Together(m, i - 1) \o w = Padded(m)
                 /\ Last(w) = Last(Padded(m))
                 /\ Together(m, i - 1) \o Front(w) = Front(Padded(m))
<1> DEFINE full == Padded(m)
           c == XqChunk
           l == Len(full)
           a == (i - 1) * c
           n == Len(Pieces(m))
           ic == i * c
<1>0. /\ c \in Nat \ {0} /\ full \in Seq(XqBytes) /\ l \in Nat /\ l % c # 0
      /\ Pieces(m) = Packets(full)
  BY MessageFacts, XqChunkAssumption, HandledPieces
<1>1. /\ a \in Nat /\ a < l /\ ic = a + c /\ (i # n => ic < l)
      /\ w = SubSeq(full, a + 1, IF ic < l THEN ic ELSE l) /\ n \in Nat
      /\ Len(w) \in 1 .. c /\ w \in Seq(XqBytes) /\ l <= n * c
  <2> HIDE DEF full
  <2>1. Packets(full) \in Seq(Seq(XqBytes)) /\ Len(Packets(full)) \in Nat /\ l <= Len(Packets(full)) * XqChunk
        /\ i \in 1 .. Len(Packets(full))
    BY <1>0, PacketsFacts
  <2>2. w \in Seq(XqBytes)
    BY <1>0, <2>1, ElementOfSeq
  <2>3. /\ (i - 1) * XqChunk \in Nat /\ (i - 1) * XqChunk < Len(full)
        /\ Packets(full)[i] = SubSeq(full, (i - 1) * XqChunk + 1, IF i * XqChunk < Len(full) THEN i * XqChunk ELSE Len(full))
        /\ Len(Packets(full)[i]) \in 1 .. XqChunk
        /\ i * XqChunk = (i - 1) * XqChunk + XqChunk
        /\ i # Len(Packets(full)) => i * XqChunk < Len(full)
    BY <1>0, <2>1, PacketsFacts
  <2> QED
    BY <1>0, <2>1, <2>2, <2>3
<1>2. Together(m, i - 1) = SubSeq(full, 1, a) /\ Together(m, i) = SubSeq(full, 1, ic)
  BY DEF Together
<1>3. ASSUME i # n PROVE Len(w) = c /\ Together(m, i - 1) \o w = Together(m, i)
  <2> HIDE DEF full, a, ic, c
  <2>1. ic < l /\ w = SubSeq(full, a + 1, ic) /\ ic \in Nat /\ a <= ic /\ ic <= l /\ ic - a = c
    BY <1>0, <1>1, <1>3
  <2>2. SubSeq(full, 1, a) \o SubSeq(full, a + 1, ic) = SubSeq(full, 1, ic) /\ Len(SubSeq(full, a + 1, ic)) = ic - a
    BY <1>0, <1>1, <2>1, Joined
  <2> QED
    BY <1>2, <2>1, <2>2
<1>4. ASSUME i = n
      PROVE  /\ Len(w) < c
             /\ Together(m, i - 1) \o w = full
             /\ Last(w) = Last(full)
             /\ Together(m, i - 1) \o Front(w) = Front(full)
  <2>0. ic # l
    <3> SUFFICES ASSUME l = ic PROVE FALSE
      OBVIOUS
    <3>1. i \in Int
      BY <1>1
    <3> HIDE DEF full, l, c
    <3> QED
      BY <1>0, <3>1, Multiples
  <2>1. ic = n * c
    BY <1>4
  <2> HIDE DEF full, a, ic, c, l
  <2>2. l < ic
    <3>1. l <= ic /\ ic \in Nat
      BY <1>0, <1>1, <2>1
    <3> QED
      BY <1>0, <2>0, <3>1
  <2>3. w = SubSeq(full, a + 1, l)
    <3>1. ~ (ic < l)
      BY <1>0, <1>1, <2>2
    <3> QED
      BY <1>1, <3>1
  <2>4. a \in Nat /\ l \in Nat /\ a <= l /\ a < l /\ l <= Len(full) /\ l = Len(full)
    <3>1. l = Len(full)
      BY DEF l
    <3> QED
      BY <1>0, <1>1, <3>1
  <2>5. /\ SubSeq(full, 1, a) \o SubSeq(full, a + 1, l) = SubSeq(full, 1, l)
        /\ Len(SubSeq(full, a + 1, l)) = l - a
        /\ \A k \in 1 .. l - a : SubSeq(full, a + 1, l)[k] = full[a + k]
        /\ SubSeq(full, 1, Len(full)) = full
    <3>1. full \in Seq(XqBytes)
      BY <1>0
    <3>2. SubSeq(full, 1, a) \o SubSeq(full, a + 1, l) = SubSeq(full, 1, l)
      <4> DEFINE b == l
      <4>1. a \in Nat /\ b \in Nat /\ a <= b /\ b <= Len(full)
        BY <2>4
      <4> HIDE DEF b
      <4>2. SubSeq(full, 1, a) \o SubSeq(full, a + 1, b) = SubSeq(full, 1, b)
        BY <3>1, <4>1, Joined
      <4> QED
        BY <4>2 DEF b
    <3>3. Len(SubSeq(full, a + 1, l)) = l - a
      BY <2>4, <3>1, Joined
    <3>4. \A k \in 1 .. l - a : SubSeq(full, a + 1, l)[k] = full[a + k]
      BY <2>4, <3>1, Joined
    <3>5. SubSeq(full, 1, Len(full)) = full
      BY <2>4, <3>1, Joined
    <3> QED
      BY <3>2, <3>3, <3>4, <3>5
  <2>6. Len(w) = l - a /\ l - a < c /\ l - a \in 1 .. l - a
    <3>1. l - a < c
      BY <1>0, <1>1, <2>2, <2>4
    <3>2. l - a \in 1 .. l - a
      BY <2>4
    <3> QED
      BY <2>3, <2>5, <3>1, <3>2
  <2>7. Together(m, i - 1) \o w = full
    BY <1>2, <2>3, <2>4, <2>5
  <2>8. Last(w) = Last(full)
    <3>1. w[l - a] = full[a + (l - a)] /\ a + (l - a) = l
      BY <1>0, <1>1, <2>3, <2>5, <2>6
    <3> QED
      BY <2>4, <2>6, <3>1 DEF Last
  <2>9. Together(m, i - 1) \o Front(w) = Front(full)
    <3> DEFINE b == l - 1
    <3>1. b \in Nat /\ a <= b /\ b <= Len(full) /\ b - a = l - a - 1 /\ b - a \in Nat
      BY <1>0, <1>1, <2>4
    <3>2. /\ SubSeq(full, 1, a) \o SubSeq(full, a + 1, b) = SubSeq(full, 1, b)
          /\ Len(SubSeq(full, a + 1, b)) = b - a
          /\ \A k \in 1 .. b - a : SubSeq(full, a + 1, b)[k] = full[a + k]
          /\ SubSeq(full, a + 1, b) \in Seq(XqBytes)
      <4> HIDE DEF b
      <4> QED
        BY <1>0, <1>1, <3>1, Joined
    <3>3. Front(w) = SubSeq(w, 1, b - a)
      <4>1. Len(w) - 1 = b - a
        BY <2>6, <3>1
      <4> QED
        BY <4>1 DEF Front
    <3>4. SubSeq(w, 1, b - a) = [k \in 1 .. b - a |-> w[k]]
      <4> DEFINE d == b - a
      <4>1. d \in Nat
        BY <3>1
      <4> HIDE DEF d
      <4>2. SubSeq(w, 1, d) = [k \in 1 .. d |-> w[k]]
        BY <4>1, StartOf
      <4> QED
        BY <4>2 DEF d
    <3>5. \A k \in 1 .. b - a : w[k] = full[a + k]
      <4> SUFFICES ASSUME NEW k \in 1 .. b - a PROVE w[k] = full[a + k]
        OBVIOUS
      <4>1. k \in 1 .. l - a
        BY <1>0, <1>1, <3>1
      <4> QED
        BY <2>3, <2>5, <4>1
    <3>6. SubSeq(full, a + 1, b) = [k \in 1 .. b - a |-> SubSeq(full, a + 1, b)[k]]
      BY <3>2, LenProperties
    <3>7. Front(w) = SubSeq(full, a + 1, b)
      BY <3>2, <3>3, <3>4, <3>5, <3>6
    <3>8. Front(full) = SubSeq(full, 1, b)
      BY <2>4 DEF Front
    <3> QED
      BY <1>2, <3>2, <3>7, <3>8
  <2> QED
    BY <2>6, <2>7, <2>8, <2>9
<1> QED
  BY <1>1, <1>3, <1>4

\* What the receiver makes of the last packet of a message
LastBody(w) == IF xqway[2] = "go" /\ Last(w) = 0 THEN Front(w) ELSE w

LEMMA MessageArrives ==
    ASSUME NEW m \in XqMessages, xqway \in XqWays, Handled(m), NEW i \in 1 .. Len(Pieces(m)),
           NEW w, w = Pieces(m)[i], i = Len(Pieces(m))
    PROVE  Together(m, i - 1) \o LastBody(w) = Received(m)
<1>1. /\ Together(m, i - 1) \o w = Padded(m)
      /\ Last(w) = Last(Padded(m))
      /\ Together(m, i - 1) \o Front(w) = Front(Padded(m))
  BY PieceJoins
<1>2. /\ Len(m) % XqChunk # 0 => Padded(m) = m
      /\ Len(m) % XqChunk = 0 => Last(Padded(m)) = 0 /\ Front(Padded(m)) = m
      /\ xqway[2] # "go" => Padded(m) = m
  BY MessageFacts, HandledPieces
<1> HIDE DEF Together, Padded
<1>3. CASE xqway[2] # "go"
  BY <1>1, <1>2, <1>3 DEF LastBody, Received
<1>4. CASE xqway[2] = "go" /\ Len(m) % XqChunk = 0
  BY <1>1, <1>2, <1>4 DEF LastBody, Received
<1>5. CASE xqway[2] = "go" /\ Len(m) % XqChunk # 0
  BY <1>1, <1>2, <1>5 DEF LastBody, Received
<1> QED
  BY <1>3, <1>4, <1>5

\* at[j] is where the packets of message j begin, counted from the next one to be
\* read: those before it are no longer in the socket.
XqLine(s, p, at) ==
    /\ at \in [1 .. Len(s) + 1 -> Int] /\ at[1] <= 0 /\ at[Len(s) + 1] = Len(p)
    /\ \A j \in 1 .. Len(s) : at[j + 1] = at[j] + Len(Pieces(s[j]))
    /\ \A j, k \in 1 .. Len(s) + 1 : j <= k => at[j] <= at[k]
    /\ \A j \in 1 .. Len(s) : \A i \in 1 .. Len(Pieces(s[j])) : at[j] + i >= 1 => p[at[j] + i] = Pieces(s[j])[i]
    /\ \A q1 \in 1 .. Len(p) : \E j \in 1 .. Len(s) : \E i \in 1 .. Len(Pieces(s[j])) : q1 = at[j] + i

\* The receiver has read what it returned, and so far every message was handled:
\* it is in the middle of the next one, or has read all there is.
XqSeen(at) == xqway[2] # "cs" => Len(xqgot) <= Len(xqsent) /\ at[Len(xqgot) + 1] <= 0
XqClean == \A j \in 1 .. Len(xqsent) : j <= Len(xqgot) + 1 => Handled(xqsent[j])
XqInside(at) ==
    XqClean =>
       /\ Len(xqgot) <= Len(xqsent)
       /\ Len(xqgot) < Len(xqsent) =>
             /\ at[Len(xqgot) + 1] <= 0 /\ at[Len(xqgot) + 2] > 0
             /\ xqacc = Together(xqsent[Len(xqgot) + 1], 0 - at[Len(xqgot) + 1])
       /\ Len(xqgot) = Len(xqsent) => xqpkts = <<>> /\ xqacc = <<>>

XqTypes ==
    /\ xqway \in XqWays /\ xqsent \in Seq(XqMessages) /\ xqpkts \in Seq(Seq(XqBytes))
    /\ xqacc \in Seq(XqBytes) /\ xqgot \in Seq(Seq(XqBytes))
    /\ \A i \in 1 .. Len(xqpkts) : Len(xqpkts[i]) \in 1 .. XqBound
    /\ xqsent = <<>> => xqpkts = <<>> /\ xqacc = <<>> /\ xqgot = <<>>
XqInv == XqTypes /\ XqRoundTrip /\ \E at : XqLine(xqsent, xqpkts, at) /\ XqSeen(at) /\ XqInside(at)

LEMMA XqInvHolds == XqInv => XqTypeOK
<1> SUFFICES ASSUME XqInv PROVE XqTypeOK
  OBVIOUS
<1>1. XqTypes /\ \E at : XqSeen(at)
  BY DEF XqInv
<1>2. DOMAIN xqpkts = 1 .. Len(xqpkts)
  BY <1>1, LenProperties DEF XqTypes
<1>3. \A i \in DOMAIN xqpkts : Len(xqpkts[i]) \in 1 .. (IF xqway[1] = "cs" THEN XqMaxLen ELSE XqChunk)
  BY <1>1, <1>2 DEF XqTypes, XqBound
<1> QED
  BY <1>1, <1>3 DEF XqTypeOK, XqTypes, XqSeen

\* The next packet of the socket
LEMMA NextFacts ==
    ASSUME XqTypes, xqpkts # <<>>
    PROVE  /\ Len(xqpkts) \in Nat \ {0} /\ xqpkts[1] \in Seq(XqBytes) /\ Len(xqpkts[1]) \in Nat \ {0}
           /\ XqNextPacket \in Seq(XqBytes) /\ Len(XqNextPacket) \in 1 .. XqChunk
           /\ Len(XqNextPacket) < XqChunk => Len(xqpkts[1]) < XqChunk
           /\ Len(xqpkts[1]) <= XqChunk => XqNextPacket = xqpkts[1]
           /\ Tail(xqpkts) \in Seq(Seq(XqBytes)) /\ Len(Tail(xqpkts)) = Len(xqpkts) - 1
           /\ \A i \in 1 .. Len(xqpkts) - 1 : Tail(xqpkts)[i] = xqpkts[i + 1]
<1>1. xqpkts \in Seq(Seq(XqBytes)) /\ \A i \in 1 .. Len(xqpkts) : Len(xqpkts[i]) \in 1 .. XqBound
  BY DEF XqTypes
<1>2. Len(xqpkts) \in Nat \ {0}
  BY <1>1, EmptySeq, LenProperties
<1>3. xqpkts[1] \in Seq(XqBytes) /\ Len(xqpkts[1]) \in Nat \ {0} /\ Head(xqpkts) = xqpkts[1]
  <2>1. 1 \in 1 .. Len(xqpkts)
    BY <1>2
  <2>2. XqBound \in Nat
    BY XqChunkAssumption DEF XqBound
  <2>3. xqpkts[1] \in Seq(XqBytes)
    BY <1>1, <2>1, ElementOfSeq
  <2>4. Len(xqpkts[1]) \in 1 .. XqBound
    BY <1>1, <2>1
  <2> QED
    BY <1>1, <2>2, <2>3, <2>4
<1>4. /\ Tail(xqpkts) \in Seq(Seq(XqBytes)) /\ Len(Tail(xqpkts)) = Len(xqpkts) - 1
      /\ \A i \in 1 .. Len(xqpkts) - 1 : Tail(xqpkts)[i] = xqpkts[i + 1]
  BY <1>1, HeadTailProperties
<1> DEFINE w == xqpkts[1]
           b == IF Len(w) < XqChunk THEN Len(w) ELSE XqChunk
<1>5. XqNextPacket = SubSeq(w, 1, b)
  BY <1>3 DEF XqNextPacket
<1>6. b \in Nat \ {0} /\ b <= XqChunk /\ b <= Len(w) /\ (b < XqChunk => Len(w) < XqChunk) /\ (Len(w) <= XqChunk => b = Len(w))
  BY <1>3, XqChunkAssumption
<1>7. w \in Seq(XqBytes) /\ Len(w) \in Nat
  BY <1>3
<1> HIDE DEF w, b
<1>8. SubSeq(w, 1, b) = [k \in 1 .. b |-> w[k]]
  BY <1>6, StartOf
<1>9. SubSeq(w, 1, b) \in Seq(XqBytes) /\ Len(SubSeq(w, 1, b)) = b
  <2>1. \A k \in 1 .. b : w[k] \in XqBytes
    BY <1>6, <1>7, ElementOfSeq
  <2> QED
    BY <1>6, <1>8, <2>1
<1>10. b = Len(w) => SubSeq(w, 1, b) = w
  BY <1>7, <1>8, LenProperties
<1>11. b \in 1 .. XqChunk
  BY <1>6, XqChunkAssumption
<1> QED
  BY <1>2, <1>3, <1>4, <1>5, <1>6, <1>9, <1>10, <1>11 DEF w

\* What a read does
LEMMA ReadFacts ==
    ASSUME XqTypes, XqRead, NEW w, w = XqNextPacket
    PROVE  /\ xqpkts # <<>> /\ xqpkts' = Tail(xqpkts) /\ xqway' = xqway /\ xqsent' = xqsent
           /\ \/ /\ xqway[2] # "cs" /\ Len(w) = XqChunk
                 /\ xqacc' = xqacc \o w /\ xqgot' = xqgot
              \/ /\ xqway[2] = "cs" \/ Len(w) < XqChunk
                 /\ xqacc' = <<>> /\ xqgot' = Append(xqgot, xqacc \o LastBody(w))
<1>1. xqpkts # <<>> /\ xqpkts' = Tail(xqpkts) /\ xqway' = xqway /\ xqsent' = xqsent
  BY DEF XqRead
<1>2. Len(w) \in 1 .. XqChunk
  BY <1>1, NextFacts
<1>3. ~(Len(w) < XqChunk) => Len(w) = XqChunk
  BY <1>2, XqChunkAssumption
<1>4. xqway[2] \in {"go", "js", "py", "cs"}
  BY DEF XqTypes, XqWays, XqLangs
<1>5. CASE xqway[2] = "go"
  <2>1. GoRecv(w)
    BY <1>5 DEF XqRead
  <2> QED
    BY <1>1, <1>3, <1>5, <2>1 DEF GoRecv, XqWhole, XqMore, LastBody
<1>6. CASE xqway[2] = "js"
  <2>1. JsRecv(w)
    BY <1>6 DEF XqRead
  <2> QED
    BY <1>1, <1>3, <1>6, <2>1 DEF JsRecv, XqWhole, XqMore, LastBody
<1>7. CASE xqway[2] = "py"
  <2>1. PyRecv(w)
    BY <1>7 DEF XqRead
  <2> QED
    BY <1>1, <1>3, <1>7, <2>1 DEF PyRecv, XqWhole, XqMore, LastBody
<1>8. CASE xqway[2] = "cs"
  <2>1. CsRecv(w)
    BY <1>8 DEF XqRead
  <2> QED
    BY <1>1, <1>8, <2>1 DEF CsRecv, XqWhole, LastBody
<1> QED
  BY <1>4, <1>5, <1>6, <1>7, <1>8

LEMMA BodyFacts ==
    ASSUME NEW w \in Seq(XqBytes), Len(w) \in Nat \ {0}
    PROVE  LastBody(w) \in Seq(XqBytes)
<1>1. w # <<>>
  <2>1. Len(<<>>) = 0
    OBVIOUS
  <2> QED
    BY <2>1
<1>2. Front(w) \in Seq(XqBytes)
  <2> DEFINE b == Len(w) - 1
  <2>1. b \in Nat /\ b <= Len(w)
    OBVIOUS
  <2>2. Front(w) = SubSeq(w, 1, b)
    BY DEF Front
  <2> HIDE DEF b
  <2>3. SubSeq(w, 1, b) = [k \in 1 .. b |-> w[k]]
    BY <2>1, StartOf
  <2>4. \A k \in 1 .. b : w[k] \in XqBytes
    BY <2>1, ElementOfSeq
  <2> QED
    BY <2>1, <2>2, <2>3, <2>4
<1> QED
  BY <1>2 DEF LastBody

\* Reading a packet moves every message one packet on.
LEMMA LineRead ==
    ASSUME xqway \in XqWays, NEW s \in Seq(XqMessages), NEW p \in Seq(Seq(XqBytes)), p # <<>>,
           NEW at, XqLine(s, p, at), NEW p2, p2 = Tail(p),
           NEW bt, bt = [j \in 1 .. Len(s) + 1 |-> at[j] - 1]
    PROVE  XqLine(s, p2, bt)
<1> DEFINE n == Len(s)
           l == Len(p)
           P(j) == Pieces(s[j])
<1>0. n \in Nat /\ l \in Nat \ {0} /\ Len(p2) = l - 1 /\ \A i \in 1 .. l - 1 : p2[i] = p[i + 1]
  BY EmptySeq, LenProperties, HeadTailProperties
<1>1. /\ at \in [1 .. n + 1 -> Int] /\ at[1] <= 0 /\ at[n + 1] = l
      /\ \A j \in 1 .. n : at[j + 1] = at[j] + Len(P(j))
      /\ \A j, k \in 1 .. n + 1 : j <= k => at[j] <= at[k]
      /\ \A j \in 1 .. n : \A i \in 1 .. Len(P(j)) : at[j] + i >= 1 => p[at[j] + i] = P(j)[i]
      /\ \A q1 \in 1 .. l : \E j \in 1 .. n : \E i \in 1 .. Len(P(j)) : q1 = at[j] + i
  BY DEF XqLine
<1>2. \A j \in 1 .. n : s[j] \in XqMessages /\ Len(P(j)) \in Nat
  BY ElementOfSeq, PiecesFacts
<1> HIDE DEF n, l, P
<1>3. \A j \in 1 .. n + 1 : bt[j] = at[j] - 1 /\ at[j] \in Int
  BY <1>1 DEF n
<1>4. bt \in [1 .. n + 1 -> Int] /\ bt[1] <= 0 /\ bt[n + 1] = Len(p2)
  <2>1. bt \in [1 .. n + 1 -> Int]
    BY <1>1 DEF n
  <2>2. 1 \in 1 .. n + 1 /\ n + 1 \in 1 .. n + 1
    BY <1>0
  <2>3. bt[1] = at[1] - 1 /\ bt[n + 1] = l - 1 /\ at[1] \in Int /\ at[1] <= 0
    BY <1>1, <1>3, <2>2
  <2> DEFINE x == at[1]   y == bt[1]
  <2>4. y = x - 1 /\ x \in Int /\ x <= 0
    BY <2>3
  <2> HIDE DEF x, y
  <2>5. y <= 0
    BY <2>4
  <2> QED
    BY <1>0, <2>1, <2>3, <2>5 DEF y
<1>5. \A j \in 1 .. n : bt[j + 1] = bt[j] + Len(P(j))
  <2> SUFFICES ASSUME NEW j \in 1 .. n PROVE bt[j + 1] = bt[j] + Len(P(j))
    OBVIOUS
  <2>1. j \in 1 .. n + 1 /\ j + 1 \in 1 .. n + 1
    BY <1>0
  <2> DEFINE x == at[j]   y == at[j + 1]   z == Len(P(j))   xb == bt[j]   yb == bt[j + 1]
  <2>2. xb = x - 1 /\ yb = y - 1 /\ x \in Int /\ y \in Int /\ y = x + z /\ z \in Nat
    BY <1>1, <1>2, <1>3, <2>1
  <2> HIDE DEF x, y, z, xb, yb
  <2>3. yb = xb + z
    BY <2>2
  <2> QED
    BY <2>3 DEF xb, yb, z
<1>6. \A j, k \in 1 .. n + 1 : j <= k => bt[j] <= bt[k]
  <2> SUFFICES ASSUME NEW j \in 1 .. n + 1, NEW k \in 1 .. n + 1, j <= k PROVE bt[j] <= bt[k]
    OBVIOUS
  <2> DEFINE x == at[j]   y == at[k]   xb == bt[j]   yb == bt[k]
  <2>1. xb = x - 1 /\ yb = y - 1 /\ x \in Int /\ y \in Int
    BY <1>3
  <2>2. x <= y
    BY <1>1
  <2> HIDE DEF x, y, xb, yb
  <2>3. xb <= yb
    BY <2>1, <2>2
  <2> QED
    BY <2>3 DEF xb, yb
<1>7. ASSUME NEW j \in 1 .. n, NEW i \in 1 .. Len(P(j)), bt[j] + i >= 1
      PROVE  p2[bt[j] + i] = P(j)[i]
  <2>1. j \in 1 .. n + 1 /\ j + 1 \in 1 .. n + 1 /\ n + 1 \in 1 .. n + 1 /\ j + 1 <= n + 1
    BY <1>0
  <2>2. i \in Nat /\ i <= Len(P(j)) /\ Len(P(j)) \in Nat
    BY <1>2
  <2>3. bt[j] = at[j] - 1 /\ at[j] \in Int /\ at[j + 1] = at[j] + Len(P(j)) /\ at[j + 1] <= at[n + 1]
    BY <1>1, <1>3, <2>1
  <2> DEFINE x == at[j]   y == at[j + 1]   z == Len(P(j))   xb == bt[j]   e == x + i   eb == xb + i
  <2>4. xb = x - 1 /\ x \in Int /\ y = x + z /\ y <= l /\ i <= z /\ eb >= 1 /\ z \in Nat /\ i \in Nat
    BY <1>1, <1>7, <2>2, <2>3
  <2> HIDE DEF x, y, z, xb
  <2>5. eb \in 1 .. l - 1 /\ eb + 1 = e /\ e >= 1
    BY <1>0, <2>4
  <2> HIDE DEF e, eb
  <2>6. p2[eb] = p[e]
    BY <1>0, <2>5
  <2>7. p[e] = P(j)[i]
    <3>1. at[j] + i >= 1
      BY <2>5 DEF e, x
    <3>2. p[at[j] + i] = P(j)[i]
      BY <1>1, <3>1
    <3> QED
      BY <3>2 DEF e, x
  <2> QED
    BY <2>6, <2>7 DEF eb, xb
<1>8. ASSUME NEW q1 \in 1 .. Len(p2)
      PROVE  \E j \in 1 .. n : \E i \in 1 .. Len(P(j)) : q1 = bt[j] + i
  <2>1. q1 + 1 \in 1 .. l /\ q1 \in Nat
    BY <1>0
  <2>2. PICK j \in 1 .. n : \E i \in 1 .. Len(P(j)) : q1 + 1 = at[j] + i
    BY <1>1, <2>1
  <2>3. PICK i \in 1 .. Len(P(j)) : q1 + 1 = at[j] + i
    BY <2>2
  <2>4. j \in 1 .. n + 1 /\ i \in Int
    BY <1>0, <1>2
  <2>5. q1 = bt[j] + i
    <3> DEFINE x == at[j]   xb == bt[j]
    <3>1. xb = x - 1 /\ x \in Int /\ q1 + 1 = x + i
      BY <1>3, <2>3, <2>4
    <3> HIDE DEF x, xb
    <3>2. q1 = xb + i
      BY <2>1, <2>4, <3>1
    <3> QED
      BY <3>2 DEF xb
  <2> QED
    BY <2>5
<1> QED
  BY <1>4, <1>5, <1>6, <1>7, <1>8 DEF XqLine, n, P

\* Sending a message adds its packets at the end.
LEMMA LineSend ==
    ASSUME xqway \in XqWays, NEW s \in Seq(XqMessages), NEW p \in Seq(Seq(XqBytes)), NEW m \in XqMessages,
           NEW at, XqLine(s, p, at), NEW s2, s2 = Append(s, m), NEW p2, p2 = p \o Pieces(m),
           NEW bt, bt = [j \in 1 .. Len(s) + 2 |-> IF j <= Len(s) + 1 THEN at[j] ELSE Len(p) + Len(Pieces(m))]
    PROVE  XqLine(s2, p2, bt)
<1> DEFINE n == Len(s)
           l == Len(p)
           c == Len(Pieces(m))
           P(j) == Pieces(s[j])
<1>0. /\ n \in Nat /\ l \in Nat /\ c \in Nat
      /\ Len(s2) = n + 1 /\ (\A j \in 1 .. n : s2[j] = s[j]) /\ s2[n + 1] = m
      /\ Len(p2) = l + c /\ (\A i \in 1 .. l : p2[i] = p[i])
  <2>1. Pieces(m) \in Seq(Seq(XqBytes)) /\ c \in Nat /\ n \in Nat /\ l \in Nat
    BY PiecesFacts, LenProperties
  <2>2. Len(s2) = n + 1 /\ (\A j \in 1 .. n : s2[j] = s[j]) /\ s2[n + 1] = m
    BY AppendProperties
  <2>3. Len(p2) = l + c /\ (\A i \in 1 .. l + c : p2[i] = IF i <= l THEN p[i] ELSE Pieces(m)[i - l])
    BY <2>1, ConcatProperties
  <2>4. \A i \in 1 .. l : i \in 1 .. l + c /\ i <= l
    BY <2>1
  <2> QED
    BY <2>1, <2>2, <2>3, <2>4
<1>9. \A i \in 1 .. c : p2[l + i] = Pieces(m)[i]
  <2>1. Pieces(m) \in Seq(Seq(XqBytes)) /\ c \in Nat /\ n \in Nat /\ l \in Nat
    BY PiecesFacts, LenProperties
  <2>2. \A i \in 1 .. l + c : p2[i] = IF i <= l THEN p[i] ELSE Pieces(m)[i - l]
    BY <2>1, ConcatProperties
  <2> HIDE DEF l, c
  <2>3. \A i \in 1 .. c : l + i \in 1 .. l + c /\ ~(l + i <= l) /\ l + i - l = i
    BY <2>1
  <2> SUFFICES ASSUME NEW i \in 1 .. c PROVE p2[l + i] = Pieces(m)[i]
    OBVIOUS
  <2> DEFINE e == l + i
  <2>4. e \in 1 .. l + c /\ ~(e <= l) /\ e - l = i
    <3>1. i \in Nat /\ i >= 1 /\ i <= c /\ e = l + i
      BY <2>1
    <3> HIDE DEF e
    <3> QED
      BY <2>1, <3>1
  <2> HIDE DEF e
  <2>5. p2[e] = Pieces(m)[e - l]
    BY <2>2, <2>4
  <2> QED
    BY <2>4, <2>5 DEF e
<1>1. /\ at \in [1 .. n + 1 -> Int] /\ at[1] <= 0 /\ at[n + 1] = l
      /\ \A j \in 1 .. n : at[j + 1] = at[j] + Len(P(j))
      /\ \A j, k \in 1 .. n + 1 : j <= k => at[j] <= at[k]
      /\ \A j \in 1 .. n : \A i \in 1 .. Len(P(j)) : at[j] + i >= 1 => p[at[j] + i] = P(j)[i]
      /\ \A q1 \in 1 .. l : \E j \in 1 .. n : \E i \in 1 .. Len(P(j)) : q1 = at[j] + i
  BY DEF XqLine
<1>2. \A j \in 1 .. n : s[j] \in XqMessages /\ Len(P(j)) \in Nat
  BY ElementOfSeq, PiecesFacts
<1>3. (\A j \in 1 .. n : Pieces(s2[j]) = P(j)) /\ Pieces(s2[n + 1]) = Pieces(m)
  BY <1>0
<1>4. bt = [j \in 1 .. n + 2 |-> IF j <= n + 1 THEN at[j] ELSE l + c]
  OBVIOUS
<1> HIDE DEF n, l, c, P
<1>5. (\A j \in 1 .. n + 1 : bt[j] = at[j] /\ at[j] \in Int) /\ bt[n + 2] = l + c
  <2>1. \A j \in 1 .. n + 1 : j \in 1 .. n + 2 /\ j <= n + 1
    BY <1>0
  <2>2. n + 2 \in 1 .. n + 2 /\ ~(n + 2 <= n + 1)
    BY <1>0
  <2> QED
    BY <1>1, <1>4, <2>1, <2>2
<1>6. bt \in [1 .. Len(s2) + 1 -> Int] /\ bt[1] <= 0 /\ bt[Len(s2) + 1] = Len(p2)
  <2>1. Len(s2) + 1 = n + 2 /\ 1 \in 1 .. n + 1
    BY <1>0
  <2>2. \A j \in 1 .. n + 2 : (IF j <= n + 1 THEN at[j] ELSE l + c) \in Int
    <3> SUFFICES ASSUME NEW j \in 1 .. n + 2, j <= n + 1 PROVE at[j] \in Int
      BY <1>0
    <3>1. j \in 1 .. n + 1
      BY <1>0
    <3> QED
      BY <1>5, <3>1
  <2>3. bt \in [1 .. n + 2 -> Int]
    BY <1>4, <2>2
  <2> QED
    BY <1>0, <1>1, <1>5, <2>1, <2>3
<1>7. \A j \in 1 .. Len(s2) : bt[j + 1] = bt[j] + Len(Pieces(s2[j]))
  <2> SUFFICES ASSUME NEW j \in 1 .. n + 1 PROVE bt[j + 1] = bt[j] + Len(Pieces(s2[j]))
    BY <1>0
  <2>1. CASE j \in 1 .. n
    <3>1. j \in 1 .. n + 1 /\ j + 1 \in 1 .. n + 1
      BY <1>0, <2>1
    <3>2. bt[j + 1] = at[j + 1] /\ bt[j] = at[j] /\ Pieces(s2[j]) = P(j)
      BY <1>3, <1>5, <2>1, <3>1
    <3> QED
      BY <1>1, <2>1, <3>2
  <2>2. CASE j = n + 1
    <3>1. n + 1 \in 1 .. n + 1 /\ j + 1 = n + 2
      BY <1>0, <2>2
    <3>2. bt[j + 1] = l + c /\ bt[j] = l /\ Pieces(s2[j]) = Pieces(m)
      BY <1>1, <1>3, <1>5, <2>2, <3>1
    <3> QED
      BY <3>2 DEF c
  <2> QED
    BY <1>0, <2>1, <2>2
<1>8. \A j, k \in 1 .. Len(s2) + 1 : j <= k => bt[j] <= bt[k]
  <2>0. Len(s2) + 1 = n + 2
    BY <1>0
  <2> SUFFICES ASSUME NEW j \in 1 .. n + 2, NEW k \in 1 .. n + 2, j <= k PROVE bt[j] <= bt[k]
    BY <2>0
  <2>1. CASE k \in 1 .. n + 1
    <3>1. j \in 1 .. n + 1
      BY <1>0, <2>1
    <3> QED
      BY <1>1, <1>5, <2>1, <3>1
  <2>2. CASE k = n + 2 /\ j \in 1 .. n + 1
    <3>1. n + 1 \in 1 .. n + 1 /\ j <= n + 1
      BY <1>0, <2>2
    <3>2. at[j] <= l /\ at[j] \in Int
      BY <1>1, <1>5, <2>2, <3>1
    <3> QED
      BY <1>0, <1>5, <2>2, <3>2
  <2>3. CASE k = n + 2 /\ j = n + 2
    BY <1>0, <1>5, <2>3
  <2>4. j \in 1 .. n + 1 \/ j = n + 2
    BY <1>0
  <2>5. k \in 1 .. n + 1 \/ k = n + 2
    BY <1>0
  <2>6. CASE k \in 1 .. n + 1
    BY <2>1, <2>6
  <2>7. CASE k = n + 2
    BY <2>2, <2>3, <2>4, <2>7
  <2> QED
    BY <2>5, <2>6, <2>7
<1>10. ASSUME NEW j \in 1 .. Len(s2), NEW i \in 1 .. Len(Pieces(s2[j])), bt[j] + i >= 1
       PROVE  p2[bt[j] + i] = Pieces(s2[j])[i]
  <2>1. CASE j \in 1 .. n
    <3>1. j \in 1 .. n + 1 /\ j + 1 \in 1 .. n + 1 /\ n + 1 \in 1 .. n + 1 /\ j + 1 <= n + 1
      BY <1>0, <2>1
    <3>2. i \in Nat /\ i <= Len(P(j)) /\ Len(P(j)) \in Nat /\ Pieces(s2[j]) = P(j) /\ i \in 1 .. Len(P(j))
      BY <1>2, <1>3, <2>1
    <3>3. bt[j] = at[j] /\ at[j] \in Int /\ at[j + 1] = at[j] + Len(P(j)) /\ at[j + 1] <= at[n + 1]
      BY <1>1, <1>5, <2>1, <3>1
    <3> DEFINE x == at[j]   y == at[j + 1]   z == Len(P(j))   e == x + i
    <3>4. x \in Int /\ y = x + z /\ y <= l /\ i <= z /\ e >= 1 /\ z \in Nat /\ i \in Nat
      BY <1>1, <1>10, <3>2, <3>3
    <3> HIDE DEF x, y, z
    <3>5. e \in 1 .. l /\ e >= 1
      BY <1>0, <3>4
    <3> HIDE DEF e
    <3>6. p2[e] = p[e]
      BY <1>0, <3>5
    <3>7. p[e] = P(j)[i]
      <4>1. at[j] + i >= 1
        BY <3>5 DEF e, x
      <4>2. p[at[j] + i] = P(j)[i]
        BY <1>1, <2>1, <3>2, <4>1
      <4> QED
        BY <4>2 DEF e, x
    <3> QED
      BY <3>2, <3>3, <3>6, <3>7 DEF e, x
  <2>2. CASE j = n + 1
    <3>1. n + 1 \in 1 .. n + 1
      BY <1>0
    <3>2. bt[j] = l /\ Pieces(s2[j]) = Pieces(m)
      BY <1>1, <1>3, <1>5, <2>2, <3>1
    <3>3. i \in 1 .. c
      BY <3>2 DEF c
    <3>4. p2[l + i] = Pieces(m)[i]
      BY <1>9, <3>3
    <3> QED
      BY <3>2, <3>4
  <2>3. j \in 1 .. n \/ j = n + 1
    BY <1>0
  <2> QED
    BY <2>1, <2>2, <2>3
<1>11. ASSUME NEW q1 \in 1 .. Len(p2)
       PROVE  \E j \in 1 .. Len(s2) : \E i \in 1 .. Len(Pieces(s2[j])) : q1 = bt[j] + i
  <2>1. CASE q1 \in 1 .. l
    <3>1. PICK j \in 1 .. n : \E i \in 1 .. Len(P(j)) : q1 = at[j] + i
      BY <1>1, <2>1
    <3>2. j \in 1 .. n + 1 /\ j \in 1 .. Len(s2)
      BY <1>0
    <3>3. bt[j] = at[j] /\ Pieces(s2[j]) = P(j)
      BY <1>3, <1>5, <3>2
    <3> QED
      BY <3>1, <3>2, <3>3
  <2>2. CASE q1 \notin 1 .. l
    <3>1. q1 - l \in 1 .. c /\ l + (q1 - l) = q1 /\ n + 1 \in 1 .. Len(s2) /\ n + 1 \in 1 .. n + 1
      BY <1>0, <2>2
    <3>2. bt[n + 1] = l /\ Pieces(s2[n + 1]) = Pieces(m)
      BY <1>1, <1>3, <1>5, <3>1
    <3>3. q1 - l \in 1 .. Len(Pieces(s2[n + 1])) /\ q1 = bt[n + 1] + (q1 - l)
      BY <3>1, <3>2 DEF c
    <3> QED
      BY <3>1, <3>3
  <2> QED
    BY <2>1, <2>2
<1> QED
  BY <1>6, <1>7, <1>8, <1>10, <1>11 DEF XqLine

\* The direction does not change while messages are under way.
LEMMA SameWay ==
    ASSUME xqway' = xqway
    PROVE  /\ \A at : XqLine(xqsent, xqpkts, at)' <=> XqLine(xqsent', xqpkts', at)
           /\ \A m : (Handled(m)' <=> Handled(m)) /\ Received(m)' = Received(m)
           /\ XqBound' = XqBound
<1>1. \A at : XqLine(xqsent, xqpkts, at)' <=> XqLine(xqsent', xqpkts', at)
  BY DEF XqLine, Pieces
<1>2. \A m : (Handled(m)' <=> Handled(m)) /\ Received(m)' = Received(m)
  BY DEF Handled, Received
<1> QED
  BY <1>1, <1>2 DEF XqBound

\* The next packet is the i-th of message m, the one the receiver is in.
CurrentPacket(at, g, m, i) ==
    /\ g \in Nat /\ g < Len(xqsent) /\ m \in XqMessages /\ Handled(m) /\ i \in 1 .. Len(Pieces(m))
    /\ at[g + 1] \in Int /\ at[g + 2] = 1 + Len(Pieces(m)) - i /\ Len(Pieces(m)) \in Nat
    /\ XqNextPacket = Pieces(m)[i] /\ xqacc = Together(m, i - 1)

LEMMA CurrentMessage ==
    ASSUME XqTypes, NEW at, XqLine(xqsent, xqpkts, at), XqInside(at), XqClean, xqpkts # <<>>,
           NEW g, g = Len(xqgot), NEW m, m = xqsent[g + 1], NEW i, i = 1 - at[g + 1]
    PROVE  CurrentPacket(at, g, m, i)
<1>0. xqsent \in Seq(XqMessages) /\ xqway \in XqWays /\ Len(xqsent) \in Nat /\ g \in Nat
  BY LenProperties DEF XqTypes
<1>1. g < Len(xqsent)
  BY <1>0 DEF XqInside
<1>2. at[g + 1] <= 0 /\ at[g + 2] > 0 /\ xqacc = Together(m, 0 - at[g + 1])
  BY <1>1 DEF XqInside
<1>3. g + 1 \in 1 .. Len(xqsent) /\ g + 1 \in 1 .. Len(xqsent) + 1 /\ (g + 1) + 1 = g + 2
  BY <1>0, <1>1
<1>4. m \in XqMessages /\ Handled(m)
  <2>1. g + 1 <= g + 1
    BY <1>0
  <2> QED
    BY <1>0, <1>3, <2>1, ElementOfSeq DEF XqClean
<1>5. Len(Pieces(m)) \in Nat
  BY <1>0, <1>4, PiecesFacts
<1>6. at[g + 1] \in Int /\ at[g + 2] = at[g + 1] + Len(Pieces(m))
  <2>1. at \in [1 .. Len(xqsent) + 1 -> Int] /\ at[(g + 1) + 1] = at[g + 1] + Len(Pieces(xqsent[g + 1]))
    BY <1>3 DEF XqLine
  <2> QED
    BY <1>3, <2>1
<1> DEFINE x == at[g + 1]   y == at[g + 2]   z == Len(Pieces(m))
<1>7. x \in Int /\ x <= 0 /\ y > 0 /\ y = x + z /\ z \in Nat /\ i = 1 - x
  BY <1>2, <1>5, <1>6
<1> HIDE DEF x, y, z
<1>8. i \in 1 .. z /\ y = 1 + z - i /\ x + i = 1 /\ i - 1 = 0 - x
  BY <1>7
<1>9. xqpkts[1] = Pieces(m)[i]
  <2>1. i \in 1 .. Len(Pieces(xqsent[g + 1])) /\ at[g + 1] + i = 1
    BY <1>8 DEF z, x
  <2>2. at[g + 1] + i >= 1
    BY <2>1
  <2>3. xqpkts[at[g + 1] + i] = Pieces(xqsent[g + 1])[i]
    BY <1>3, <2>1, <2>2 DEF XqLine
  <2> QED
    BY <2>1, <2>3
<1>10. Len(xqpkts[1]) <= XqChunk
  <2>1. Len(Pieces(m)[i]) \in 1 .. XqChunk
    BY <1>0, <1>4, <1>8, PieceJoins DEF z
  <2>2. XqChunk \in Nat
    BY XqChunkAssumption
  <2> QED
    BY <1>9, <2>1, <2>2
<1>11. XqNextPacket = Pieces(m)[i]
  BY <1>9, <1>10, NextFacts
<1>12. xqacc = Together(m, i - 1)
  BY <1>2, <1>8 DEF x
<1> QED
  BY <1>0, <1>1, <1>4, <1>5, <1>6, <1>8, <1>11, <1>12 DEF y, z, CurrentPacket

\* A packet that is not full ends a message, and that one was not returned yet.
LEMMA ShortPacket ==
    ASSUME XqTypes, NEW at, XqLine(xqsent, xqpkts, at), xqpkts # <<>>, Len(xqpkts[1]) < XqChunk,
           NEW g, g = Len(xqgot), g <= Len(xqsent), at[g + 1] <= 0
    PROVE  g + 1 <= Len(xqsent) /\ at[g + 2] <= 1
<1> DEFINE n == Len(xqsent)
<1>0. xqsent \in Seq(XqMessages) /\ xqway \in XqWays /\ n \in Nat /\ g \in Nat /\ g <= n
  BY LenProperties DEF XqTypes
<1>1. /\ at \in [1 .. n + 1 -> Int]
      /\ \A j \in 1 .. n : at[j + 1] = at[j] + Len(Pieces(xqsent[j]))
      /\ \A j, k \in 1 .. n + 1 : j <= k => at[j] <= at[k]
      /\ \A j \in 1 .. n : \A i \in 1 .. Len(Pieces(xqsent[j])) : at[j] + i >= 1 => xqpkts[at[j] + i] = Pieces(xqsent[j])[i]
      /\ \A q1 \in 1 .. Len(xqpkts) : \E j \in 1 .. n : \E i \in 1 .. Len(Pieces(xqsent[j])) : q1 = at[j] + i
  BY DEF XqLine
<1>2. 1 \in 1 .. Len(xqpkts)
  BY NextFacts
<1>3. PICK j \in 1 .. n : \E i \in 1 .. Len(Pieces(xqsent[j])) : 1 = at[j] + i
  BY <1>1, <1>2
<1>4. PICK i \in 1 .. Len(Pieces(xqsent[j])) : 1 = at[j] + i
  BY <1>3
<1>5. xqsent[j] \in XqMessages
  BY <1>0, ElementOfSeq
<1>6. xqpkts[1] = Pieces(xqsent[j])[i]
  <2>1. at[j] + i >= 1
    BY <1>4
  <2>2. xqpkts[at[j] + i] = Pieces(xqsent[j])[i]
    BY <1>1, <2>1
  <2> QED
    BY <1>4, <2>2
<1>7. i = Len(Pieces(xqsent[j]))
  BY <1>0, <1>5, <1>6, PiecesFacts
<1> HIDE DEF n
<1>8. at[j + 1] = 1
  BY <1>1, <1>4, <1>7
<1>9. g + 1 <= j
  <2> SUFFICES ASSUME ~(g + 1 <= j) PROVE FALSE
    OBVIOUS
  <2>1. j + 1 \in 1 .. n + 1 /\ g + 1 \in 1 .. n + 1 /\ j + 1 <= g + 1
    BY <1>0
  <2>2. at[j + 1] <= at[g + 1] /\ at[g + 1] \in Int
    BY <1>1, <2>1
  <2> QED
    BY <1>8, <2>2
<1>10. g + 2 \in 1 .. n + 1 /\ j + 1 \in 1 .. n + 1 /\ g + 2 <= j + 1 /\ g + 1 <= n
  BY <1>0, <1>9
<1>11. at[g + 2] <= 1
  BY <1>1, <1>8, <1>10
<1> QED
  BY <1>10, <1>11 DEF n

LEMMA XqReadStep == XqInv /\ XqRead => XqInv'
<1> SUFFICES ASSUME XqInv, XqRead PROVE XqInv'
  OBVIOUS
<1>g. PICK g : g = Len(xqgot)
  OBVIOUS
<1>n. PICK n : n = Len(xqsent)
  OBVIOUS
<1>w. PICK w : w = XqNextPacket
  OBVIOUS
<1>0. XqTypes /\ XqRoundTrip
  BY DEF XqInv
<1>1. PICK at : XqLine(xqsent, xqpkts, at) /\ XqSeen(at) /\ XqInside(at)
  BY DEF XqInv
<1>2. xqpkts # <<>> /\ xqpkts' = Tail(xqpkts) /\ xqway' = xqway /\ xqsent' = xqsent
  BY <1>0, ReadFacts
<1>3. \/ /\ xqway[2] # "cs" /\ Len(w) = XqChunk
         /\ xqacc' = xqacc \o w /\ xqgot' = xqgot
      \/ /\ xqway[2] = "cs" \/ Len(w) < XqChunk
         /\ xqacc' = <<>> /\ xqgot' = Append(xqgot, xqacc \o LastBody(w))
  BY <1>0, <1>w, ReadFacts
<1>4. /\ w \in Seq(XqBytes) /\ Len(w) \in Nat \ {0} /\ (Len(w) < XqChunk => Len(xqpkts[1]) < XqChunk)
      /\ Len(xqpkts) \in Nat \ {0} /\ Len(Tail(xqpkts)) = Len(xqpkts) - 1 /\ Tail(xqpkts) \in Seq(Seq(XqBytes))
      /\ \A i \in 1 .. Len(xqpkts) - 1 : Tail(xqpkts)[i] = xqpkts[i + 1]
  <2>1. Len(w) \in 1 .. XqChunk => Len(w) \in Nat \ {0}
    BY XqChunkAssumption
  <2> QED
    BY <1>0, <1>2, <1>w, <2>1, NextFacts
<1>5. /\ xqway \in XqWays /\ xqsent \in Seq(XqMessages) /\ xqpkts \in Seq(Seq(XqBytes))
      /\ xqacc \in Seq(XqBytes) /\ xqgot \in Seq(Seq(XqBytes)) /\ g \in Nat /\ n \in Nat
      /\ \A i \in 1 .. Len(xqpkts) : Len(xqpkts[i]) \in 1 .. XqBound
  BY <1>0, <1>g, <1>n, LenProperties DEF XqTypes
<1>6. xqsent # <<>>
  BY <1>0, <1>2 DEF XqTypes
<1>7. xqacc \o w \in Seq(XqBytes) /\ xqacc \o LastBody(w) \in Seq(XqBytes)
  BY <1>4, <1>5, BodyFacts, ConcatProperties
<1> DEFINE Done == xqway[2] = "cs" \/ Len(w) < XqChunk
<1>8. /\ Done => xqacc' = <<>> /\ xqgot' = Append(xqgot, xqacc \o LastBody(w)) /\ Len(xqgot') = g + 1
      /\ ~Done => xqacc' = xqacc \o w /\ xqgot' = xqgot /\ Len(xqgot') = g
      /\ xqgot' \in Seq(Seq(XqBytes)) /\ xqacc' \in Seq(XqBytes)
      /\ \A i \in 1 .. g : xqgot'[i] = xqgot[i]
      /\ Done => xqgot'[g + 1] = xqacc \o LastBody(w)
  <2>1. /\ Append(xqgot, xqacc \o LastBody(w)) \in Seq(Seq(XqBytes))
        /\ Len(Append(xqgot, xqacc \o LastBody(w))) = g + 1
        /\ \A i \in 1 .. g : Append(xqgot, xqacc \o LastBody(w))[i] = xqgot[i]
        /\ Append(xqgot, xqacc \o LastBody(w))[g + 1] = xqacc \o LastBody(w)
    BY <1>5, <1>7, <1>g, AppendProperties
  <2>2. <<>> \in Seq(XqBytes)
    OBVIOUS
  <2>3. CASE Done
    <3>1. xqacc' = <<>> /\ xqgot' = Append(xqgot, xqacc \o LastBody(w))
      <4>1. ~(xqway[2] # "cs" /\ Len(w) = XqChunk)
        BY <1>4, <2>3, XqChunkAssumption
      <4> QED
        BY <1>3, <4>1
    <3> QED
      BY <2>1, <2>2, <2>3, <3>1
  <2>4. CASE ~Done
    <3>1. xqacc' = xqacc \o w /\ xqgot' = xqgot
      BY <1>3, <2>4
    <3> QED
      BY <1>5, <1>7, <1>g, <2>4, <3>1
  <2> QED
    BY <2>3, <2>4
<1> HIDE DEF Done
<1>9. XqTypes'
  <2>1. \A i \in 1 .. Len(xqpkts') : Len(xqpkts'[i]) \in 1 .. XqBound
    <3> SUFFICES ASSUME NEW i \in 1 .. Len(xqpkts') PROVE Len(xqpkts'[i]) \in 1 .. XqBound
      OBVIOUS
    <3>1. i \in 1 .. Len(xqpkts) - 1 /\ i + 1 \in 1 .. Len(xqpkts)
      BY <1>2, <1>4
    <3> QED
      BY <1>2, <1>4, <1>5, <3>1
  <2>2. XqBound' = XqBound
    BY <1>2, SameWay
  <2> QED
    BY <1>2, <1>4, <1>5, <1>6, <1>8, <2>1, <2>2 DEF XqTypes
<1>b. PICK bt : bt = [j \in 1 .. n + 1 |-> at[j] - 1]
  OBVIOUS
<1>10. XqLine(xqsent, xqpkts, bt)'
  <2>1. XqLine(xqsent, Tail(xqpkts), bt)
    BY <1>1, <1>2, <1>5, <1>b, <1>n, LineRead
  <2>2. XqLine(xqsent', xqpkts', bt)
    BY <1>2, <2>1
  <2> QED
    BY <1>2, <2>2, SameWay
<1>11. \A j \in 1 .. n + 1 : bt[j] = at[j] - 1 /\ at[j] \in Int
  BY <1>1, <1>b, <1>n DEF XqLine
<1>12. Len(xqgot') \in Nat /\ g <= Len(xqgot')
  BY <1>5, <1>8
<1>13. XqClean' => XqClean
  <2> SUFFICES ASSUME XqClean', NEW j \in 1 .. n, j <= g + 1 PROVE Handled(xqsent[j])
    BY <1>g, <1>n DEF XqClean
  <2>1. j <= Len(xqgot') + 1
    BY <1>5, <1>12
  <2>2. Handled(xqsent[j])'
    BY <1>2, <1>n, <2>1 DEF XqClean
  <2> QED
    BY <1>2, <2>2 DEF Handled
<1>14. XqSeen(bt)'
  <2> SUFFICES ASSUME xqway[2] # "cs" PROVE Len(xqgot') <= n /\ bt[Len(xqgot') + 1] <= 0
    BY <1>2, <1>n DEF XqSeen
  <2>1. g <= n /\ at[g + 1] <= 0
    BY <1>1, <1>g, <1>n DEF XqSeen
  <2>2. CASE ~Done
    <3>1. g + 1 \in 1 .. n + 1
      BY <1>5, <2>1
    <3>2. bt[g + 1] = at[g + 1] - 1 /\ at[g + 1] \in Int
      BY <1>11, <3>1
    <3> QED
      BY <1>8, <2>1, <2>2, <3>2
  <2>3. CASE Done
    <3>1. Len(xqpkts[1]) < XqChunk
      BY <1>4, <2>3 DEF Done
    <3>2. g + 1 <= n /\ at[g + 2] <= 1
      BY <1>0, <1>1, <1>2, <1>g, <1>n, <2>1, <3>1, ShortPacket
    <3>3. g + 2 \in 1 .. n + 1 /\ (g + 1) + 1 = g + 2
      BY <1>5, <3>2
    <3>4. bt[g + 2] = at[g + 2] - 1 /\ at[g + 2] \in Int
      BY <1>11, <3>3
    <3> QED
      BY <1>8, <2>3, <3>2, <3>3, <3>4
  <2> QED
    BY <2>2, <2>3
<1>m. PICK m : m = xqsent[g + 1]
  OBVIOUS
<1>i. PICK i1 : i1 = 1 - at[g + 1]
  OBVIOUS
<1> DEFINE z == Len(Pieces(m))
<1>15. ASSUME XqClean
       PROVE  /\ g < n /\ m \in XqMessages /\ Handled(m) /\ i1 \in 1 .. z
              /\ at[g + 1] \in Int /\ at[g + 2] = 1 + z - i1 /\ z \in Nat
              /\ w = Pieces(m)[i1] /\ xqacc = Together(m, i1 - 1)
  <2>1. XqTypes /\ XqLine(xqsent, xqpkts, at) /\ XqInside(at) /\ XqClean /\ xqpkts # <<>>
    BY <1>0, <1>1, <1>2, <1>15
  <2>2. CurrentPacket(at, g, m, i1)
    BY <1>g, <1>m, <1>i, <2>1, CurrentMessage
  <2> QED
    BY <1>n, <1>w, <2>2 DEF CurrentPacket
<1>16. ASSUME XqClean
       PROVE  /\ Done <=> i1 = z
              /\ ~Done => xqacc' = Together(m, i1)
              /\ Done => xqgot'[g + 1] = Received(m)
  <2> HIDE DEF z
  <2>0. /\ m \in XqMessages /\ Handled(m) /\ i1 \in 1 .. Len(Pieces(m)) /\ w = Pieces(m)[i1]
        /\ xqacc = Together(m, i1 - 1) /\ z = Len(Pieces(m))
    BY <1>15, <1>16 DEF z
  <2>1. /\ Len(w) \in 1 .. XqChunk
        /\ i1 # z => Len(w) = XqChunk /\ Together(m, i1 - 1) \o w = Together(m, i1)
        /\ i1 = z => Len(w) < XqChunk
    BY <1>5, <2>0, PieceJoins
  <2>2. xqway[2] = "cs" => z = 1
    BY <1>5, <2>0, HandledPieces
  <2>3. Done <=> i1 = z
    <3>1. CASE i1 = z
      BY <2>1, <3>1 DEF Done
    <3>2. CASE i1 # z
      <4>1. xqway[2] # "cs"
        BY <2>0, <2>2, <3>2
      <4>2. ~(Len(w) < XqChunk)
        BY <2>1, <3>2, XqChunkAssumption
      <4> QED
        BY <3>2, <4>1, <4>2 DEF Done
    <3> QED
      BY <3>1, <3>2
  <2>4. i1 = z => Together(m, i1 - 1) \o LastBody(w) = Received(m)
    BY <1>5, <2>0, MessageArrives
  <2> QED
    BY <1>8, <2>0, <2>1, <2>3, <2>4
<1>17. XqRoundTrip'
  <2> SUFFICES ASSUME NEW i \in 1 .. Len(xqgot'), \A j \in 1 .. i : Handled(xqsent[j])
               PROVE  xqgot'[i] = Received(xqsent[i])
    <3>1. DOMAIN xqgot' = 1 .. Len(xqgot')
      BY <1>8, LenProperties
    <3>2. \A k : (Handled(k)' <=> Handled(k)) /\ Received(k)' = Received(k)
      BY <1>2, SameWay
    <3>3. \A j : (Handled(xqsent[j])' <=> Handled(xqsent[j])) /\ Received(xqsent[j])' = Received(xqsent[j])
      BY <1>2 DEF Handled, Received
    <3> QED
      BY <3>1, <3>3 DEF XqRoundTrip
  <2>1. CASE i \in 1 .. g
    <3>1. DOMAIN xqgot = 1 .. g
      BY <1>5, <1>g, LenProperties
    <3>2. xqgot[i] = Received(xqsent[i])
      BY <1>0, <2>1, <3>1 DEF XqRoundTrip
    <3> QED
      BY <1>8, <2>1, <3>2
  <2>2. CASE i \notin 1 .. g
    <3>1. Done /\ i = g + 1
      BY <1>5, <1>8, <2>2
    <3>2. XqClean
      <4> SUFFICES ASSUME NEW j \in 1 .. n, j <= g + 1 PROVE Handled(xqsent[j])
        BY <1>g, <1>n DEF XqClean
      <4>1. j \in 1 .. i
        BY <1>5, <3>1
      <4> QED
        BY <4>1
    <3> QED
      BY <1>16, <1>m, <3>1, <3>2
  <2> QED
    BY <2>1, <2>2
<1>18. XqInside(bt)'
  <2> SUFFICES ASSUME XqClean'
               PROVE  /\ Len(xqgot') <= n
                      /\ Len(xqgot') < n =>
                            /\ bt[Len(xqgot') + 1] <= 0 /\ bt[Len(xqgot') + 2] > 0
                            /\ xqacc' = Together(xqsent[Len(xqgot') + 1], 0 - bt[Len(xqgot') + 1])
                      /\ Len(xqgot') = n => xqpkts' = <<>> /\ xqacc' = <<>>
    BY <1>2, <1>n DEF XqInside, Together
  <2>0. XqClean
    BY <1>13
  <2> HIDE DEF z
  <2>1. /\ g < n /\ m \in XqMessages /\ Handled(m) /\ i1 \in 1 .. z
        /\ at[g + 1] \in Int /\ at[g + 2] = 1 + z - i1 /\ z \in Nat /\ i1 = 1 - at[g + 1]
        /\ g + 1 \in 1 .. n + 1 /\ g + 2 \in 1 .. n + 1
    <3>1. g < n /\ g + 1 \in 1 .. n + 1 /\ g + 2 \in 1 .. n + 1
      BY <1>5, <1>15, <2>0
    <3> QED
      BY <1>15, <1>i, <2>0, <3>1 DEF z
  <2>2. bt[g + 1] = at[g + 1] - 1 /\ bt[g + 2] = at[g + 2] - 1
    BY <1>11, <2>1
  <2>3. CASE ~Done
    <3>1. Len(xqgot') = g /\ xqacc' = Together(m, i1) /\ i1 # z
      BY <1>8, <1>16, <2>0, <2>3
    <3> DEFINE x == at[g + 1]   y == at[g + 2]   xb == bt[g + 1]   yb == bt[g + 2]
    <3>2. x \in Int /\ y = 1 + z - i1 /\ i1 = 1 - x /\ xb = x - 1 /\ yb = y - 1 /\ i1 \in 1 .. z /\ i1 # z /\ z \in Nat
      BY <2>1, <2>2, <3>1
    <3> HIDE DEF x, y, xb, yb
    <3>3. xb <= 0 /\ yb > 0 /\ 0 - xb = i1
      BY <3>2
    <3>4. g <= n /\ g # n
      BY <1>5, <2>1
    <3> QED
      BY <1>m, <3>1, <3>3, <3>4 DEF xb, yb
  <2>4. CASE Done
    <3>1. Len(xqgot') = g + 1 /\ xqacc' = <<>> /\ i1 = z
      BY <1>8, <1>16, <2>0, <2>4
    <3>2. bt[g + 2] = 0
      BY <2>1, <2>2, <3>1
    <3>3. (g + 1) + 1 = g + 2 /\ (g + 1) + 2 = g + 3 /\ g + 1 <= n
      BY <1>5, <2>1
    <3>4. CASE g + 1 = n
      <4>1. bt[n + 1] = Len(xqpkts')
        BY <1>2, <1>10, <1>n DEF XqLine
      <4>2. Len(Tail(xqpkts)) = 0
        BY <1>2, <3>2, <3>3, <3>4, <4>1
      <4>3. xqpkts' = <<>>
        BY <1>2, <1>4, <4>2, EmptySeq
      <4> QED
        BY <3>1, <3>3, <3>4, <4>3
    <3>5. CASE g + 1 # n
      <4>1. g + 2 \in 1 .. n /\ g + 2 <= Len(xqgot') + 1
        BY <1>5, <3>1, <3>3, <3>5
      <4>2. xqsent[g + 2] \in XqMessages /\ Handled(xqsent[g + 2])
        <5>0. PICK k : k = g + 2
          OBVIOUS
        <5>1. Handled(xqsent[k])'
          BY <1>2, <1>n, <4>1, <5>0 DEF XqClean
        <5>2. Handled(xqsent[g + 2])
          BY <1>2, <5>0, <5>1 DEF Handled
        <5> QED
          BY <1>5, <1>n, <4>1, <5>2, ElementOfSeq
      <4>3. Len(Pieces(xqsent[g + 2])) >= 1 /\ Len(Pieces(xqsent[g + 2])) \in Nat
        BY <1>5, <4>2, HandledPieces, PiecesFacts
      <4>4. bt[g + 3] = bt[g + 2] + Len(Pieces(xqsent[g + 2]))
        <5>1. XqLine(xqsent, Tail(xqpkts), bt)
          BY <1>1, <1>2, <1>5, <1>b, <1>n, LineRead
        <5>2. bt[(g + 2) + 1] = bt[g + 2] + Len(Pieces(xqsent[g + 2])) /\ (g + 2) + 1 = g + 3
          BY <1>5, <1>n, <4>1, <5>1 DEF XqLine
        <5> QED
          BY <5>2
      <4>5. bt[g + 3] > 0
        BY <3>2, <4>3, <4>4
      <4>6. Together(xqsent[g + 2], 0 - bt[g + 2]) = <<>>
        <5>1. 0 - bt[g + 2] = 0 /\ 0 * XqChunk = 0
          BY <3>2, XqChunkAssumption, Times
        <5>2. Padded(xqsent[g + 2]) \in Seq(XqBytes)
          BY <4>2, MessageFacts
        <5>3. SubSeq(Padded(xqsent[g + 2]), 1, 0) = <<>>
          OBVIOUS
        <5> QED
          BY <5>1, <5>3 DEF Together
      <4> QED
        BY <3>1, <3>2, <3>3, <3>5, <4>5, <4>6
    <3> QED
      BY <3>4, <3>5
  <2> QED
    BY <2>3, <2>4
<1> QED
  BY <1>9, <1>10, <1>14, <1>17, <1>18 DEF XqInv

LEMMA XqSendStep ==
    ASSUME XqInv, NEW m \in XqMessages, XqSend(m)
    PROVE  XqInv'
<1>g. PICK g : g = Len(xqgot)
  OBVIOUS
<1>n. PICK n : n = Len(xqsent)
  OBVIOUS
<1>p. PICK p : p = Pieces(m)
  OBVIOUS
<1>0. XqTypes /\ XqRoundTrip
  BY DEF XqInv
<1>1. PICK at : XqLine(xqsent, xqpkts, at) /\ XqSeen(at) /\ XqInside(at)
  BY DEF XqInv
<1>2. /\ xqsent' = Append(xqsent, m) /\ xqpkts' = xqpkts \o p
      /\ xqway' = xqway /\ xqacc' = xqacc /\ xqgot' = xqgot
  BY <1>p DEF XqSend, Pieces
<1>3. /\ xqway \in XqWays /\ xqsent \in Seq(XqMessages) /\ xqpkts \in Seq(Seq(XqBytes))
      /\ xqacc \in Seq(XqBytes) /\ xqgot \in Seq(Seq(XqBytes)) /\ g \in Nat /\ n \in Nat
      /\ \A i \in 1 .. Len(xqpkts) : Len(xqpkts[i]) \in 1 .. XqBound
      /\ Len(xqpkts) \in Nat
  BY <1>0, <1>g, <1>n, LenProperties DEF XqTypes
<1>4. /\ p \in Seq(Seq(XqBytes)) /\ Len(p) \in Nat
      /\ \A i \in 1 .. Len(p) : Len(p[i]) \in 1 .. XqBound
  BY <1>3, <1>p, PiecesFacts
<1>5. /\ xqsent' \in Seq(XqMessages) /\ Len(xqsent') = n + 1
      /\ (\A j \in 1 .. n : xqsent'[j] = xqsent[j]) /\ xqsent'[n + 1] = m
  BY <1>2, <1>3, <1>n, AppendProperties
<1>6. /\ xqpkts' \in Seq(Seq(XqBytes)) /\ Len(xqpkts') = Len(xqpkts) + Len(p)
      /\ \A i \in 1 .. Len(xqpkts) + Len(p) : xqpkts'[i] = IF i <= Len(xqpkts) THEN xqpkts[i] ELSE p[i - Len(xqpkts)]
  BY <1>2, <1>3, <1>4, ConcatProperties
<1>7. XqTypes'
  <2>1. \A i \in 1 .. Len(xqpkts') : Len(xqpkts'[i]) \in 1 .. XqBound
    <3> SUFFICES ASSUME NEW i \in 1 .. Len(xqpkts') PROVE Len(xqpkts'[i]) \in 1 .. XqBound
      OBVIOUS
    <3> DEFINE l == Len(xqpkts)   c == Len(p)
    <3>1. l \in Nat /\ c \in Nat /\ i \in 1 .. l + c
      BY <1>3, <1>4, <1>6
    <3> HIDE DEF l, c
    <3>2. i <= l => i \in 1 .. l
      BY <3>1
    <3>3. ~(i <= l) => i - l \in 1 .. c
      BY <3>1
    <3> QED
      BY <1>3, <1>4, <1>6, <3>1, <3>2, <3>3 DEF l, c
  <2>2. XqBound' = XqBound
    BY <1>2, SameWay
  <2>3. xqsent' # <<>>
    <3>1. Len(<<>>) = 0 /\ Len(xqsent') # 0
      BY <1>3, <1>5
    <3> QED
      BY <3>1
  <2> QED
    BY <1>2, <1>3, <1>5, <1>6, <2>1, <2>2, <2>3 DEF XqTypes
<1>b. PICK bt : bt = [j \in 1 .. Len(xqsent) + 2 |-> IF j <= Len(xqsent) + 1 THEN at[j] ELSE Len(xqpkts) + Len(p)]
  OBVIOUS
<1>8. XqLine(xqsent', xqpkts', bt)
  <2>1. XqLine(Append(xqsent, m), xqpkts \o Pieces(m), bt)
    BY <1>1, <1>3, <1>b, <1>p, LineSend
  <2> QED
    BY <1>2, <1>p, <2>1
<1>9. XqLine(xqsent, xqpkts, bt)'
  BY <1>2, <1>8, SameWay
<1>10. at \in [1 .. n + 1 -> Int] /\ at[n + 1] = Len(xqpkts)
  BY <1>1, <1>n DEF XqLine
<1>11. (\A j \in 1 .. n + 1 : bt[j] = at[j] /\ at[j] \in Int) /\ bt[n + 2] = Len(xqpkts) + Len(p)
  <2>1. \A j \in 1 .. n + 1 : j \in 1 .. n + 2 /\ j <= n + 1
    BY <1>3
  <2>2. n + 2 \in 1 .. n + 2 /\ ~(n + 2 <= n + 1)
    BY <1>3
  <2> QED
    BY <1>10, <1>b, <1>n, <2>1, <2>2
<1>12. ASSUME NEW j \in 1 .. n PROVE Handled(xqsent[j])' <=> Handled(xqsent[j])
  BY <1>2, <1>5 DEF Handled
<1>13. Handled(xqsent[n + 1])' <=> Handled(m)
  <2>1. PICK k : k = n + 1
    OBVIOUS
  <2>2. Handled(xqsent[k])' <=> Handled(m)
    BY <1>2, <1>5, <2>1 DEF Handled
  <2> QED
    BY <2>1, <2>2
<1>14. XqClean' => XqClean
  <2> SUFFICES ASSUME XqClean', NEW j \in 1 .. n, j <= g + 1 PROVE Handled(xqsent[j])
    BY <1>g, <1>n DEF XqClean
  <2>1. j \in 1 .. Len(xqsent') /\ j <= Len(xqgot') + 1
    BY <1>2, <1>3, <1>5, <1>g
  <2>2. Handled(xqsent[j])'
    BY <2>1 DEF XqClean
  <2> QED
    BY <1>12, <2>2
<1>15. XqSeen(bt)'
  <2> SUFFICES ASSUME xqway[2] # "cs" PROVE g <= n + 1 /\ bt[g + 1] <= 0
    BY <1>2, <1>5, <1>g DEF XqSeen
  <2>1. g <= n /\ at[g + 1] <= 0
    BY <1>1, <1>g, <1>n DEF XqSeen
  <2>2. g + 1 \in 1 .. n + 1
    BY <1>3, <2>1
  <2> QED
    BY <1>3, <1>11, <2>1, <2>2
<1>16. ASSUME XqClean PROVE g <= n
  BY <1>1, <1>16, <1>g, <1>n DEF XqInside
<1>17. XqRoundTrip'
  <2> SUFFICES ASSUME NEW i \in 1 .. g, \A j \in 1 .. i : Handled(xqsent[j])'
               PROVE  xqgot[i] = Received(xqsent[i])'
    <3>1. DOMAIN xqgot' = 1 .. g
      BY <1>2, <1>3, <1>g, LenProperties
    <3> QED
      BY <1>2, <3>1 DEF XqRoundTrip
  <2>1. CASE i <= n
    <3>1. \A j \in 1 .. i : Handled(xqsent[j])
      <4> SUFFICES ASSUME NEW j \in 1 .. i PROVE Handled(xqsent[j])
        OBVIOUS
      <4>1. j \in 1 .. n
        BY <1>3, <2>1
      <4> QED
        BY <1>12, <4>1
    <3>2. DOMAIN xqgot = 1 .. g
      BY <1>3, <1>g, LenProperties
    <3>3. xqgot[i] = Received(xqsent[i])
      BY <1>0, <3>1, <3>2 DEF XqRoundTrip
    <3>4. xqsent'[i] = xqsent[i]
      BY <1>3, <1>5, <2>1
    <3>5. Received(xqsent[i])' = Received(xqsent[i])
      BY <1>2, <3>4 DEF Received
    <3> QED
      BY <3>3, <3>5
  <2>2. CASE ~(i <= n)
    <3>1. XqClean
      <4> SUFFICES ASSUME NEW j \in 1 .. n PROVE Handled(xqsent[j])
        BY <1>n DEF XqClean
      <4>1. j \in 1 .. i
        BY <1>3, <2>2
      <4> QED
        BY <1>12, <4>1
    <3>2. FALSE
      BY <1>3, <1>16, <2>2, <3>1
    <3> QED
      BY <3>2
  <2> QED
    BY <2>1, <2>2
<1>18. XqInside(bt)'
  <2> SUFFICES ASSUME XqClean'
               PROVE  /\ g < n + 1
                      /\ bt[g + 1] <= 0 /\ bt[g + 2] > 0
                      /\ xqacc = Together(xqsent'[g + 1], 0 - bt[g + 1])
    <3>1. Len(xqgot') = g /\ Len(xqsent') = n + 1
      BY <1>2, <1>5, <1>g
    <3>2. g < n + 1 => g <= n + 1 /\ g # n + 1
      BY <1>3
    <3> QED
      BY <1>2, <3>1, <3>2 DEF XqInside, Together
  <2>0. XqClean /\ g <= n
    BY <1>14, <1>16
  <2>1. CASE g < n
    <3>1. at[g + 1] <= 0 /\ at[g + 2] > 0 /\ xqacc = Together(xqsent[g + 1], 0 - at[g + 1])
      BY <1>1, <1>g, <1>n, <2>0, <2>1 DEF XqInside
    <3>2. g + 1 \in 1 .. n + 1 /\ g + 2 \in 1 .. n + 1 /\ g + 1 \in 1 .. n /\ g < n + 1
      BY <1>3, <2>1
    <3>3. bt[g + 1] = at[g + 1] /\ bt[g + 2] = at[g + 2] /\ xqsent'[g + 1] = xqsent[g + 1]
      BY <1>5, <1>11, <3>2
    <3> QED
      BY <3>1, <3>2, <3>3
  <2>2. CASE g = n
    <3>1. xqpkts = <<>> /\ xqacc = <<>>
      BY <1>1, <1>g, <1>n, <2>0, <2>2 DEF XqInside
    <3>2. Len(xqpkts) = 0
      BY <3>1
    <3>3. Handled(m)
      <4>1. PICK k : k = n + 1
        OBVIOUS
      <4>2. k \in 1 .. Len(xqsent') /\ k <= Len(xqgot') + 1
        BY <1>2, <1>3, <1>5, <1>g, <2>2, <4>1
      <4>3. Handled(xqsent[k])'
        BY <4>2 DEF XqClean
      <4>4. Handled(xqsent[n + 1])'
        BY <4>1, <4>3
      <4> QED
        BY <1>13, <4>4
    <3>4. Len(p) >= 1
      BY <1>3, <1>p, <3>3, HandledPieces
    <3>5. n + 1 \in 1 .. n + 1
      BY <1>3
    <3>6. bt[n + 1] = 0 /\ bt[n + 2] > 0
      BY <1>4, <1>10, <1>11, <3>2, <3>4, <3>5
    <3>7. Together(m, 0 - bt[n + 1]) = <<>>
      <4>1. 0 - bt[n + 1] = 0 /\ 0 * XqChunk = 0
        BY <3>6, XqChunkAssumption, Times
      <4>2. SubSeq(Padded(m), 1, 0) = <<>>
        OBVIOUS
      <4> QED
        BY <4>1, <4>2 DEF Together
    <3>8. n < n + 1
      BY <1>3
    <3> QED
      BY <1>5, <2>2, <3>1, <3>6, <3>7, <3>8
  <2>3. g < n \/ g = n
    BY <1>3, <2>0
  <2> QED
    BY <2>1, <2>2, <2>3
<1> QED
  BY <1>7, <1>9, <1>15, <1>17, <1>18 DEF XqInv

\* Nothing was sent: there is nothing anywhere.
XqNone == xqway \in XqWays /\ xqsent = <<>> /\ xqpkts = <<>> /\ xqacc = <<>> /\ xqgot = <<>>
LEMMA XqNothing == XqNone => XqInv
<1> SUFFICES ASSUME XqNone PROVE XqInv
  OBVIOUS
<1> USE DEF XqNone
<1>1. Len(xqsent) = 0 /\ Len(xqpkts) = 0 /\ Len(xqgot) = 0 /\ DOMAIN xqgot = {}
  OBVIOUS
<1>2. XqTypes
  <2>1. <<>> \in Seq(XqMessages) /\ <<>> \in Seq(Seq(XqBytes)) /\ <<>> \in Seq(XqBytes) /\ 1 .. 0 = {}
    OBVIOUS
  <2> QED
    BY <1>1, <2>1 DEF XqTypes
<1>3. XqRoundTrip
  BY <1>1 DEF XqRoundTrip
<1>4. PICK at : at = [j \in 1 .. 1 |-> 0]
  OBVIOUS
<1>5. at \in [1 .. 1 -> Int] /\ at[1] = 0
  BY <1>4
<1>6. XqLine(xqsent, xqpkts, at)
  <2>1. 0 + 1 = 1 /\ 1 .. 0 = {} /\ \A j \in 1 .. 1 : j = 1
    OBVIOUS
  <2> QED
    BY <1>1, <1>5, <2>1 DEF XqLine
<1>7. XqSeen(at) /\ XqInside(at)
  <2>1. 0 + 1 = 1 /\ 0 <= 0 /\ ~(0 < 0)
    OBVIOUS
  <2>2. XqSeen(at)
    BY <1>1, <1>5, <2>1 DEF XqSeen
  <2>3. XqInside(at)
    BY <1>1, <2>1 DEF XqInside
  <2> QED
    BY <2>2, <2>3
<1> QED
  BY <1>2, <1>3, <1>6, <1>7 DEF XqInv

LEMMA XqTalkStep == XqInv /\ XqTalk => XqInv'
<1>1. XqNone => XqInv
  BY XqNothing
<1>2. XqNone' => XqInv'
  BY <1>1, PTL
<1>3. XqInv /\ XqTalk => XqNone'
  BY DEF XqTalk, XqInv, XqTypes, XqNone
<1> QED
  BY <1>2, <1>3

LEMMA XqStepInv == XqInv /\ [XqNext]_xqVars => XqInv'
<1> SUFFICES ASSUME XqInv, [XqNext]_xqVars PROVE XqInv'
  OBVIOUS
<1>1. CASE XqTalk
  BY <1>1, XqTalkStep
<1>2. ASSUME NEW m \in XqMessages, XqSend(m) PROVE XqInv'
  BY <1>2, XqSendStep
<1>3. CASE XqRead
  BY <1>3, XqReadStep
<1>4. CASE UNCHANGED xqVars
  <2>1. xqway' = xqway /\ xqsent' = xqsent /\ xqpkts' = xqpkts /\ xqacc' = xqacc /\ xqgot' = xqgot
    BY <1>4 DEF xqVars
  <2>2. XqTypes /\ XqRoundTrip
    BY DEF XqInv
  <2>3. XqTypes' /\ XqRoundTrip'
    BY <2>1, <2>2 DEF XqTypes, XqBound, XqRoundTrip, Handled, Received
  <2>4. PICK at : XqLine(xqsent, xqpkts, at) /\ XqSeen(at) /\ XqInside(at)
    BY DEF XqInv
  <2>5. XqLine(xqsent, xqpkts, at)'
    BY <2>1, <2>4, SameWay
  <2>6. XqSeen(at)' /\ XqInside(at)'
    BY <2>1, <2>4 DEF XqSeen, XqInside, XqClean, Handled
  <2> QED
    BY <2>3, <2>5, <2>6 DEF XqInv
<1> QED
  BY <1>1, <1>2, <1>3, <1>4 DEF XqNext

\* Messages arrive whole, one by one and in order, whatever their lengths, up to the
\* first one a runner does not handle (xqueue SendBytes and recvBytes, wdog/runner),
\* for packets and messages of any length.
THEOREM MessagesArriveWhole == XqSpec => [](XqTypeOK /\ XqRoundTrip)
<1>1. XqInit => XqInv
  <2>1. <<"go", "go">> \in XqWays
    BY DEF XqWays, XqLangs
  <2> QED
    BY <2>1, XqNothing DEF XqInit, XqNone
<1>2. XqInv => XqTypeOK /\ XqRoundTrip
  BY XqInvHolds DEF XqInv
<1> QED
  BY <1>1, <1>2, XqStepInv, PTL DEF XqSpec
=============================================================================
