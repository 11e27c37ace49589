---------------------------- MODULE CallsProofs -----------------------------
(***************************************************************************)
(* What a call goes through, for every number of pods, calls, requests,    *)
(* removals and failures: the pods of a function and the cached list       *)
(* (FnPods), the counters, the goal and the scaler (Scaler), the counters  *)
(* of calls (CallStats), the rate limiters (RateLimit), the routers        *)
(* (Routers), and the types of them and of the triggers in one             *)
(* specification (MCCalls).                                                *)
(*                                                                         *)
(* CountInv: what a limiter was given covers what it has left and what the *)
(* calls hold of it; ReturnInv and RateInv add what refused calls give     *)
(* back and what the time that passed pays for.                            *)
(* PodsInv: what a goroutine holds between its load and its lock is the    *)
(* store's structure or a dead one, only podEventLoop kills one, and a     *)
(* structure outside the store is empty.                                   *)
(* ScalerInv: a call that has counted itself in carries a difference that  *)
(* the peak covers, and one that wrapped around is beyond the limit.       *)
(* CsInv: the copy of what the database has is what it has; what it lacks  *)
(* raises the flag, is being written or was lost; and the calls that are   *)
(* still to be counted are counted with the counter.                       *)
(* RtInv: what is cached, and what a call has looked at, was in force.     *)
(***************************************************************************)
EXTENDS MCCalls, TriggersProofs

-----------------------------------------------------------------------------
(* RateLimit.                                                               *)

\* a call that takes or gives back is at a limiter, and no limiter's clock is ahead
Placed == \A c \in RlCalls : dir[c] \in {"get", "put"} => at[c] \in Limiters
Clocks == \A l \in Limiters : t[l] <= now

CountInv == RlTypeOK /\ Placed /\ Clocks /\ Bounded /\ Conserved

-----------------------------------------------------------------------------
(* The limits are numbers.                                                 *)
LEMMA Limits ==
    /\ Base \in Nat /\ Base > 0
    /\ \A l \in Limiters : Burst[l] \in Nat /\ Burst[l] > 0 /\ Eps[l] \in Nat /\ Eps[l] > 0
BY RateAssumption DEF Limiters

(* Arithmetic the provers need to be told.                                 *)
LEMMA MulMono ==
    ASSUME NEW a \in Nat, NEW b \in Nat, NEW k \in Nat, a <= b
    PROVE  a * k <= b * k /\ k * a <= k * b
OBVIOUS

(* The same with integers.                                                 *)
LEMMA MulMonoInt ==
    ASSUME NEW a \in Int, NEW b \in Int, NEW c \in Nat, a <= b
    PROVE  a * c <= b * c
<1>1. (b - a) \in Nat /\ b = a + (b - a)
  OBVIOUS
<1>2. (b - a) * c \in Nat
  BY <1>1
<1>3. b * c = a * c + (b - a) * c
  BY <1>1
<1>4. a * c \in Int /\ b * c \in Int
  OBVIOUS
<1> QED BY <1>2, <1>3, <1>4

(* A positive factor cancels.                                              *)
LEMMA MulCancel ==
    ASSUME NEW a \in Nat, NEW b \in Nat, NEW k \in Nat, k > 0, k * a <= k * b
    PROVE  a <= b
<1> SUFFICES ASSUME a >= b + 1 PROVE FALSE
  OBVIOUS
<1>1. k * (b + 1) <= k * a
  BY MulMono
<1>2. k * (b + 1) = k * b + k /\ k * b \in Nat /\ k * a \in Nat
  OBVIOUS
<1> QED BY <1>1, <1>2

(* What division leaves out.                                               *)
LEMMA DivIs ==
    ASSUME NEW a \in Nat, NEW b \in Nat, b > 0
    PROVE  a \div b \in Nat /\ b * (a \div b) <= a
OBVIOUS

(* A product divided by its factor.                                        *)
LEMMA DivExact ==
    ASSUME NEW x \in Nat, NEW k \in Nat, k > 0
    PROVE  (k * x) \div k = x
OBVIOUS

(* Refill: an empty limiter gets at most its burst, and its clock moves    *)
(* forward by no more than the time that passed.                           *)
LEMMA RefillBounds ==
    ASSUME NEW l \in Limiters, NEW d \in Nat
    PROVE  /\ Refill(l, d) \in Nat /\ Refill(l, d) <= Burst[l]
           /\ Advance(l, d) \in Nat /\ Advance(l, d) <= d
<1> DEFINE e == Eps[l]
           k == (d * e) \div Base
           m == Base * k
<1>0. /\ Base \in Nat /\ Base > 0 /\ e \in Nat /\ e > 0
      /\ Burst[l] \in Nat /\ Burst[l] > 0
  BY Limits
<1>1. d * e \in Nat
  BY <1>0
<1>2. k \in Nat /\ Base * k <= d * e
  BY <1>0, <1>1, DivIs
<1>3. m \in Nat /\ m <= d * e
  BY <1>0, <1>2
<1>4. m \div e \in Nat /\ e * (m \div e) <= m
  BY <1>0, <1>3, DivIs
<1>5. e * (m \div e) <= e * d
  BY <1>0, <1>3, <1>4
<1>6. m \div e <= d
  BY <1>0, <1>4, <1>5, MulCancel
<1>7. Refill(l, d) \in Nat /\ Refill(l, d) <= Burst[l]
  <2> HIDE DEF k
  <2> QED BY <1>0, <1>2 DEF Refill, Least, k
<1>8. Advance(l, d) \in Nat /\ Advance(l, d) <= d
  <2>1. CASE d >= Base
    BY <2>1 DEF Advance
  <2>2. CASE ~(d >= Base)
    BY <2>2, <1>4, <1>6 DEF Advance
  <2> QED BY <2>1, <2>2
<1> QED BY <1>7, <1>8

-----------------------------------------------------------------------------
(* How the steps of a call change who holds tokens: a Get that succeeds    *)
(* adds the call to the holders of its limiter's tokens.                   *)
LEMMA GetHolds ==
    ASSUME RlTypeOK, NEW c \in RlCalls, NEW l \in Limiters,
           at[c] = l, dir[c] = "get", Proceed(c, l)
    PROVE  /\ c \notin Holding(l)
           /\ Holding(l)' = Holding(l) \cup {c}
           /\ \A k \in Limiters : k # l => Holding(k)' = Holding(k)
<1>1. Levels \in Nat /\ at \in [RlCalls -> 0..Levels + 1] /\ dir \in [RlCalls -> Dirs]
  BY RateAssumption DEF RlTypeOK
<1>2. \A k \in Limiters : \A b \in RlCalls : b # c => (b \in Holding(k)' <=> b \in Holding(k))
  BY <1>1 DEF Holding, Proceed
<1>3. \A k \in Limiters : c \in Holding(k) <=> k < l
  BY <1>1 DEF Holding, Limiters
<1>4. \A k \in Limiters : c \in Holding(k)' <=> k <= l
  BY <1>1 DEF Holding, Limiters, Proceed, Dirs
<1>5. \A k \in Limiters : Holding(k) \subseteq RlCalls /\ Holding(k)' \subseteq RlCalls
  BY DEF Holding
<1>6. \A k \in Limiters : k \in Int
  BY <1>1 DEF Limiters
<1>7. c \notin Holding(l)
  BY <1>3, <1>6
<1>8. Holding(l)' = Holding(l) \cup {c}
  BY <1>2, <1>4, <1>5, <1>6
<1>9. ASSUME NEW k \in Limiters, k # l PROVE Holding(k)' = Holding(k)
  <2>1. k < l <=> k <= l
    BY <1>6, <1>9
  <2> QED BY <2>1, <1>2, <1>3, <1>4, <1>5, <1>9
<1> QED BY <1>7, <1>8, <1>9

(* A refusal changes nothing: what the call held of the limiters before    *)
(* the one that refused it, it still holds, to give it back.               *)
LEMMA RefusedHolds ==
    ASSUME RlTypeOK, NEW c \in RlCalls, NEW l \in Limiters,
           at[c] = l, dir[c] = "get", TurnBack(c, l)
    PROVE  \A k \in Limiters : Holding(k)' = Holding(k)
<1>1. Levels \in Nat /\ at \in [RlCalls -> 0..Levels + 1] /\ dir \in [RlCalls -> Dirs]
  BY RateAssumption DEF RlTypeOK
<1>2. \A k \in Limiters : \A b \in RlCalls : b # c => (b \in Holding(k)' <=> b \in Holding(k))
  BY <1>1 DEF Holding, TurnBack
<1>3. \A k \in Limiters : c \in Holding(k) <=> k < l
  BY <1>1 DEF Holding, Limiters
<1>4. \A k \in Limiters : c \in Holding(k)' <=> k < l
  BY <1>1 DEF Holding, Limiters, TurnBack, Dirs
<1>5. \A k \in Limiters : Holding(k) \subseteq RlCalls /\ Holding(k)' \subseteq RlCalls
  BY DEF Holding
<1> QED BY <1>2, <1>3, <1>4, <1>5

(* A Put takes the call from the holders of its limiter's tokens.          *)
LEMMA PutHolds ==
    ASSUME RlTypeOK, NEW c \in RlCalls, NEW l \in Limiters,
           at[c] = l, dir[c] = "put", TurnBack(c, l)
    PROVE  /\ c \in Holding(l)
           /\ Holding(l)' = Holding(l) \ {c}
           /\ \A k \in Limiters : k # l => Holding(k)' = Holding(k)
<1>1. Levels \in Nat /\ at \in [RlCalls -> 0..Levels + 1] /\ dir \in [RlCalls -> Dirs]
  BY RateAssumption DEF RlTypeOK
<1>2. \A k \in Limiters : \A b \in RlCalls : b # c => (b \in Holding(k)' <=> b \in Holding(k))
  BY <1>1 DEF Holding, TurnBack
<1>3. \A k \in Limiters : c \in Holding(k) <=> k <= l
  BY <1>1 DEF Holding, Limiters
<1>4. \A k \in Limiters : c \in Holding(k)' <=> k < l
  BY <1>1 DEF Holding, Limiters, TurnBack, Dirs
<1>5. \A k \in Limiters : Holding(k) \subseteq RlCalls /\ Holding(k)' \subseteq RlCalls
  BY DEF Holding
<1>6. \A k \in Limiters : k \in Int
  BY <1>1 DEF Limiters
<1>7. c \in Holding(l)
  BY <1>3, <1>6
<1>8. Holding(l)' = Holding(l) \ {c}
  BY <1>2, <1>4, <1>5, <1>6
<1>9. ASSUME NEW k \in Limiters, k # l PROVE Holding(k)' = Holding(k)
  <2>1. k < l <=> k <= l
    BY <1>6, <1>9
  <2> QED BY <2>1, <1>2, <1>3, <1>4, <1>5, <1>9
<1> QED BY <1>7, <1>8, <1>9

(* Where a call goes next: to a limiter, unless it is over.                *)
LEMMA MovesPlaced ==
    ASSUME RlTypeOK, Placed, NEW c \in RlCalls, NEW l \in Limiters,
           Proceed(c, l) \/ TurnBack(c, l)
    PROVE  at' \in [RlCalls -> 0..Levels + 1] /\ dir' \in [RlCalls -> Dirs] /\ Placed'
<1>1. /\ Levels \in Nat /\ l \in 1..Levels
      /\ at \in [RlCalls -> 0..Levels + 1] /\ dir \in [RlCalls -> Dirs]
  BY RateAssumption DEF RlTypeOK, Limiters
<1>2. l + 1 \in 0..Levels + 1 /\ l - 1 \in 0..Levels + 1
  BY <1>1
<1>3. at' \in [RlCalls -> 0..Levels + 1] /\ dir' \in [RlCalls -> Dirs]
  BY <1>1, <1>2 DEF Proceed, TurnBack, Dirs
<1>4. ASSUME NEW b \in RlCalls, dir'[b] \in {"get", "put"} PROVE at'[b] \in Limiters
  <2>1. CASE b # c
    BY <1>1, <1>4, <2>1 DEF Placed, Proceed, TurnBack
  <2>2. CASE b = c /\ Proceed(c, l)
    <3>1. at'[c] = l + 1 /\ l # Levels
      BY <1>1, <1>4, <2>2 DEF Proceed
    <3> QED BY <1>1, <2>2, <3>1 DEF Limiters
  <2>3. CASE b = c /\ TurnBack(c, l)
    <3>1. at'[c] = l - 1 /\ l # 1
      BY <1>1, <1>4, <2>3 DEF TurnBack
    <3> QED BY <1>1, <2>3, <3>1 DEF Limiters
  <2> QED BY <2>1, <2>2, <2>3
<1> QED BY <1>3, <1>4 DEF Placed

(* The holders are finitely many.                                          *)
LEMMA HoldersFinite ==
    \A l \in Limiters : IsFiniteSet(Holding(l)) /\ Cardinality(Holding(l)) \in Nat
<1> SUFFICES ASSUME NEW l \in Limiters
             PROVE  IsFiniteSet(Holding(l)) /\ Cardinality(Holding(l)) \in Nat
  OBVIOUS
<1>1. Holding(l) \subseteq RlCalls
  BY DEF Holding
<1>2. IsFiniteSet(Holding(l))
  BY <1>1, RateAssumption, FS_Subset
<1> QED BY <1>2, FS_CardinalityType

-----------------------------------------------------------------------------
(* A fresh limiter holds its burst, and no call holds a token.             *)
LEMMA CountInit == RlInit => CountInv
<1> SUFFICES ASSUME RlInit PROVE CountInv
  OBVIOUS
<1>1. RlTypeOK
  BY RateAssumption DEF RlInit, RlTypeOK, Limiters, Dirs
<1>2. Placed /\ Clocks /\ Bounded
  BY RateAssumption DEF RlInit, Placed, Clocks, Bounded, Limiters
<1>3. ASSUME NEW l \in Limiters PROVE bts[l] + Cardinality(Holding(l)) <= given[l]
  <2>1. Holding(l) = {}
    BY RateAssumption DEF RlInit, Holding, Limiters
  <2>2. Cardinality(Holding(l)) = 0
    BY <2>1, FS_EmptySet
  <2> QED BY <2>2, Limits DEF RlInit
<1> QED BY <1>1, <1>2, <1>3 DEF CountInv, Conserved

(* A Get that finds tokens left moves one from the limiter to the call.    *)
LEMMA GetLeftStep ==
    ASSUME CountInv, NEW c \in RlCalls, GetLeft(c)
    PROVE  CountInv'
<1> PICK l \in Limiters : l = at[c]
  BY DEF CountInv, Placed, GetLeft
<1>1. /\ at[c] = l /\ dir[c] = "get" /\ bts[l] > 0
      /\ bts' = [bts EXCEPT ![l] = @ - 1] /\ Proceed(c, l)
      /\ UNCHANGED <<now, t, given, updates>>
  BY DEF GetLeft
<1>2. RlTypeOK' /\ Placed'
  <2>1. at' \in [RlCalls -> 0..Levels + 1] /\ dir' \in [RlCalls -> Dirs] /\ Placed'
    BY <1>1, MovesPlaced DEF CountInv
  <2>2. bts' \in [Limiters -> Nat]
    BY <1>1, Limits DEF CountInv, RlTypeOK
  <2> QED BY <1>1, <2>1, <2>2 DEF CountInv, RlTypeOK
<1>3. Clocks' /\ Bounded'
  BY <1>1, Limits DEF CountInv, RlTypeOK, Clocks, Bounded
<1>4. ASSUME NEW k \in Limiters PROVE (bts[k] + Cardinality(Holding(k)) <= given[k])'
  <2>1. /\ bts[k] \in Nat /\ given[k] \in Int /\ Cardinality(Holding(k)) \in Nat
        /\ bts[k] + Cardinality(Holding(k)) <= given[k]
    BY HoldersFinite DEF CountInv, RlTypeOK, Conserved
  <2>2. CASE k = l
    <3>1. Holding(l)' = Holding(l) \cup {c} /\ c \notin Holding(l)
      BY <1>1, GetHolds DEF CountInv
    <3>2. Cardinality(Holding(l)') = Cardinality(Holding(l)) + 1
      BY <3>1, HoldersFinite, FS_AddElement
    <3>3. bts'[l] = bts[l] - 1 /\ given' = given
      BY <1>1 DEF CountInv, RlTypeOK
    <3> QED BY <2>1, <2>2, <3>2, <3>3
  <2>3. CASE k # l
    <3>1. Holding(k)' = Holding(k)
      BY <1>1, <2>3, GetHolds DEF CountInv
    <3>2. bts'[k] = bts[k] /\ given' = given
      BY <1>1, <2>3 DEF CountInv, RlTypeOK
    <3> QED BY <2>1, <3>1, <3>2
  <2> QED BY <2>2, <2>3
<1> QED BY <1>2, <1>3, <1>4 DEF CountInv, Conserved

(* A Get that refills adds the same tokens to the limiter and to what it   *)
(* was given, and moves one to the call.                                   *)
LEMMA GetRefillStep ==
    ASSUME CountInv, NEW c \in RlCalls, GetRefill(c)
    PROVE  CountInv'
<1> PICK l \in Limiters : l = at[c]
  BY DEF CountInv, Placed, GetRefill
<1> DEFINE d == now - t[l]
           n == Refill(l, d)
<1>1. /\ at[c] = l /\ dir[c] = "get" /\ bts[l] = 0 /\ n > 0
      /\ bts' = [bts EXCEPT ![l] = n - 1]
      /\ t' = [t EXCEPT ![l] = @ + Advance(l, d)]
      /\ given' = [given EXCEPT ![l] = @ + n]
      /\ Proceed(c, l)
      /\ UNCHANGED <<now, updates>>
  BY DEF GetRefill
<1>2. d \in Nat
  BY DEF CountInv, RlTypeOK, Clocks
<1>3. n \in Nat /\ n <= Burst[l] /\ Advance(l, d) \in Nat /\ Advance(l, d) <= d
  BY <1>2, RefillBounds
<1> HIDE DEF n
<1>4. RlTypeOK'
  <2>1. at' \in [RlCalls -> 0..Levels + 1] /\ dir' \in [RlCalls -> Dirs]
    BY <1>1, MovesPlaced DEF CountInv
  <2>2. bts' \in [Limiters -> Nat] /\ t' \in [Limiters -> Nat] /\ given' \in [Limiters -> Int]
    BY <1>1, <1>3 DEF CountInv, RlTypeOK
  <2> QED BY <1>1, <2>1, <2>2 DEF CountInv, RlTypeOK
<1>5. Placed'
  BY <1>1, MovesPlaced DEF CountInv
<1>6. Clocks'
  BY <1>1, <1>2, <1>3 DEF CountInv, RlTypeOK, Clocks
<1>7. Bounded'
  BY <1>1, <1>3, Limits DEF CountInv, RlTypeOK, Bounded
<1>8. ASSUME NEW k \in Limiters PROVE (bts[k] + Cardinality(Holding(k)) <= given[k])'
  <2>1. /\ bts[k] \in Nat /\ given[k] \in Int /\ Cardinality(Holding(k)) \in Nat
        /\ bts[k] + Cardinality(Holding(k)) <= given[k]
    BY HoldersFinite DEF CountInv, RlTypeOK, Conserved
  <2>2. CASE k = l
    <3>1. Holding(l)' = Holding(l) \cup {c} /\ c \notin Holding(l)
      BY <1>1, GetHolds DEF CountInv
    <3>2. Cardinality(Holding(l)') = Cardinality(Holding(l)) + 1
      BY <3>1, HoldersFinite, FS_AddElement
    <3>3. bts'[l] = n - 1 /\ given'[l] = given[l] + n
      BY <1>1 DEF CountInv, RlTypeOK
    <3> QED BY <1>1, <1>3, <2>1, <2>2, <3>2, <3>3
  <2>3. CASE k # l
    <3>1. Holding(k)' = Holding(k)
      BY <1>1, <2>3, GetHolds DEF CountInv
    <3>2. bts'[k] = bts[k] /\ given'[k] = given[k]
      BY <1>1, <2>3 DEF CountInv, RlTypeOK
    <3> QED BY <2>1, <3>1, <3>2
  <2> QED BY <2>2, <2>3
<1> QED BY <1>4, <1>5, <1>6, <1>7, <1>8 DEF CountInv, Conserved

(* A Put moves a token from the call to the limiter, or drops it.          *)
LEMMA PutStep ==
    ASSUME CountInv, NEW c \in RlCalls, Put(c)
    PROVE  CountInv'
<1> PICK l \in Limiters : l = at[c]
  BY DEF CountInv, Placed, Put
<1>1. /\ at[c] = l /\ dir[c] = "put"
      /\ bts' = [bts EXCEPT ![l] = IF @ < Burst[l] THEN @ + 1 ELSE @]
      /\ TurnBack(c, l)
      /\ UNCHANGED <<now, t, given, updates>>
  BY DEF Put
<1>2. RlTypeOK' /\ Placed'
  <2>1. at' \in [RlCalls -> 0..Levels + 1] /\ dir' \in [RlCalls -> Dirs] /\ Placed'
    BY <1>1, MovesPlaced DEF CountInv
  <2>2. bts' \in [Limiters -> Nat]
    BY <1>1, Limits DEF CountInv, RlTypeOK
  <2> QED BY <1>1, <2>1, <2>2 DEF CountInv, RlTypeOK
<1>3. Clocks' /\ Bounded'
  BY <1>1, Limits DEF CountInv, RlTypeOK, Clocks, Bounded
<1>4. ASSUME NEW k \in Limiters PROVE (bts[k] + Cardinality(Holding(k)) <= given[k])'
  <2>1. /\ bts[k] \in Nat /\ given[k] \in Int /\ Cardinality(Holding(k)) \in Nat
        /\ bts[k] + Cardinality(Holding(k)) <= given[k]
    BY HoldersFinite DEF CountInv, RlTypeOK, Conserved
  <2>2. CASE k = l
    <3>1. Holding(l)' = Holding(l) \ {c} /\ c \in Holding(l)
      BY <1>1, PutHolds DEF CountInv
    <3>2. Cardinality(Holding(l)') = Cardinality(Holding(l)) - 1
      <4>1. IsFiniteSet(Holding(l))
        BY HoldersFinite
      <4>2. Cardinality(Holding(l) \ {c}) = Cardinality(Holding(l)) - 1
        BY <3>1, <4>1, FS_RemoveElement
      <4> QED BY <3>1, <4>2
    <3>3. bts'[l] <= bts[l] + 1 /\ bts'[l] \in Nat /\ given' = given
      BY <1>1, Limits DEF CountInv, RlTypeOK
    <3> QED BY <2>1, <2>2, <3>2, <3>3
  <2>3. CASE k # l
    <3>1. Holding(k)' = Holding(k)
      BY <1>1, <2>3, PutHolds DEF CountInv
    <3>2. bts'[k] = bts[k] /\ given' = given
      BY <1>1, <2>3 DEF CountInv, RlTypeOK
    <3> QED BY <2>1, <3>1, <3>2
  <2> QED BY <2>2, <2>3
<1> QED BY <1>2, <1>3, <1>4 DEF CountInv, Conserved

(* A refused Get moves no token.                                           *)
LEMMA GetRefusedStep ==
    ASSUME CountInv, NEW c \in RlCalls, GetRefused(c)
    PROVE  CountInv'
<1> PICK l \in Limiters : l = at[c]
  BY DEF CountInv, Placed, GetRefused
<1>1. /\ at[c] = l /\ dir[c] = "get" /\ TurnBack(c, l)
      /\ UNCHANGED <<now, bts, t, given, updates>>
  BY DEF GetRefused
<1>2. RlTypeOK' /\ Placed'
  <2>1. at' \in [RlCalls -> 0..Levels + 1] /\ dir' \in [RlCalls -> Dirs] /\ Placed'
    BY <1>1, MovesPlaced DEF CountInv
  <2>2. bts' \in [Limiters -> Nat]
    BY <1>1, Limits DEF CountInv, RlTypeOK
  <2> QED BY <1>1, <2>1, <2>2 DEF CountInv, RlTypeOK
<1>3. Clocks' /\ Bounded'
  BY <1>1 DEF CountInv, Clocks, Bounded
<1>4. \A k \in Limiters : Holding(k)' = Holding(k)
  BY <1>1, RefusedHolds DEF CountInv
<1>5. Conserved'
  BY <1>1, <1>4 DEF CountInv, Conserved
<1> QED BY <1>2, <1>3, <1>5 DEF CountInv

(* Update fills a limiter up and counts what it put in.                    *)
LEMMA UpdateStep ==
    ASSUME CountInv, NEW l \in Limiters, Update(l)
    PROVE  CountInv'
<1>1. RlTypeOK' /\ Placed'
  <2>1. bts' \in [Limiters -> Nat] /\ t' \in [Limiters -> Nat] /\ given' \in [Limiters -> Int]
    BY Limits DEF CountInv, RlTypeOK, Update
  <2>2. updates' \in 0..MaxUpdates
    BY RateAssumption DEF CountInv, RlTypeOK, Update
  <2>3. Placed'
    BY DEF CountInv, Placed, Update
  <2> QED BY <2>1, <2>2, <2>3 DEF CountInv, RlTypeOK, Update
<1>2. Clocks' /\ Bounded'
  BY Limits DEF CountInv, RlTypeOK, Clocks, Bounded, Update
<1>3. ASSUME NEW k \in Limiters PROVE (bts[k] + Cardinality(Holding(k)) <= given[k])'
  <2>1. /\ bts[k] \in Nat /\ given[k] \in Int /\ Cardinality(Holding(k)) \in Nat
        /\ bts[k] + Cardinality(Holding(k)) <= given[k]
    BY HoldersFinite DEF CountInv, RlTypeOK, Conserved
  <2>2. Holding(k)' = Holding(k)
    BY DEF Holding, Update
  <2>3. bts'[k] - bts[k] = given'[k] - given[k] /\ bts'[k] \in Nat /\ given'[k] \in Int
    BY Limits DEF CountInv, RlTypeOK, Update
  <2> QED BY <2>1, <2>2, <2>3
<1> QED BY <1>1, <1>2, <1>3 DEF CountInv, Conserved

(* Every Get, Put and Update keeps the count of tokens.                    *)
LEMMA CountStep == CountInv /\ [RlNext]_rlVars => CountInv'
<1> SUFFICES ASSUME CountInv, [RlNext]_rlVars PROVE CountInv'
  OBVIOUS
<1>1. CASE Tick
  <2>1. RlTypeOK' /\ Placed' /\ Clocks' /\ Bounded'
    BY <1>1, RateAssumption DEF CountInv, RlTypeOK, Placed, Clocks, Bounded, Tick
  <2>2. Conserved'
    BY <1>1 DEF CountInv, Conserved, Holding, Tick
  <2> QED BY <2>1, <2>2 DEF CountInv
<1>2. CASE \E l \in Limiters : Update(l)
  BY <1>2, UpdateStep
<1>3. CASE \E c \in RlCalls : GetLeft(c)
  BY <1>3, GetLeftStep
<1>4. CASE \E c \in RlCalls : GetRefill(c)
  BY <1>4, GetRefillStep
<1>5. CASE \E c \in RlCalls : GetRefused(c)
  BY <1>5, GetRefusedStep
<1>6. CASE \E c \in RlCalls : Put(c)
  BY <1>6, PutStep
<1>7. CASE UNCHANGED rlVars
  BY <1>7 DEF rlVars, CountInv, RlTypeOK, Placed, Clocks, Bounded, Conserved, Holding
<1> QED BY <1>1, <1>2, <1>3, <1>4, <1>5, <1>6, <1>7 DEF RlNext

(* The rate limiter is well-typed.                                         *)
THEOREM RateTypes == RlSpec => []RlTypeOK
<1>1. CountInv => RlTypeOK
  BY DEF CountInv
<1> QED BY <1>1, CountInit, CountStep, PTL DEF RlSpec

(* A limiter never holds more than its burst, for any number of calls,     *)
(* limiters and updates.                                                   *)
THEOREM RateBounded == RlSpec => []Bounded
<1>1. CountInv => Bounded
  BY DEF CountInv
<1> QED BY <1>1, CountInit, CountStep, PTL DEF RlSpec

(* Calls hold only tokens the limiter was filled with, for any number of   *)
(* calls that take and give back side by side.                             *)
THEOREM RateConserved == RlSpec => []Conserved
<1>1. CountInv => Conserved
  BY DEF CountInv
<1> QED BY <1>1, CountInit, CountStep, PTL DEF RlSpec

-----------------------------------------------------------------------------
\* what a limiter was given never falls below its burst; until it rises nothing is lost
Kept(l) == /\ given[l] >= Burst[l]
           /\ given[l] = Burst[l] => bts[l] + Cardinality(Holding(l)) = Burst[l]
ReturnInv == CountInv /\ \A l \in Limiters : Kept(l)

\* the numbers every step of the argument is about
LEMMA Numbers ==
    ASSUME CountInv, NEW k \in Limiters
    PROVE  /\ bts[k] \in Nat /\ given[k] \in Int /\ Cardinality(Holding(k)) \in Nat
           /\ Burst[k] \in Nat /\ Burst[k] > 0 /\ t[k] \in Nat /\ now \in Nat
           /\ bts[k] <= Burst[k] /\ t[k] <= now
           /\ bts[k] + Cardinality(Holding(k)) <= given[k]
BY HoldersFinite, Limits, RateAssumption DEF CountInv, RlTypeOK, Bounded, Clocks, Conserved

(* How much each step adds to a limiter, to its holders and to what it was *)
(* given: the count that RefusalsReturn keeps.                             *)
LEMMA ReturnStep == ReturnInv /\ [RlNext]_rlVars => ReturnInv'
<1> SUFFICES ASSUME ReturnInv, [RlNext]_rlVars,
                    NEW k \in Limiters
             PROVE  Kept(k)'
  BY CountStep DEF ReturnInv
<1> DEFINE h == Cardinality(Holding(k))
<1>1. CountInv /\ given[k] >= Burst[k] /\ (given[k] = Burst[k] => bts[k] + h = Burst[k])
  BY DEF ReturnInv, Kept
<1>2. /\ bts[k] \in Nat /\ given[k] \in Int /\ h \in Nat
      /\ Burst[k] \in Nat /\ Burst[k] > 0 /\ bts[k] <= Burst[k] /\ bts[k] + h <= given[k]
  BY <1>1, Numbers
<1>3. CASE UNCHANGED <<bts, given, at, dir>>
  <2>1. Holding(k)' = Holding(k)
    BY <1>3 DEF Holding
  <2> QED BY <1>1, <1>2, <1>3, <2>1 DEF Kept
<1>4. ASSUME NEW l \in Limiters, Update(l) PROVE Kept(k)'
  <2>1. Holding(k)' = Holding(k)
    BY <1>4 DEF Holding, Update
  <2>2. \/ given'[k] = given[k] + Burst[k] - bts[k] /\ bts'[k] = Burst[k]
        \/ given'[k] = given[k] /\ bts'[k] = bts[k]
    BY <1>1, <1>4 DEF CountInv, RlTypeOK, Update
  <2>3. Cardinality(Holding(k)') = h
    BY <2>1
  <2> HIDE DEF h
  <2>4. given'[k] >= Burst[k] /\ (given'[k] = Burst[k] => bts'[k] + h = Burst[k])
    <3>1. CASE given'[k] = given[k] /\ bts'[k] = bts[k]
      BY <1>1, <3>1
    <3>2. CASE given'[k] = given[k] + Burst[k] - bts[k] /\ bts'[k] = Burst[k]
      <4>1. given'[k] >= Burst[k]
        BY <1>1, <1>2, <3>2
      <4>2. ASSUME given'[k] = Burst[k] PROVE Burst[k] + h = Burst[k]
        <5>1. given[k] = Burst[k] /\ bts[k] = Burst[k]
          BY <1>1, <1>2, <3>2, <4>2
        <5> QED BY <1>1, <1>2, <5>1
      <4> QED BY <3>2, <4>1, <4>2
    <3> QED BY <2>2, <3>1, <3>2
  <2> QED BY <2>3, <2>4 DEF Kept
<1>5. ASSUME NEW c \in RlCalls, GetLeft(c) PROVE Kept(k)'
  <2> PICK l \in Limiters : l = at[c]
    BY <1>1, <1>5 DEF CountInv, Placed, GetLeft
  <2>1. /\ at[c] = l /\ dir[c] = "get" /\ Proceed(c, l) /\ given' = given
        /\ bts' = [bts EXCEPT ![l] = @ - 1]
    BY <1>5 DEF GetLeft
  <2>2. CASE k = l
    <3>1. Cardinality(Holding(k)') = h + 1
      <4>1. Holding(k)' = Holding(k) \cup {c} /\ c \notin Holding(k)
        BY <1>1, <2>1, <2>2, GetHolds DEF CountInv
      <4> QED BY <4>1, HoldersFinite, FS_AddElement
    <3>2. bts'[k] = bts[k] - 1
      BY <1>1, <2>1, <2>2 DEF CountInv, RlTypeOK
    <3> QED BY <1>1, <1>2, <2>1, <3>1, <3>2 DEF Kept
  <2>3. CASE k # l
    <3>1. Holding(k)' = Holding(k)
      BY <1>1, <2>1, <2>3, GetHolds DEF CountInv
    <3>2. bts'[k] = bts[k]
      BY <1>1, <2>1, <2>3 DEF CountInv, RlTypeOK
    <3> QED BY <1>1, <1>2, <2>1, <3>1, <3>2 DEF Kept
  <2> QED BY <2>2, <2>3
<1>6. ASSUME NEW c \in RlCalls, GetRefill(c) PROVE Kept(k)'
  <2> PICK l \in Limiters : l = at[c]
    BY <1>1, <1>6 DEF CountInv, Placed, GetRefill
  <2> DEFINE n == Refill(l, now - t[l])
  <2>1. /\ at[c] = l /\ dir[c] = "get" /\ Proceed(c, l) /\ n > 0
        /\ bts' = [bts EXCEPT ![l] = n - 1]
        /\ given' = [given EXCEPT ![l] = @ + n]
    BY <1>6 DEF GetRefill
  <2>2. n \in Nat
    <3>1. now - t[l] \in Nat
      BY <1>1, Numbers
    <3> QED BY <3>1, RefillBounds
  <2> HIDE DEF n
  <2>3. CASE k = l
    <3>1. given'[k] = given[k] + n
      BY <1>1, <2>1, <2>3 DEF CountInv, RlTypeOK
    <3> QED BY <1>1, <1>2, <2>1, <2>2, <3>1 DEF Kept
  <2>4. CASE k # l
    <3>1. Holding(k)' = Holding(k)
      BY <1>1, <2>1, <2>4, GetHolds DEF CountInv
    <3>2. bts'[k] = bts[k] /\ given'[k] = given[k]
      BY <1>1, <2>1, <2>4 DEF CountInv, RlTypeOK
    <3> QED BY <1>1, <1>2, <3>1, <3>2 DEF Kept
  <2> QED BY <2>3, <2>4
<1>7. ASSUME NEW c \in RlCalls, GetRefused(c) PROVE Kept(k)'
  <2> PICK l \in Limiters : l = at[c]
    BY <1>1, <1>7 DEF CountInv, Placed, GetRefused
  <2>1. Holding(k)' = Holding(k)
    BY <1>1, <1>7, RefusedHolds DEF CountInv, GetRefused
  <2> QED BY <1>1, <1>2, <1>7, <2>1 DEF GetRefused, Kept
<1>8. ASSUME NEW c \in RlCalls, Put(c) PROVE Kept(k)'
  <2> PICK l \in Limiters : l = at[c]
    BY <1>1, <1>8 DEF CountInv, Placed, Put
  <2>1. /\ at[c] = l /\ dir[c] = "put" /\ TurnBack(c, l) /\ given' = given
        /\ bts' = [bts EXCEPT ![l] = IF @ < Burst[l] THEN @ + 1 ELSE @]
    BY <1>8 DEF Put
  <2>2. CASE k = l
    <3>1. c \in Holding(k) /\ Cardinality(Holding(k)') = h - 1
      <4>1. Holding(k)' = Holding(k) \ {c} /\ c \in Holding(k)
        BY <1>1, <2>1, <2>2, PutHolds DEF CountInv
      <4> QED BY <4>1, HoldersFinite, FS_RemoveElement
    <3>2. bts'[k] = IF bts[k] < Burst[k] THEN bts[k] + 1 ELSE bts[k]
      BY <1>1, <2>1, <2>2 DEF CountInv, RlTypeOK
    <3>3. h >= 1
      BY <3>1, HoldersFinite, FS_EmptySet
    <3> QED BY <1>1, <1>2, <2>1, <3>1, <3>2, <3>3 DEF Kept
  <2>3. CASE k # l
    <3>1. Holding(k)' = Holding(k)
      BY <1>1, <2>1, <2>3, PutHolds DEF CountInv
    <3>2. bts'[k] = bts[k]
      BY <1>1, <2>1, <2>3 DEF CountInv, RlTypeOK
    <3> QED BY <1>1, <1>2, <2>1, <3>1, <3>2 DEF Kept
  <2> QED BY <2>2, <2>3
<1> QED
  BY <1>3, <1>4, <1>5, <1>6, <1>7, <1>8 DEF RlNext, rlVars, Tick

(* A call that is refused later on costs the earlier limiters nothing, for *)
(* any number of calls and limiters.                                       *)
THEOREM RateRefusalsReturn == RlSpec => []RefusalsReturn
<1>1. RlInit => ReturnInv
  <2> SUFFICES ASSUME RlInit, NEW l \in Limiters PROVE Kept(l)
    BY CountInit DEF ReturnInv
  <2>1. Holding(l) = {}
    BY RateAssumption DEF RlInit, Holding, Limiters
  <2>2. Cardinality(Holding(l)) = 0
    BY <2>1, FS_EmptySet
  <2> QED BY <2>2, Limits DEF RlInit, Kept
<1>2. ReturnInv => RefusalsReturn
  BY DEF ReturnInv, Kept, RefusalsReturn
<1> QED BY <1>1, <1>2, ReturnStep, PTL DEF RlSpec

-----------------------------------------------------------------------------
(* The rate itself, for limiters whose burst is at most their rate and     *)
(* whose rate divides the base interval.                                   *)

Modest == \A l \in Limiters : Burst[l] <= Eps[l] /\ \E q \in Nat : Base = q * Eps[l]

Paid(l) == given[l] * Base <= Allowance(l) * Base + Eps[l] * t[l]
RateInv == CountInv /\ \A l \in Limiters : Paid(l)

(* Refill: the tokens a limiter gets are paid for by the time its clock    *)
(* moves.                                                                  *)
LEMMA RefillPaid ==
    ASSUME Modest, NEW l \in Limiters, NEW d \in Nat
    PROVE  Refill(l, d) * Base <= Eps[l] * Advance(l, d)
<1> DEFINE e == Eps[l]
           b == Burst[l]
           k == (d * e) \div Base
<1>0. Base \in Nat /\ Base > 0 /\ e \in Nat /\ e > 0 /\ b \in Nat /\ b <= e
  BY Limits DEF Modest
<1>1. CASE d >= Base
  <2>1. b * Base <= e * Base
    BY <1>0, MulMono
  <2>2. e * Base <= e * d
    BY <1>0, <1>1, MulMono
  <2>3. b * Base \in Nat /\ e * Base \in Nat /\ e * d \in Nat
    BY <1>0
  <2>4. Refill(l, d) = b /\ Advance(l, d) = d
    BY <1>1 DEF Refill, Advance
  <2> QED BY <2>1, <2>2, <2>3, <2>4
<1>2. CASE ~(d >= Base)
  <2>1. d * e \in Nat
    BY <1>0
  <2>2. k \in Nat
    BY <1>0, <2>1, DivIs
  <2>3. Refill(l, d) = Least(k, b) /\ Advance(l, d) = (Base * k) \div e
    BY <1>2 DEF Refill, Advance
  <2> HIDE DEF k
  <2>4. Least(k, b) \in Nat /\ Least(k, b) <= k
    BY <1>0, <2>2 DEF Least
  <2>5. PICK q \in Nat : Base = q * e
    BY DEF Modest
  <2>6. Base * k = e * (q * k)
    BY <1>0, <2>2, <2>5
  <2>7. (Base * k) \div e = q * k
    <3>1. q * k \in Nat
      BY <2>2
    <3> QED BY <1>0, <2>6, <3>1, DivExact
  <2>8. Least(k, b) * Base <= k * Base
    BY <1>0, <2>2, <2>4, MulMono
  <2>9. k * Base = e * (q * k)
    BY <1>0, <2>2, <2>6
  <2> QED BY <2>3, <2>7, <2>8, <2>9
<1> QED BY <1>1, <1>2

(* Every step keeps what the limiter admitted within what time paid for.   *)
LEMMA RateStep == ASSUME Modest PROVE RateInv /\ [RlNext]_rlVars => RateInv'
<1> SUFFICES ASSUME RateInv, [RlNext]_rlVars, NEW k \in Limiters PROVE Paid(k)'
  BY CountStep DEF RateInv
<1>1. CountInv /\ Paid(k)
  BY DEF RateInv
<1>0. Allowance(k) \in Nat
  BY <1>1, RateAssumption, Limits DEF CountInv, RlTypeOK, Allowance
<1>2. CASE UNCHANGED <<t, given, updates>>
  BY <1>1, <1>2 DEF Paid, Allowance
<1>3. ASSUME NEW l \in Limiters, Update(l) PROVE Paid(k)'
  <2> DEFINE b == Burst[k]
             A == Allowance(k)
  <2>1. b \in Nat /\ Base \in Nat /\ Eps[k] \in Nat
    BY Limits
  <2>2. updates \in Nat /\ updates' = updates + 1
    BY <1>1, <1>3, RateAssumption DEF CountInv, RlTypeOK, Update
  <2>3. Allowance(k)' = A + b
    BY <2>1, <2>2 DEF Allowance
  <2>4. /\ bts[k] \in Nat /\ given[k] \in Int /\ t[k] \in Nat /\ now \in Nat /\ t[k] <= now
    BY <1>1, Numbers
  <2>5. /\ given'[k] \in Int /\ given'[k] <= given[k] + b
        /\ t'[k] \in Nat /\ t[k] <= t'[k]
    BY <1>1, <1>3, <2>1, <2>4 DEF CountInv, RlTypeOK, Update
  <2>6. given'[k] * Base <= (given[k] + b) * Base
    BY <2>1, <2>4, <2>5, MulMonoInt
  <2>7. Eps[k] * t[k] <= Eps[k] * t'[k]
    BY <2>1, <2>4, <2>5, MulMono
  <2> HIDE DEF A
  <2>8. (given[k] + b) * Base = given[k] * Base + b * Base /\ (A + b) * Base = A * Base + b * Base
    BY <1>0, <2>1, <2>4 DEF A
  <2>9. /\ given[k] * Base \in Int /\ given'[k] * Base \in Int /\ b * Base \in Int
        /\ A * Base \in Int /\ Eps[k] * t[k] \in Int /\ Eps[k] * t'[k] \in Int
    BY <1>0, <2>1, <2>4, <2>5 DEF A
  <2>10. given[k] * Base <= A * Base + Eps[k] * t[k]
    BY <1>1 DEF Paid, A
  <2>11. given'[k] * Base <= (A + b) * Base + Eps[k] * t'[k]
    BY <2>6, <2>7, <2>8, <2>9, <2>10
  <2> QED BY <2>3, <2>11 DEF Paid
<1>4. ASSUME NEW c \in RlCalls, GetRefill(c) PROVE Paid(k)'
  <2> PICK l \in Limiters : l = at[c]
    BY <1>1, <1>4 DEF CountInv, Placed, GetRefill
  <2> DEFINE d == now - t[l]
             n == Refill(l, d)
             a == Advance(l, d)
  <2>1. t' = [t EXCEPT ![l] = @ + a] /\ given' = [given EXCEPT ![l] = @ + n]
    BY <1>4 DEF GetRefill
  <2>0. Allowance(k)' = Allowance(k)
    BY <1>4 DEF GetRefill, Allowance
  <2>2. d \in Nat
    BY <1>1, Numbers
  <2>3. n \in Nat /\ a \in Nat /\ n * Base <= Eps[l] * a
    BY <2>2, RefillBounds, RefillPaid
  <2> HIDE DEF n, a
  <2>4. CASE k # l
    <3>1. t'[k] = t[k] /\ given'[k] = given[k]
      BY <1>1, <2>1, <2>4 DEF CountInv, RlTypeOK
    <3> QED BY <1>1, <2>0, <3>1 DEF Paid
  <2>5. CASE k = l
    <3>1. t'[k] = t[k] + a /\ given'[k] = given[k] + n
      BY <1>1, <2>1, <2>5 DEF CountInv, RlTypeOK
    <3>2. t[k] \in Nat /\ given[k] \in Int /\ Eps[k] \in Nat /\ Burst[k] \in Nat /\ Base \in Nat
      BY <1>1, Numbers, Limits
    <3>3. given'[k] * Base = given[k] * Base + n * Base
      BY <2>3, <3>1, <3>2
    <3>4. Eps[k] * t'[k] = Eps[k] * t[k] + Eps[k] * a
      BY <2>3, <3>1, <3>2
    <3>5. /\ given[k] * Base \in Int /\ n * Base \in Int /\ Eps[k] * t[k] \in Int
          /\ Eps[k] * a \in Int /\ Allowance(k) * Base \in Int
      BY <1>0, <2>3, <3>2
    <3>6. given[k] * Base <= Allowance(k) * Base + Eps[k] * t[k]
      BY <1>1 DEF Paid
    <3>7. given'[k] * Base <= Allowance(k) * Base + Eps[k] * t'[k]
      BY <2>3, <2>5, <3>3, <3>4, <3>5, <3>6
    <3> QED BY <2>0, <3>7 DEF Paid
  <2> QED BY <2>4, <2>5
<1> QED
  BY <1>2, <1>3, <1>4 DEF RlNext, rlVars, Tick, GetLeft, GetRefused, Put

(* A limiter whose burst is at most its rate admits no more calls than a   *)
(* burst, one more for each Update, and the rate's share of the time that  *)
(* passed, for any number of calls, limiters and ticks.                    *)
THEOREM RateIsHeld == ASSUME Modest PROVE RlSpec => []RateHolds
<1>1. RlInit => RateInv
  <2> SUFFICES ASSUME RlInit, NEW l \in Limiters PROVE Paid(l)
    BY CountInit DEF RateInv
  <2>1. Allowance(l) = Burst[l]
    BY Limits DEF RlInit, Allowance
  <2> QED BY <2>1, Limits DEF RlInit, Paid
<1>2. RateInv => RateHolds
  <2> SUFFICES ASSUME RateInv, NEW l \in Limiters
               PROVE  Cardinality(Admitted) * Base <= Allowance(l) * Base + Eps[l] * now
    BY DEF RateHolds
  <2> DEFINE m == Cardinality(Admitted)
  <2>1. Admitted \subseteq Holding(l)
    BY DEF Admitted, Holding
  <2>2. m \in Nat /\ m <= Cardinality(Holding(l))
    BY <2>1, HoldersFinite, FS_Subset, FS_CardinalityType
  <2> HIDE DEF m
  <2>3. /\ bts[l] \in Nat /\ given[l] \in Int /\ Cardinality(Holding(l)) \in Nat
        /\ t[l] \in Nat /\ now \in Nat /\ t[l] <= now
        /\ bts[l] + Cardinality(Holding(l)) <= given[l]
    BY Numbers DEF RateInv
  <2>4. given[l] \in Nat /\ m <= given[l]
    BY <2>2, <2>3
  <2>5. /\ Base \in Nat /\ Eps[l] \in Nat /\ Allowance(l) \in Nat
    BY Limits, RateAssumption DEF RateInv, CountInv, RlTypeOK, Allowance
  <2>6. m * Base <= given[l] * Base /\ Eps[l] * t[l] <= Eps[l] * now
    BY <2>2, <2>3, <2>4, <2>5, MulMono
  <2>7. given[l] * Base <= Allowance(l) * Base + Eps[l] * t[l]
    BY DEF RateInv, Paid
  <2>8. /\ m * Base \in Nat /\ given[l] * Base \in Nat /\ Allowance(l) * Base \in Nat
        /\ Eps[l] * t[l] \in Nat /\ Eps[l] * now \in Nat
    BY <2>2, <2>3, <2>4, <2>5
  <2>9. m * Base <= Allowance(l) * Base + Eps[l] * now
    BY <2>6, <2>7, <2>8
  <2> QED BY <2>9 DEF m
<1> QED BY <1>1, <1>2, RateStep, PTL DEF RlSpec

(* TokensKept of RateLimit: tokens are neither made up nor lost, for any   *)
(* number of calls and limiters.                                           *)
THEOREM RateTokensKept == RlSpec => []TokensKept
<1>1. Bounded /\ Conserved /\ RefusalsReturn => TokensKept
  BY DEF TokensKept
<1> QED BY <1>1, RateBounded, RateConserved, RateRefusalsReturn, PTL

-----------------------------------------------------------------------------
(* FnPods.                                                                  *)

\* A structure that is not the store's has no pods.
OthersEmpty == \A x \in Stores : x # store => pods[x] = {}

\* What podsAdd and podsDel have loaded but not yet locked.
Loaded ==
    /\ \A p \in Pods : waiter[p] = "lock" => wfnp[p] = store \/ wfnp[p] \in dead
    /\ loop.at = "lock" => loop.fnp = store

\* podsDel runs for a pod that is down, podsAdd for one that came up.
PodEvents ==
    /\ loop.at # "idle" => kpod[loop.pod] = "down"
    /\ \A p \in Pods : kpod[p] = "new" => waiter[p] = "no"

PodsInv == PodsTypeOK /\ store \notin dead /\ OthersEmpty /\ Loaded /\ PodEvents
              /\ PodsFound /\ CacheFollowsStore

-----------------------------------------------------------------------------
\* The initial state.
LEMMA PodsInitInv == PodsInit => PodsInv
<1> SUFFICES ASSUME PodsInit PROVE PodsInv
  OBVIOUS
<1> USE DEF PodsInit
<1>1. PodsTypeOK
  BY PodsAssumption DEF PodsTypeOK, PodAt, LoopAt, PodCallAt
<1>2. store \notin dead /\ OthersEmpty /\ Loaded /\ PodEvents
  BY DEF OthersEmpty, Loaded, PodEvents
<1>3. PodsFound
  BY DEF PodsFound
<1>4. CacheFollowsStore
  BY DEF CacheFollowsStore
<1> QED
  BY <1>1, <1>2, <1>3, <1>4 DEF PodsInv

\* Types, and no nil structure is locked.
LEMMA PodsTypeStep ==
    ASSUME PodsInv, [PodsNext]_podsVars
    PROVE  PodsTypeOK'
<1> USE PodsAssumption DEF PodsInv, PodsTypeOK, PodAt, LoopAt, PodCallAt, podVars, cacheVars, eventVars, pcallVars,
        PodsGoto, FlushCache
<1>1. ASSUME NEW p \in Pods, PodStep(p) PROVE PodsTypeOK'
  <2>1. CASE PodUp(p)
    BY <2>1 DEF PodUp
  <2>2. CASE PodPort(p)
    BY <2>2 DEF PodPort
  <2>3. CASE AddLoad(p)
    BY <2>3 DEF AddLoad
  <2>4. CASE AddStore(p)
    BY <2>4 DEF AddStore
  <2>5. CASE AddLock(p)
    BY <2>5 DEF AddLock
  <2>6. CASE AddFlush(p)
    BY <2>6 DEF AddFlush
  <2>7. CASE PodDown(p)
    BY <2>7 DEF PodDown
  <2> QED
    BY <1>1, <2>1, <2>2, <2>3, <2>4, <2>5, <2>6, <2>7 DEF PodStep
<1>2. ASSUME LoopStep PROVE PodsTypeOK'
  <2>1. CASE DelLoad
    BY <2>1 DEF DelLoad
  <2>2. CASE DelLock
    BY <2>2 DEF DelLock
  <2>3. CASE DelFlush
    BY <2>3 DEF DelFlush
  <2> QED
    BY <1>2, <2>1, <2>2, <2>3 DEF LoopStep
<1>3. ASSUME NEW c \in PodCallers, PodsCallStep(c) PROVE PodsTypeOK'
  <2>1. CASE CallBegin(c)
    BY <2>1 DEF CallBegin
  <2>2. CASE CallFind(c)
    BY <2>2 DEF CallFind
  <2>3. CASE CallList(c)
    BY <2>3 DEF CallList
  <2>4. CASE CallFill(c)
    BY <2>4 DEF CallFill
  <2>5. CASE CallReread(c)
    BY <2>5 DEF CallReread
  <2>6. CASE CallChoose(c)
    BY <2>6 DEF CallChoose
  <2> QED
    BY <1>3, <2>1, <2>2, <2>3, <2>4, <2>5, <2>6 DEF PodsCallStep
<1>4. CASE Flush
  BY <1>4 DEF Flush
<1>5. CASE UNCHANGED podsVars
  BY <1>5 DEF podsVars
<1> QED
  BY <1>1, <1>2, <1>3, <1>4, <1>5 DEF PodsNext

-----------------------------------------------------------------------------
\* The rest of the invariant, step by step.
PodsRest == store \notin dead /\ OthersEmpty /\ Loaded /\ PodEvents /\ PodsFound /\ CacheFollowsStore

\* The pods of the store are pods.
LEMMA KnownPods == PodsTypeOK => Known \subseteq Pods
BY DEF PodsTypeOK, Known

\* What a step must leave alone for the cached list to follow the store.
LEMMA CacheKeeps ==
    ASSUME CacheFollowsStore, UNCHANGED cacheVars, Known' = Known,
           loop.at = "flush" => loop' = loop,
           \A q \in Known : waiter[q] = "flush" => waiter'[q] = "flush"
    PROVE  CacheFollowsStore'
BY DEF CacheFollowsStore, cacheVars

\* Pod events: podsAdd and its goroutine.
LEMMA PodKeeps ==
    ASSUME PodsInv, NEW p \in Pods, PodStep(p)
    PROVE  PodsRest'
<1> USE PodsAssumption DEF PodsInv, PodsRest, PodsTypeOK, podVars, cacheVars, eventVars, pcallVars, FlushCache,
        OthersEmpty, Loaded, PodEvents, PodsFound, CacheFollowsStore, Known
<1>0. Known \subseteq Pods
  BY KnownPods
<1>1. CASE PodUp(p)
  <2>1. CacheFollowsStore'
    BY <1>0, <1>1, CacheKeeps DEF PodUp
  <2> QED
    BY <1>1, <2>1 DEF PodUp
<1>2. CASE PodPort(p)
  <2>1. CacheFollowsStore'
    BY <1>0, <1>2, CacheKeeps DEF PodPort
  <2> QED
    BY <1>2, <2>1 DEF PodPort
<1>3. CASE AddLoad(p)
  <2>1. CacheFollowsStore'
    BY <1>0, <1>3, CacheKeeps DEF AddLoad
  <2> QED
    BY <1>3, <2>1 DEF AddLoad
<1>4. CASE AddStore(p)
  <2>1. PICK x \in Stores :
           /\ IF store = NoStore THEN x \notin dead ELSE x = store
           /\ store' = x /\ wfnp' = [wfnp EXCEPT ![p] = x]
    BY <1>4 DEF AddStore
  <2>2. waiter' = [waiter EXCEPT ![p] = "lock"] /\ UNCHANGED <<pods, dead, cacheVars, kpod, loop, pcallVars>>
    BY <1>4 DEF AddStore
  <2>3. CASE store = NoStore
    <3>1. pods[x] = {} /\ Known' = {} /\ Known = {}
      BY <2>1, <2>2, <2>3
    <3>2. store' \notin dead' /\ OthersEmpty' /\ Loaded' /\ PodEvents'
      BY <2>1, <2>2, <2>3, <1>4 DEF AddStore
    <3>3. PodsFound'
      BY <2>1, <2>2, <2>3
    <3>4. CacheFollowsStore'
      BY <2>1, <2>2, <3>1
    <3> QED
      BY <3>2, <3>3, <3>4
  <2>4. CASE store # NoStore
    <3>1. store' = store /\ Known' = Known
      BY <2>1, <2>2, <2>4
    <3>2. store' \notin dead' /\ OthersEmpty' /\ Loaded' /\ PodEvents'
      BY <2>1, <2>2, <3>1, <1>4 DEF AddStore
    <3>3. PodsFound'
      BY <2>2, <3>1
    <3>4. CacheFollowsStore'
      <4>1. waiter[p] # "flush"
        BY <1>4 DEF AddStore
      <4> QED
        BY <1>0, <2>2, <3>1, <4>1, CacheKeeps
    <3> QED
      BY <3>2, <3>3, <3>4
  <2> QED
    BY <2>3, <2>4
<1>5. CASE AddLock(p)
  <2>1. CASE wfnp[p] \in dead
    BY <1>5, <2>1 DEF AddLock
  <2>2. CASE wfnp[p] \notin dead
    <3>1. wfnp[p] = store /\ store \in Stores
      BY <1>5, <2>2 DEF AddLock
    <3>2. pods'[store] = pods[store] \cup {p}
      BY <1>5, <2>2, <3>1 DEF AddLock
    <3> QED
      BY <1>5, <2>2, <3>1, <3>2 DEF AddLock
  <2> QED
    BY <2>1, <2>2
<1>6. CASE AddFlush(p)
  BY <1>6 DEF AddFlush
<1>7. CASE PodDown(p)
  BY <1>7 DEF PodDown
<1> QED
  BY <1>1, <1>2, <1>3, <1>4, <1>5, <1>6, <1>7 DEF PodStep

\* podEventLoop takes a pod down.
LEMMA LoopKeeps ==
    ASSUME PodsInv, LoopStep
    PROVE  PodsRest'
<1> USE PodsAssumption DEF PodsInv, PodsRest, PodsTypeOK, podVars, cacheVars, eventVars, pcallVars, FlushCache,
        OthersEmpty, Loaded, PodEvents, PodsFound, CacheFollowsStore, Known
<1>1. CASE DelLoad
  BY <1>1 DEF DelLoad
<1>2. CASE DelLock
  <2>1. loop.fnp = store /\ store \in Stores /\ loop.pod \in Pods /\ kpod[loop.pod] = "down"
    BY <1>2 DEF DelLock
  <2>2. pods' = [pods EXCEPT ![store] = pods[store] \ {loop.pod}]
    BY <1>2, <2>1 DEF DelLock
  <2>3. CASE pods[store] \ {loop.pod} = {}
    BY <1>2, <2>1, <2>2, <2>3 DEF DelLock
  <2>4. CASE pods[store] \ {loop.pod} # {}
    BY <1>2, <2>1, <2>2, <2>4 DEF DelLock
  <2> QED
    BY <2>3, <2>4
<1>3. CASE DelFlush
  BY <1>3 DEF DelFlush
<1> QED
  BY <1>1, <1>2, <1>3 DEF LoopStep

\* Calls change the cached list only, and note whether it was the store's.
LEMMA PodCallKeeps ==
    ASSUME PodsInv, \/ \E c \in PodCallers : PodsCallStep(c) 
                    \/ Flush \/ UNCHANGED podsVars
    PROVE  PodsRest'
<1> USE PodsAssumption DEF PodsInv, PodsRest, podVars, cacheVars, eventVars, pcallVars, FlushCache,
        OthersEmpty, Loaded, PodEvents, PodsFound, CacheFollowsStore, Known
<1>1. ASSUME NEW c \in PodCallers, PodsCallStep(c) PROVE PodsRest'
  <2>1. CASE CallFill(c)
    <3>1. UNCHANGED <<store, pods, dead, kpod, waiter, wfnp, loop>> /\ Known' = Known
      BY <2>1 DEF CallFill
    <3>2. (cache' = list[c] /\ late' = (list[c] # Known)) \/ UNCHANGED cacheVars
      BY <2>1 DEF CallFill
    <3>3. store' \notin dead' /\ OthersEmpty' /\ Loaded' /\ PodEvents' /\ PodsFound'
      BY <3>1
    <3>4. CASE cache' = list[c] /\ late' = (list[c] # Known)
      <4>1. ~late' => cache' = Known'
        BY <3>1, <3>4, Zenon
      <4> QED
        BY <3>3, <4>1
    <3>5. CASE UNCHANGED cacheVars
      BY <3>1, <3>3, <3>5
    <3> QED
      BY <3>2, <3>4, <3>5
  <2>2. CASE UNCHANGED <<podVars, cacheVars, eventVars>>
    BY <2>2
  <2>3. CallFill(c) \/ UNCHANGED <<podVars, cacheVars, eventVars>>
    BY <1>1, Zenon DEF PodsCallStep, CallBegin, CallFind, CallList, CallReread, CallChoose
  <2> QED
    BY <2>1, <2>2, <2>3
<1>2. CASE Flush
  BY <1>2 DEF Flush
<1>3. CASE UNCHANGED podsVars
  BY <1>3 DEF podsVars
<1> QED
  BY <1>1, <1>2, <1>3

LEMMA PodsStep ==
    ASSUME PodsInv, [PodsNext]_podsVars
    PROVE  PodsInv'
<1>1. PodsTypeOK'
  BY PodsTypeStep
<1>2. PodsRest'
  BY PodKeeps, LoopKeeps, PodCallKeeps DEF PodsNext
<1> QED
  BY <1>1, <1>2 DEF PodsInv, PodsRest

THEOREM PodsInvariant == PodsSpec => []PodsInv
BY PodsInitInv, PodsStep, PTL DEF PodsSpec

-----------------------------------------------------------------------------
(* PodsTypeOK: no structure is locked through a nil pointer.               *)
THEOREM PodsTypes == PodsSpec => []PodsTypeOK
<1>1. PodsInv => PodsTypeOK
  BY DEF PodsInv
<1> QED
  BY <1>1, PodsInvariant, PTL

(* PodsFound of FnPods: podsAdd never loses a pod to a structure that      *)
(* podsDel takes out of the store, for any number of pods.                 *)
THEOREM NoPodLost == PodsSpec => []PodsFound
<1>1. PodsInv => PodsFound
  BY DEF PodsInv
<1> QED
  BY <1>1, PodsInvariant, PTL

(* DeadIsEmpty of FnPods: podsDel's "All PODs are gone" stays true.        *)
THEOREM DeadStaysEmpty == PodsSpec => []DeadIsEmpty
<1>1. PodsInv => DeadIsEmpty
  BY DEF PodsInv, DeadIsEmpty, OthersEmpty, PodsTypeOK
<1> QED
  BY <1>1, PodsInvariant, PTL

(* CacheFollowsStore of FnPods: a call that caches a list it read before a *)
(* change is the only way to a stale list.                                 *)
THEOREM CacheIsStores == PodsSpec => []CacheFollowsStore
<1>1. PodsInv => CacheFollowsStore
  BY DEF PodsInv
<1> QED
  BY <1>1, PodsInvariant, PTL

-----------------------------------------------------------------------------
(* Scaler.                                                                  *)

\* What a call carries on its way to the goal.
Carried ==
    \A c \in ScCalls :
        /\ scpc[c] = "goal" => sc[c] <= rover[0] /\ sc[c] - rover[1] <= peak
        /\ scpc[c] = "set"  => sc[c] <= peak \/ sc[c] > MaxReplicas

CallCounts == rover[0] <= MaxCalls /\ CountsMatch

ScalerInv == ScalerTypeOK /\ CallCounts /\ Carried /\ GoalFollowsLoad /\ OneScaler

-----------------------------------------------------------------------------
\* The calls in flight are finitely many, so that they can be counted.
LEMMA FlightFinite == IsFiniteSet(InFlight) /\ Cardinality(InFlight) \in Nat
<1>1. InFlight \subseteq ScCalls
  BY DEF InFlight
<1> QED
  BY <1>1, ScalerAssumption, FS_Subset, FS_CardinalityType

\* Calls ended are no more than calls begun.
LEMMA EndedBegun == ScalerTypeOK /\ CountsMatch => rover[1] <= rover[0]
BY FlightFinite DEF ScalerTypeOK, CountsMatch

\* The difference that balancerGetConnAny computes in uint32.
LEMMA Difference ==
    ASSUME ScalerInv, NEW c \in ScCalls, scpc[c] = "goal"
    PROVE  LET want == (sc[c] - rover[1]) % Wrap
           IN  want \in Nat /\ (want <= peak \/ want > MaxReplicas)
<1> DEFINE d == sc[c] - rover[1]
<1>1. /\ d \in Int /\ d <= peak /\ d <= MaxCalls /\ -d <= MaxCalls
      /\ peak \in Nat
  BY EndedBegun, ScalerAssumption DEF ScalerInv, ScalerTypeOK, Carried, CallCounts
<1>2. Wrap \in Nat /\ MaxCalls \in Nat /\ MaxReplicas \in Nat /\ MaxCalls + MaxReplicas < Wrap
  BY ScalerAssumption
<1>3. CASE d >= 0
  <2>1. d % Wrap = d
    BY <1>1, <1>2, <1>3
  <2> QED
    BY <1>1, <1>3, <2>1
<1>4. CASE d < 0
  <2>1. d % Wrap = d + Wrap
    BY <1>1, <1>2, <1>4
  <2> QED
    BY <1>1, <1>2, <2>1
<1> QED
  BY <1>1, <1>3, <1>4

-----------------------------------------------------------------------------
\* A gate that starts, on a grown deployment or not.
LEMMA ScalerStarts == ScalerInit => ScalerInv
<1> SUFFICES ASSUME ScalerInit PROVE ScalerInv
  OBVIOUS
<1> USE ScalerAssumption DEF ScalerInit
<1>1. ScalerTypeOK
  <2>1. goal \in Nat /\ scaler \in ScalerAt
    BY DEF ScalerAt
  <2>2. wakeup \in BOOLEAN
    <3>1. CASE Boot > 1
      BY <3>1
    <3>2. CASE ~(Boot > 1)
      BY <3>2
    <3> QED
      BY <3>1, <3>2
  <2> QED
    BY <2>1, <2>2 DEF ScalerTypeOK, CallAt
<1>2. InFlight = {}
  BY DEF InFlight
<1>3. CallCounts
  BY <1>2, FS_EmptySet DEF CallCounts, CountsMatch
<1>4. Carried /\ GoalFollowsLoad /\ OneScaler
  BY DEF Carried, GoalFollowsLoad, OneScaler
<1> QED
  BY <1>1, <1>3, <1>4 DEF ScalerInv

\* Types.
LEMMA ScalerTypeStep ==
    ASSUME ScalerInv, [ScalerNext]_scalerVars
    PROVE  ScalerTypeOK'
<1> USE ScalerAssumption DEF ScalerInv, ScalerTypeOK, CallAt, ScalerAt, callVars, scaleVars, depVars, schistVars,
        ScGoto, ScalerTo, Ok, ScFault
<1>1. ASSUME NEW c \in ScCalls, CallRover(c) \/ CallStep(c) \/ CallEnd(c) PROVE ScalerTypeOK'
  <2>1. CASE CallRover(c)
    BY <2>1 DEF CallRover
  <2>2. CASE CallGoal(c)
    BY <2>2, Difference DEF CallGoal
  <2>3. CASE CallSet(c)
    BY <2>3 DEF CallSet
  <2>4. CASE CallPick(c)
    BY <2>4 DEF CallPick
  <2>5. CASE CallEnd(c)
    BY <2>5 DEF CallEnd
  <2> QED
    BY <1>1, <2>1, <2>2, <2>3, <2>4, <2>5 DEF CallStep
<1>2. ASSUME ScalerMove PROVE ScalerTypeOK'
  <2>1. CASE ScalerUp \/ ScalerDown
    BY <2>1 DEF ScalerUp, ScalerDown, ScalerAsk
  <2>2. CASE ScaleUp
    BY <2>2 DEF ScaleUp, K8sDepScale
  <2>3. CASE ScaleDown
    BY <2>3 DEF ScaleDown, K8sDepScale
  <2>4. CASE ScalerCheck
    BY <2>4 DEF ScalerCheck
  <2>5. CASE ScalerLower
    <3>1. wakeup' \in BOOLEAN
      <4>1. wakeup' = FALSE \/ wakeup' = wakeup
        BY <2>5, Zenon DEF ScalerLower
      <4> QED
        BY <4>1
    <3>2. goal' \in Nat /\ scaler' \in ScalerAt /\ sgoal' \in Nat
      BY <2>5 DEF ScalerLower
    <3> QED
      BY <2>5, <3>1, <3>2 DEF ScalerLower
  <2>6. CASE ScalerStep
    BY <2>6 DEF ScalerStep
  <2> QED
    BY <1>2, <2>1, <2>2, <2>3, <2>4, <2>5, <2>6 DEF ScalerMove
<1>3. CASE RemoveBegin
  BY <1>3 DEF RemoveBegin
<1>4. CASE RemoveStep
  <2>1. CASE RemoveShrink
    BY <2>1 DEF RemoveShrink
  <2>2. CASE RemoveDelete
    <3>1. scdep' \in BOOLEAN
      <4>1. scdep' = FALSE \/ scdep' = scdep
        BY <2>2, Zenon DEF RemoveDelete
      <4> QED
        BY <4>1
    <3>2. replicas' \in Nat /\ scfaults' \in 0..ScMaxFaults
      BY <2>2 DEF RemoveDelete
    <3> QED
      BY <2>2, <3>1, <3>2 DEF RemoveDelete
  <2> QED
    BY <1>4, <2>1, <2>2 DEF RemoveStep
<1>5. CASE Redeploy
  BY <1>5 DEF Redeploy
<1>6. CASE UNCHANGED scalerVars
  BY <1>6 DEF scalerVars
<1> QED
  BY <1>1, <1>2, <1>3, <1>4, <1>5, <1>6 DEF ScalerNext

-----------------------------------------------------------------------------
\* A call keeps the rest of the invariant.
ScalerRest == CallCounts /\ Carried /\ GoalFollowsLoad /\ OneScaler

\* The count of calls in flight when one begins, and when one ends.
LEMMA FlightAdds ==
    ASSUME ScalerTypeOK, NEW c \in ScCalls, NEW l, scpc[c] = "idle", l # "idle", scpc' = [scpc EXCEPT ![c] = l]
    PROVE  Cardinality(InFlight') = Cardinality(InFlight) + 1
<1>1. InFlight' = InFlight \cup {c} /\ c \notin InFlight
  BY DEF InFlight, ScalerTypeOK
<1> QED
  BY <1>1, FlightFinite, FS_AddElement

LEMMA FlightDrops ==
    ASSUME ScalerTypeOK, NEW c \in ScCalls, scpc[c] # "idle", scpc' = [scpc EXCEPT ![c] = "idle"]
    PROVE  Cardinality(InFlight') = Cardinality(InFlight) - 1
<1>1. InFlight' = InFlight \ {c} /\ c \in InFlight
  BY DEF InFlight, ScalerTypeOK
<1> QED
  BY <1>1, FlightFinite, FS_RemoveElement

LEMMA FlightKeeps ==
    ASSUME ScalerTypeOK, NEW c \in ScCalls, NEW l, scpc[c] # "idle", l # "idle", scpc' = [scpc EXCEPT ![c] = l]
    PROVE  InFlight' = InFlight
BY DEF InFlight, ScalerTypeOK

LEMMA CallKeeps ==
    ASSUME ScalerInv, NEW c \in ScCalls, CallRover(c) \/ CallStep(c) \/ CallEnd(c)
    PROVE  ScalerRest'
<1> USE ScalerAssumption, FlightFinite DEF ScalerInv, ScalerRest, ScalerTypeOK, scaleVars, depVars, schistVars, ScGoto,
        CallCounts, CountsMatch, Carried, GoalFollowsLoad, OneScaler
<1>1. CASE CallRover(c)
  <2>1. Cardinality(InFlight') = Cardinality(InFlight) + 1
    BY <1>1, FlightAdds DEF CallRover
  <2>2. CallCounts'
    BY <1>1, <2>1 DEF CallRover
  <2>3. peak' >= peak /\ peak' >= rover[0] + 1 - rover[1]
    BY <1>1 DEF CallRover
  <2>4. Carried'
    BY <1>1, <2>3 DEF CallRover
  <2>5. GoalFollowsLoad' /\ OneScaler'
    BY <1>1, <2>3 DEF CallRover
  <2> QED
    BY <2>2, <2>4, <2>5
<1>2. CASE CallGoal(c)
  <2>1. InFlight' = InFlight
    BY <1>2, FlightKeeps DEF CallGoal
  <2>2. Carried'
    BY <1>2, Difference DEF CallGoal
  <2> QED
    BY <1>2, <2>1, <2>2 DEF CallGoal
<1>3. CASE CallSet(c)
  <2>1. InFlight' = InFlight
    BY <1>3, FlightKeeps DEF CallSet
  <2>2. CallCounts' /\ Carried'
    BY <1>3, <2>1 DEF CallSet
  <2>3. GoalFollowsLoad' /\ OneScaler'
    BY <1>3 DEF CallSet
  <2> QED
    BY <2>2, <2>3
<1>4. CASE CallPick(c)
  <2>1. CallCounts'
    <3>1. CASE scpc' = [scpc EXCEPT ![c] = "run"] /\ lost' = lost
      <4>1. InFlight' = InFlight
        BY <1>4, <3>1, FlightKeeps DEF CallPick
      <4> QED
        BY <1>4, <3>1, <4>1 DEF CallPick
    <3>2. CASE scpc' = [scpc EXCEPT ![c] = "idle"] /\ lost' = lost + 1
      <4>1. Cardinality(InFlight') = Cardinality(InFlight) - 1
        BY <1>4, <3>2, FlightDrops DEF CallPick
      <4> QED
        BY <1>4, <3>2, <4>1 DEF CallPick
    <3> QED
      BY <1>4, <3>1, <3>2 DEF CallPick
  <2>2. Carried' /\ GoalFollowsLoad' /\ OneScaler'
    BY <1>4 DEF CallPick
  <2> QED
    BY <2>1, <2>2
<1>5. CASE CallEnd(c)
  <2>1. Cardinality(InFlight') = Cardinality(InFlight) - 1
    BY <1>5, FlightDrops DEF CallEnd
  <2>2. CallCounts'
    BY <1>5, <2>1 DEF CallEnd
  <2>3. Carried' /\ GoalFollowsLoad' /\ OneScaler'
    BY <1>5 DEF CallEnd
  <2> QED
    BY <2>2, <2>3
<1> QED
  BY <1>1, <1>2, <1>3, <1>4, <1>5 DEF CallStep

\* The scaler and the removal touch neither the calls nor their counters, and lower the goal.
LEMMA ScalerKeeps ==
    ASSUME ScalerInv, ScalerMove \/ RemoveBegin \/ RemoveStep \/ Redeploy \/ UNCHANGED scalerVars
    PROVE  ScalerRest'
<1>1. UNCHANGED <<rover, callVars, peak, lost>>
  BY DEF ScalerMove, ScalerUp, ScalerDown, ScalerAsk, ScaleUp, ScaleDown, K8sDepScale, ScalerCheck,
         ScalerLower, ScalerStep, RemoveBegin, RemoveStep, RemoveShrink, RemoveDelete, Redeploy, scalerVars,
         schistVars
<1>2. CallCounts' /\ Carried'
  BY <1>1 DEF ScalerInv, CallCounts, CountsMatch, Carried, InFlight, callVars
<1>3. goal' \in Nat /\ goal' <= goal
  BY DEF ScalerInv, ScalerTypeOK, ScalerMove, ScalerUp, ScalerDown, ScalerAsk, ScaleUp, ScaleDown, K8sDepScale,
         ScalerCheck, ScalerLower, ScalerStep, RemoveBegin, RemoveStep, RemoveShrink, RemoveDelete,
         Redeploy, scalerVars, schistVars
<1>4. GoalFollowsLoad'
  BY <1>1, <1>3, ScalerAssumption DEF ScalerInv, ScalerTypeOK, GoalFollowsLoad
<1>5. OneScaler'
  BY DEF ScalerInv, OneScaler, ScalerMove, ScalerUp, ScalerDown, ScalerAsk, ScaleUp, ScaleDown,
         K8sDepScale, ScalerCheck, ScalerLower, ScalerStep, ScalerTo, RemoveBegin, RemoveStep,
         RemoveShrink, RemoveDelete, Redeploy, scalerVars, scaleVars
<1> QED
  BY <1>2, <1>4, <1>5 DEF ScalerRest

LEMMA ScalerPreserved ==
    ASSUME ScalerInv, [ScalerNext]_scalerVars
    PROVE  ScalerInv'
<1>1. ScalerTypeOK'
  BY ScalerTypeStep
<1>2. ScalerRest'
  BY CallKeeps, ScalerKeeps DEF ScalerNext
<1> QED
  BY <1>1, <1>2 DEF ScalerInv, ScalerRest

THEOREM ScalerInvariant == ScalerSpec => []ScalerInv
BY ScalerStarts, ScalerPreserved, PTL DEF ScalerSpec

-----------------------------------------------------------------------------
(* ScalerTypeOK: no count or goal goes below zero.                         *)
THEOREM ScalerTypes == ScalerSpec => []ScalerTypeOK
<1>1. ScalerInv => ScalerTypeOK
  BY DEF ScalerInv
<1> QED
  BY <1>1, ScalerInvariant, PTL

(* CountsMatch of Scaler: the two rovers differ by the calls in flight and *)
(* the calls lost to a panic, for any number of callers.                   *)
THEOREM CallsAreCounted == ScalerSpec => []CountsMatch
<1>1. ScalerInv => CountsMatch
  BY DEF ScalerInv, CallCounts
<1> QED
  BY <1>1, ScalerInvariant, PTL

(* GoalFollowsLoad of Scaler: however the counters are read, scalerSetGoal *)
(* never asks for more than the load or the limit.                         *)
THEOREM GoalIsLoad == ScalerSpec => []GoalFollowsLoad
<1>1. ScalerInv => GoalFollowsLoad
  BY DEF ScalerInv
<1> QED
  BY <1>1, ScalerInvariant, PTL

(* OneScaler of Scaler: scalerSetGoal starts a scaler when none runs.      *)
THEOREM OneScalerRuns == ScalerSpec => []OneScaler
<1>1. ScalerInv => OneScaler
  BY DEF ScalerInv
<1> QED
  BY <1>1, ScalerInvariant, PTL

(* ScalerSound of Scaler: counters, goal and scaler agree, for any number  *)
(* of callers, failed calls of Kubernetes and removals.                    *)
THEOREM ScalerIsSound == ScalerSpec => []ScalerSound
<1>1. CountsMatch /\ GoalFollowsLoad /\ OneScaler => ScalerSound
  BY DEF ScalerSound
<1> QED
  BY <1>1, CallsAreCounted, GoalIsLoad, OneScalerRuns, PTL

-----------------------------------------------------------------------------
(* CallStats.                                                               *)

\* The types of the fields of a request.
CsLabels == {"idle", "ten", "off", "tstore", "fstore", "have", "run", "dirty", "tcount", "tdirty",
             "send", "arch", "remove", "last"}
CswRec == [pc : CsLabels, op : {"call", "drop"}, fn : Count, ten : Count, off : Count, old : BOOLEAN]

\* CsTypeOK with the types of the fields spelled out.
CsTypes ==
    /\ csdb \in [Counters -> Count] /\ csoff \in Count /\ csgone \in BOOLEAN
    /\ csm \in [Counters -> CsData \cup {NotThere}]
    /\ cswriter \in [of : Counters \cup {"none"}, now : Count, disk : Count]
    /\ cswriter.of = "none" => cswriter = NoWrite
    /\ csw \in [CsWorkers -> CswRec]
    /\ csarch \in Seq(Count) /\ cssnap \in Count \cup {-1}
    /\ csn \in [calls : Count, faults : Nat, restarts : Nat]
    /\ csghost \in [over : BOOLEAN, late : BOOLEAN, lost : [Counters -> BOOLEAN]]

There(k) == csm[k] # NotThere
\* the requests that look for the function's data, and those that stop its flusher
Entering == {"ten", "off", "tstore", "fstore"}
Removing == {"arch", "remove", "last"}

\* Where a request is and what it has: data in memory stay until the gate dies, but
\* for a function's that is removed; then the requests that had it are old.
CsPlaced ==
    /\ \A w \in CsWorkers :
          /\ csw[w].pc \in {"send"} \cup Removing => csw[w].op = "drop"
          /\ csw[w].pc \notin {"idle", "ten", "off", "tstore"} => There("ten")
          /\ csw[w].pc \notin {"idle"} \cup Entering => There("fn") \/ csw[w].old
          /\ csw[w].old => csgone /\ csw[w].pc \notin {"idle"} \cup Entering
          /\ csw[w].pc \in Removing /\ ~csw[w].old => csm["fn"].fl = "closed"
    /\ There("fn") => There("ten")
    /\ csghost.late => csgone
    /\ csgone /\ There("fn") => csghost.late

\* The writer writes for data that are waiting, or were dropped when a second
\* removal of the function overlapped with the first.
Waiting(k) == There(k) /\ csm[k].fl = "flush"
Orphan == cswriter.of = "fn" /\ ~Waiting("fn")
WriterFits ==
    /\ cswriter.disk <= cswriter.now
    /\ \A k \in Counters :
          /\ There(k) => csm[k].disk <= csm[k].mem
          /\ Waiting(k) => /\ cswriter.of = k
                           /\ cswriter.disk = csm[k].disk /\ cswriter.now <= csm[k].mem
    /\ cswriter.of = "ten" => Waiting("ten")
    /\ Orphan => csghost.late

\* Calls that are not in the database raise the flag, are written or were lost.
Raising(k) ==
    \E w \in CsWorkers : IF k = "fn" THEN csw[w].pc = "dirty" /\ ~csw[w].old ELSE csw[w].pc = "tdirty"
FlagKept ==
    \A k \in Counters : There(k) =>
        /\ csm[k].fl = "sleep" =>
              \/ csm[k].mem = csm[k].disk \/ csm[k].dirty \/ Raising(k)
              \/ csghost.lost[k] /\ ~(k = "fn" /\ Orphan)
        /\ csm[k].fl = "flush" => csm[k].mem = cswriter.now \/ csm[k].dirty \/ Raising(k)

\* The copy of what the database has is what it has, in memory or about to be.
DiskFollows ==
    /\ There("ten") => csdb["ten"] = csm["ten"].disk
    /\ There("fn") /\ ~csghost.late /\ csm["fn"].fl # "closed" => csdb["fn"] = csm["fn"].disk
    /\ \A w \in CsWorkers :
          /\ ~There("ten") /\ csw[w].pc \in {"off", "tstore"} => csw[w].ten = csdb["ten"]
          /\ ~There("fn") /\ ~csgone /\ csw[w].pc \in Entering => csw[w].fn = csdb["fn"]

\* requests that are served and not counted yet, by the tenant and by the function
Uncounted == {w \in CsWorkers : csw[w].pc \in {"run", "dirty", "tcount"}}
Serving == {w \in CsWorkers : csw[w].pc = "run"}
nUncounted == Cardinality(Uncounted)
nServing == Cardinality(Serving)

\* what is to be added to the function's record
Unwritten ==
    (IF There("fn") THEN csm["fn"].mem - csm["fn"].disk ELSE 0)
    + (IF Orphan THEN cswriter.now - cswriter.disk ELSE 0)

\* No counter has more than the calls, those that are still to be counted included.
Counted ==
    /\ There("ten") => csm["ten"].mem + nUncounted <= csn.calls
    /\ csdb["ten"] <= csn.calls
    /\ There("fn") => csm["fn"].mem + nServing <= csn.calls
    /\ csdb["fn"] + Unwritten + nServing <= csn.calls
    /\ \A w \in CsWorkers : csw[w].pc \in Entering => csw[w].fn + nServing <= csn.calls

\* The snapshots grow, and none is ahead of the record.
ArchiveGrows ==
    /\ \A i \in 2 .. Len(csarch) : csarch[i - 1] <= csarch[i]
    /\ CsLast <= csdb["ten"]
    /\ cssnap # -1 => CsLast <= cssnap /\ cssnap <= csdb["ten"]
    /\ There("ten") => csoff <= CsLast
    /\ \A w \in CsWorkers : csw[w].pc = "tstore" => csw[w].off <= CsLast

\* The calls of a period, those that are still to be counted included, exceed the
\* limit by one for each request.
LimitKept ==
    LET bound == CsLimit + Cardinality(CsWorkers)
    IN  /\ There("ten") => csm["ten"].mem + nUncounted - csoff <= bound
        /\ ~There("ten") =>
              /\ csdb["ten"] - CsLast <= bound
              /\ \A w \in CsWorkers : csw[w].pc = "tstore" => csw[w].ten - csw[w].off <= bound

\* A record that was removed stays so until data are made anew.
RecordGone ==
    ~csghost.late =>
        /\ csgone => csdb["fn"] = 0
        /\ \A w \in CsWorkers : csw[w].pc = "last" /\ ~csw[w].old => csdb["fn"] = 0

\* One removal at a time stops a flusher that is not stopped yet.
OneStops ==
    ~csghost.over =>
        /\ \A v, w \in CsWorkers :
              csw[v].pc # "idle" /\ csw[v].op = "drop" /\ csw[w].pc # "idle" /\ csw[w].op = "drop" => v = w
        /\ \A w \in CsWorkers : csw[w].pc = "send" /\ ~csw[w].old => csm["fn"].fl # "closed"

\* The inductive invariant of the statistics.
CsInv ==
    /\ CsTypes /\ CsPlaced /\ WriterFits /\ FlagKept /\ DiskFollows /\ Counted
    /\ ArchiveGrows /\ LimitKept /\ RecordGone /\ OneStops
-----------------------------------------------------------------------------
\* What is known of the records of requests and of data in memory.
LEMMA CsRecords ==
    /\ 0 \in Count /\ \A n \in Count : n \in Nat /\ n <= CsMaxCalls
    /\ NoWrite \in [of : Counters \cup {"none"}, now : Count, disk : Count]
    /\ CsIdle \in CswRec /\ CsIdle.pc = "idle" /\ ~CsIdle.old
    /\ \A n \in Count : CsFresh(n) \in CsData
    /\ \A d \in CsData : d # NotThere
<1>1. 0 \in Count /\ \A n \in Count : n \in Nat /\ n <= CsMaxCalls
  BY CsAssumption DEF Count
<1>2. QED BY <1>1, CsAssumption DEF NoWrite, CsIdle, CsFresh, CswRec, CsLabels, CsData

\* A request that goes on, and one that takes what it read with it, is one still.
LEMMA CsEdits ==
  ASSUME NEW r \in CswRec, NEW l \in CsLabels, NEW n \in Count
  PROVE  /\ [r EXCEPT !.pc = l] \in CswRec
         /\ [r EXCEPT !.pc = l, !.ten = n] \in CswRec
         /\ [r EXCEPT !.pc = l, !.off = n] \in CswRec
  BY DEF CswRec

\* The last snapshot is a number.
LEMMA LastIsCount == ASSUME CsTypes PROVE CsLast \in Count
  BY CsAssumption DEF CsTypes, CsLast, Count

\* The sizes of the groups of requests, and how one request changes them.
LEMMA GroupsMove ==
  ASSUME CsTypes, CsTypes', NEW w \in CsWorkers, \A v \in CsWorkers \ {w} : csw'[v].pc = csw[v].pc
  PROVE  /\ nServing \in Nat /\ nUncounted \in Nat /\ nUncounted <= Cardinality(CsWorkers)
         /\ nServing' \in Nat /\ nUncounted' \in Nat /\ nUncounted' <= Cardinality(CsWorkers)
         /\ Cardinality(CsWorkers) \in Nat
         /\ nServing' = nServing + (IF csw'[w].pc = "run" THEN 1 ELSE 0)
                                 - (IF csw[w].pc = "run" THEN 1 ELSE 0)
         /\ nUncounted' = nUncounted + (IF csw'[w].pc \in {"run", "dirty", "tcount"} THEN 1 ELSE 0)
                                     - (IF csw[w].pc \in {"run", "dirty", "tcount"} THEN 1 ELSE 0)
<1>1. ASSUME NEW S, NEW T, S \subseteq CsWorkers, T \subseteq CsWorkers, S \ {w} = T \ {w}
      PROVE  /\ Cardinality(S) \in Nat /\ Cardinality(S) <= Cardinality(CsWorkers)
             /\ Cardinality(CsWorkers) \in Nat
             /\ Cardinality(T) = Cardinality(S) + (IF w \in T THEN 1 ELSE 0) - (IF w \in S THEN 1 ELSE 0)
  <2>1. IsFiniteSet(CsWorkers) /\ IsFiniteSet(S) /\ IsFiniteSet(T)
    BY <1>1, CsAssumption, FS_Subset
  <2>2. Cardinality(S) \in Nat /\ Cardinality(T) \in Nat /\ Cardinality(CsWorkers) \in Nat
    BY <2>1, FS_CardinalityType
  <2>3. Cardinality(S) <= Cardinality(CsWorkers)
    BY <1>1, <2>1, FS_Subset
  <2>4. w \in S => Cardinality(S \ {w}) = Cardinality(S) - 1
    BY <2>1, FS_RemoveElement
  <2>5. w \in T => Cardinality(T \ {w}) = Cardinality(T) - 1
    BY <2>1, FS_RemoveElement
  <2>6. /\ w \notin S => Cardinality(S \ {w}) = Cardinality(S)
        /\ w \notin T => Cardinality(T \ {w}) = Cardinality(T)
    <3>1. (w \notin S => S \ {w} = S) /\ (w \notin T => T \ {w} = T)
      OBVIOUS
    <3>2. QED BY <3>1
  <2>7. Cardinality(S \ {w}) = Cardinality(T \ {w})
    BY <1>1
  <2>8. Cardinality(T) = Cardinality(S) + (IF w \in T THEN 1 ELSE 0) - (IF w \in S THEN 1 ELSE 0)
    BY <2>2, <2>4, <2>5, <2>6, <2>7
  <2>9. QED BY <2>2, <2>3, <2>8
<1>2. Serving \subseteq CsWorkers /\ Serving' \subseteq CsWorkers /\ Serving \ {w} = Serving' \ {w}
  BY DEF Serving
<1>3. Uncounted \subseteq CsWorkers /\ Uncounted' \subseteq CsWorkers /\ Uncounted \ {w} = Uncounted' \ {w}
  BY DEF Uncounted
<1>4. /\ w \in Serving <=> csw[w].pc = "run"
      /\ w \in Serving' <=> csw'[w].pc = "run"
      /\ w \in Uncounted <=> csw[w].pc \in {"run", "dirty", "tcount"}
      /\ w \in Uncounted' <=> csw'[w].pc \in {"run", "dirty", "tcount"}
  BY DEF Serving, Uncounted
<1>5. /\ nServing \in Nat /\ Cardinality(CsWorkers) \in Nat
      /\ nServing' = nServing + (IF w \in Serving' THEN 1 ELSE 0) - (IF w \in Serving THEN 1 ELSE 0)
  BY <1>1, <1>2 DEF nServing
<1>6. /\ nUncounted \in Nat /\ nUncounted <= Cardinality(CsWorkers)
      /\ nUncounted' = nUncounted + (IF w \in Uncounted' THEN 1 ELSE 0) - (IF w \in Uncounted THEN 1 ELSE 0)
  BY <1>1, <1>3 DEF nUncounted
<1>7. nServing' \in Nat /\ nUncounted' \in Nat /\ nUncounted' <= Cardinality(CsWorkers)
  <2>1. Serving' \ {w} = Serving \ {w} /\ Uncounted' \ {w} = Uncounted \ {w}
    BY <1>2, <1>3
  <2>2. QED BY <1>1, <1>2, <1>3, <2>1 DEF nServing, nUncounted
<1>8. QED BY <1>4, <1>5, <1>6, <1>7

\* And that they stay when requests do.
LEMMA GroupsStay ==
  ASSUME CsTypes, \A v \in CsWorkers : csw'[v].pc = csw[v].pc
  PROVE  /\ nServing \in Nat /\ nServing' = nServing
         /\ nUncounted \in Nat /\ nUncounted' = nUncounted /\ nUncounted <= Cardinality(CsWorkers)
         /\ Cardinality(CsWorkers) \in Nat
<1>1. Serving' = Serving /\ Uncounted' = Uncounted
  BY DEF Serving, Uncounted
<1>2. IsFiniteSet(CsWorkers) /\ IsFiniteSet(Serving) /\ IsFiniteSet(Uncounted)
  BY CsAssumption, FS_Subset DEF Serving, Uncounted
<1>3. Cardinality(Uncounted) <= Cardinality(CsWorkers)
  BY <1>2, FS_Subset DEF Uncounted
<1>4. QED BY <1>1, <1>2, <1>3, FS_CardinalityType DEF nServing, nUncounted

\* A step of a request leaves the others where they are; only the removal of the
\* function's data makes them old.
LEMMA OthersStay ==
  ASSUME CsTypes, NEW w \in CsWorkers, CsRequest(w)
  PROVE  /\ csw' \in [CsWorkers -> CswRec]
         /\ \A v \in CsWorkers \ {w} :
              /\ csw'[v].pc = csw[v].pc /\ csw'[v].op = csw[v].op /\ csw'[v].fn = csw[v].fn
              /\ csw'[v].ten = csw[v].ten /\ csw'[v].off = csw[v].off
              /\ \/ csw'[v] = csw[v]
                 \/ /\ csw[w].pc = "last" /\ csgone' /\ csm' = [csm EXCEPT !["fn"] = NotThere]
                    /\ csw'[v].old <=> csw[v].pc \notin {"idle"} \cup Entering
<1> USE CsRecords, CsEdits, LastIsCount
<1>1. CASE CsGone(w)
  <2>1. CASE CsEnds(w)
    BY <1>1, <2>1 DEF CsEnds, CsTypes
  <2>2. CASE /\ csm' = [csm EXCEPT !["fn"] = NotThere] /\ csgone' = TRUE
             /\ csw' = [v \in CsWorkers |-> IF v = w THEN CsIdle
                          ELSE [csw[v] EXCEPT !.old = csw[v].pc \notin {"idle", "ten", "off", "tstore", "fstore"}]]
    <3>1. ASSUME NEW v \in CsWorkers \ {w}
          PROVE  \E b \in BOOLEAN :
                    /\ csw'[v] = [csw[v] EXCEPT !.old = b]
                    /\ b <=> csw[v].pc \notin {"idle"} \cup Entering
      <4>1. csw'[v] = [csw[v] EXCEPT !.old = csw[v].pc \notin {"idle", "ten", "off", "tstore", "fstore"}]
        BY <2>2
      <4>2. QED BY <4>1 DEF Entering
    <3>2. ASSUME NEW v \in CsWorkers \ {w}
          PROVE  /\ csw'[v] \in CswRec
                 /\ csw'[v].pc = csw[v].pc /\ csw'[v].op = csw[v].op /\ csw'[v].fn = csw[v].fn
                 /\ csw'[v].ten = csw[v].ten /\ csw'[v].off = csw[v].off
                 /\ csw'[v].old <=> csw[v].pc \notin {"idle"} \cup Entering
      <4>1. csw[v] \in CswRec
        BY DEF CsTypes
      <4>2. PICK b \in BOOLEAN : /\ csw'[v] = [csw[v] EXCEPT !.old = b]
                                 /\ b <=> csw[v].pc \notin {"idle"} \cup Entering
        BY <3>1
      <4>3. /\ csw'[v] \in CswRec /\ csw'[v].old = b
            /\ csw'[v].pc = csw[v].pc /\ csw'[v].op = csw[v].op /\ csw'[v].fn = csw[v].fn
            /\ csw'[v].ten = csw[v].ten /\ csw'[v].off = csw[v].off
        BY <4>1, <4>2 DEF CswRec
      <4>4. QED BY <4>2, <4>3
    <3>3. csw' \in [CsWorkers -> CswRec]
      BY <2>2, <3>2
    <3>4. csw[w].pc = "last"
      BY <1>1 DEF CsGone
    <3>5. QED BY <2>2, <3>2, <3>3, <3>4
  <2>3. QED BY <1>1, <2>1, <2>2 DEF CsGone
<1>2. ASSUME NEW r \in CswRec, csw' = [csw EXCEPT ![w] = r]
      PROVE  csw' \in [CsWorkers -> CswRec] /\ \A v \in CsWorkers \ {w} : csw'[v] = csw[v]
  BY <1>2 DEF CsTypes
<1>3. csw[w] \in CswRec /\ csdb \in [Counters -> Count]
  BY DEF CsTypes
<1>4. ASSUME ~CsGone(w)
      PROVE  \E r \in CswRec : csw' = [csw EXCEPT ![w] = r]
  <2>1. CASE CsEnter(w)
    <3>1. \A op \in {"call", "drop"}, n \in Count, l \in CsLabels :
            [CsIdle EXCEPT !.op = op, !.fn = n, !.pc = l] \in CswRec
      BY DEF CsIdle, CswRec
    <3>2. PICK op \in {"call", "drop"} :
            csw' = [csw EXCEPT ![w] = [CsIdle EXCEPT !.op = op,
                        !.fn = IF csm["fn"] # NotThere THEN 0 ELSE csdb["fn"],
                        !.pc = IF csm["fn"] # NotThere THEN "have"
                               ELSE IF csm["ten"] # NotThere THEN "fstore" ELSE "ten"]]
      BY <2>1 DEF CsEnter
    <3>3. (IF csm["fn"] # NotThere THEN 0 ELSE csdb["fn"]) \in Count
      BY <1>3 DEF Counters
    <3>4. (IF csm["fn"] # NotThere THEN "have"
           ELSE IF csm["ten"] # NotThere THEN "fstore" ELSE "ten") \in CsLabels
      BY DEF CsLabels
    <3>5. QED BY <3>1, <3>2, <3>3, <3>4
  <2>2. CASE CsTenRead(w)
    <3>1. csdb["ten"] \in Count /\ "off" \in CsLabels
      BY <1>3 DEF Counters, CsLabels
    <3>2. csw' = [csw EXCEPT ![w] = [csw[w] EXCEPT !.pc = "off", !.ten = csdb["ten"]]] \/ CsEnds(w)
      BY <2>2 DEF CsTenRead, CsTypes
    <3>3. QED BY <1>3, <3>1, <3>2 DEF CsEnds
  <2>3. CASE CsTenOff(w)
    <3>1. CsLast \in Count /\ "tstore" \in CsLabels
      BY DEF CsLabels
    <3>2. csw' = [csw EXCEPT ![w] = [csw[w] EXCEPT !.pc = "tstore", !.off = CsLast]] \/ CsEnds(w)
      BY <2>3 DEF CsTenOff, CsTypes
    <3>3. QED BY <1>3, <3>1, <3>2 DEF CsEnds
  <2>4. CASE CsFnStore(w)
    <3>1. csw[w].op \in {"call", "drop"} /\ "have" \in CsLabels
      BY <1>3 DEF CswRec, CsLabels
    <3>2. \A op \in {"call", "drop"}, l \in CsLabels : [CsIdle EXCEPT !.pc = l, !.op = op] \in CswRec
      BY DEF CsIdle, CswRec
    <3>3. QED BY <2>4, <3>1, <3>2 DEF CsFnStore
  <2>5. CASE \/ CsTenStore(w) \/ CsCall(w) \/ CsCount(w) \/ CsDirty(w) \/ CsTenCount(w) \/ CsTenDirty(w)
             \/ CsClosed(w) \/ CsStop(w) \/ CsDropArch(w) \/ CsDropRemove(w)
    <3>1. CsEnds(w) \/ \E l \in CsLabels : CsGoes(w, l)
      BY <2>5 DEF CsTenStore, CsCall, CsCount, CsDirty, CsTenCount, CsTenDirty, CsClosed, CsStop,
         CsDropArch, CsDropRemove, CsLabels
    <3>2. QED BY <1>3, <3>1 DEF CsEnds, CsGoes, CsTypes
  <2>6. QED BY <1>4, <2>1, <2>2, <2>3, <2>4, <2>5 DEF CsRequest
<1>5. QED BY <1>1, <1>2, <1>4

\* What data in memory become is data.
LEMMA DataEdits ==
  ASSUME NEW d \in CsData, NEW n \in Count
  PROVE  /\ [d EXCEPT !.mem = n] \in CsData
         /\ [d EXCEPT !.dirty = TRUE] \in CsData
         /\ [d EXCEPT !.fl = "closed"] \in CsData
         /\ [d EXCEPT !.fl = "flush"] \in CsData
         /\ [d EXCEPT !.fl = "ask", !.dirty = FALSE] \in CsData
         /\ [d EXCEPT !.fl = "sleep", !.disk = n] \in CsData
         /\ d.mem \in Count /\ d.disk \in Count /\ d.dirty \in BOOLEAN
  BY DEF CsData

\* There is room for a call that is to be counted.
LEMMA RoomToCount ==
  ASSUME CsTypes, Counted, NEW w \in CsWorkers
  PROVE  /\ csw[w].pc = "run" /\ There("fn") => csm["fn"].mem + 1 \in Count
         /\ csw[w].pc = "tcount" /\ There("ten") => csm["ten"].mem + 1 \in Count
<1>1. IsFiniteSet(Serving) /\ IsFiniteSet(Uncounted)
  BY CsAssumption, FS_Subset DEF Serving, Uncounted
<1>2. nServing \in Nat /\ nUncounted \in Nat /\ (Serving # {} => nServing # 0) /\ (Uncounted # {} => nUncounted # 0)
  BY <1>1, FS_CardinalityType, FS_EmptySet DEF nServing, nUncounted
<1>3. (csw[w].pc = "run" => nServing # 0) /\ (csw[w].pc = "tcount" => nUncounted # 0)
  BY <1>2 DEF Serving, Uncounted
<1>4. /\ There("fn") => csm["fn"].mem \in Count
      /\ There("ten") => csm["ten"].mem \in Count
      /\ csn.calls \in Count
  BY CsRecords, DataEdits DEF CsTypes, There, Counters
<1>5. QED BY <1>2, <1>3, <1>4, CsAssumption DEF Counted, Count

\* What is written to a record are calls.
LEMMA WrittenIsCount ==
  ASSUME CsInv, cswriter # NoWrite
  PROVE  cswriter.of \in Counters /\ csdb[cswriter.of] + cswriter.now - cswriter.disk \in Count
<1>1. cswriter.of \in Counters
  BY DEF CsInv, CsTypes
<1>2. nServing \in Nat
  <2>1. IsFiniteSet(Serving)
    BY CsAssumption, FS_Subset DEF Serving
  <2>2. QED BY <2>1, FS_CardinalityType DEF nServing
<1>3. /\ csdb["fn"] \in Count /\ csdb["ten"] \in Count /\ csn.calls \in Count
      /\ cswriter.now \in Count /\ cswriter.disk \in Count
      /\ \A k \in Counters : There(k) => csm[k].mem \in Count /\ csm[k].disk \in Count
  BY DataEdits, CsRecords DEF CsInv, CsTypes, There, Counters
<1>4. CASE cswriter.of = "ten"
  <2>1. There("ten") /\ cswriter.disk = csdb["ten"]
    BY <1>4 DEF CsInv, WriterFits, DiskFollows, Waiting, Counters
  <2>2. cswriter.disk <= cswriter.now
    BY DEF CsInv, WriterFits
  <2>3. QED BY <1>3, <1>4, <2>1, <2>2 DEF Count, Counters
<1>5. CASE cswriter.of = "fn" /\ Orphan
  <2>1. /\ csdb["fn"] + Unwritten + nServing <= csn.calls
        /\ There("fn") => csm["fn"].disk <= csm["fn"].mem
        /\ cswriter.disk <= cswriter.now
    BY DEF CsInv, Counted, WriterFits, Counters
  <2>2. Unwritten \in Int /\ cswriter.now - cswriter.disk <= Unwritten
    BY <1>3, <1>5, <2>1 DEF Unwritten, Count, Counters
  <2>3. QED BY <1>2, <1>3, <1>5, <2>1, <2>2, CsAssumption DEF Count, Counters
<1>6. CASE cswriter.of = "fn" /\ ~Orphan
  <2>1. /\ csdb["fn"] + Unwritten + nServing <= csn.calls
        /\ There("fn") /\ cswriter.disk = csm["fn"].disk /\ cswriter.now <= csm["fn"].mem
        /\ cswriter.disk <= cswriter.now
    BY <1>6 DEF CsInv, Counted, WriterFits, Orphan, Waiting, Counters
  <2>2. Unwritten \in Int /\ cswriter.now - cswriter.disk <= Unwritten
    BY <1>3, <1>6, <2>1 DEF Unwritten, Count, Counters
  <2>3. QED BY <1>2, <1>3, <1>6, <2>1, <2>2, CsAssumption DEF Count, Counters
<1>7. QED BY <1>1, <1>4, <1>5, <1>6 DEF Counters

\* The data in memory keep their types.
LEMMA MemoryTyped ==
  ASSUME CsInv, CsNext
  PROVE  csm' \in [Counters -> CsData \cup {NotThere}]
<1> USE CsRecords, DataEdits
<1>0. CsTypes /\ CsPlaced /\ Counted /\ csm \in [Counters -> CsData \cup {NotThere}]
      /\ "fn" \in Counters /\ "ten" \in Counters
  BY DEF CsInv, CsTypes, Counters
<1>1. ASSUME NEW k \in Counters, NEW d \in CsData, csm' = [csm EXCEPT ![k] = d]
      PROVE  csm' \in [Counters -> CsData \cup {NotThere}]
  BY <1>0, <1>1
<1>2. ASSUME NEW w \in CsWorkers, CsRequest(w)
      PROVE  csm' \in [Counters -> CsData \cup {NotThere}]
  <2>1. CASE UNCHANGED csm \/ csm' = [csm EXCEPT !["fn"] = NotThere]
    BY <1>0, <2>1
  <2>2. CASE CsTenStore(w) \/ CsFnStore(w)
    <3>1. csw[w].fn \in Count /\ csw[w].ten \in Count
      BY <1>0 DEF CsTypes, CswRec
    <3>2. QED BY <1>0, <2>2, <3>1 DEF CsTenStore, CsFnStore
  <2>3. CASE CsCount(w) /\ ~csw[w].old
    <3>1. csm["fn"] \in CsData /\ csm["fn"].mem + 1 \in Count
      BY <1>0, <2>3, RoomToCount DEF CsCount, CsPlaced, There, Entering
    <3>2. QED BY <1>0, <2>3, <3>1 DEF CsCount
  <2>4. CASE CsDirty(w) /\ ~csw[w].old
    <3>1. csm["fn"] \in CsData
      BY <1>0, <2>4 DEF CsDirty, CsPlaced, There, Entering
    <3>2. QED BY <1>0, <2>4, <3>1 DEF CsDirty
  <2>5. CASE CsTenCount(w)
    <3>1. csm["ten"] \in CsData /\ csm["ten"].mem + 1 \in Count
      BY <1>0, <2>5, RoomToCount DEF CsTenCount, CsPlaced, There
    <3>2. QED BY <1>0, <2>5, <3>1 DEF CsTenCount
  <2>6. CASE CsTenDirty(w)
    <3>1. csm["ten"] \in CsData
      BY <1>0, <2>6 DEF CsTenDirty, CsPlaced, There
    <3>2. QED BY <1>0, <2>6, <3>1 DEF CsTenDirty
  <2>7. CASE CsStop(w)
    <3>1. csm["fn"] \in CsData
      BY <1>0, <2>7 DEF CsStop, CsPlaced, There, Entering
    <3>2. QED BY <1>0, <2>7, <3>1 DEF CsStop
  <2>8. CASE CsGone(w)
    BY <2>1, <2>8 DEF CsGone
  <2>9. QED
    BY <1>2, <2>1, <2>2, <2>3, <2>4, <2>5, <2>6, <2>7, <2>8 DEF CsRequest, CsEnter, CsTenRead,
       CsTenOff, CsCall, CsCount, CsDirty, CsClosed, CsDropArch, CsDropRemove
<1>3. ASSUME NEW k \in Counters, CsFlush(k)
      PROVE  csm' \in [Counters -> CsData \cup {NotThere}]
  <2>1. csm[k] \in CsData
    BY <1>0, <1>3 DEF CsFlush, CsTick, CsTake
  <2>2. QED BY <1>0, <1>3, <2>1 DEF CsFlush, CsTick, CsTake
<1>4. CASE CsWrite
  <2>1. cswriter.of \in Counters /\ cswriter.now \in Count /\ cswriter.disk \in Count
    BY <1>0, <1>4 DEF CsTypes, CsWrite
  <2>2. ASSUME NEW d \in Count, CsAwake(d)
        PROVE  csm' \in [Counters -> CsData \cup {NotThere}]
    <3>1. CASE csm[cswriter.of] = NotThere \/ csm[cswriter.of].fl # "flush"
      BY <1>0, <2>2, <3>1 DEF CsAwake
    <3>2. CASE ~(csm[cswriter.of] = NotThere \/ csm[cswriter.of].fl # "flush")
      <4>1. [csm[cswriter.of] EXCEPT !.fl = "sleep", !.disk = d] \in CsData
        BY <1>0, <2>1, <3>2
      <4>2. QED BY <1>0, <2>1, <2>2, <3>2, <4>1 DEF CsAwake
    <3>3. QED BY <3>1, <3>2
  <2>3. QED BY <1>4, <2>1, <2>2 DEF CsWrite
<1>5. CASE CsSetupLimits \/ CsScrape \/ CsArchive
  BY <1>0, <1>5 DEF CsSetupLimits, CsScrape, CsArchive
<1>6. CASE CsRestart
  BY <1>6 DEF CsRestart
<1>7. QED BY <1>2, <1>3, <1>4, <1>5, <1>6 DEF CsNext

\* The types hold in every step.
LEMMA CsTypeStep == ASSUME CsInv, [CsNext]_csVars PROVE CsTypes'
<1> USE CsRecords, CsAssumption
<1>0. CsTypes
  BY DEF CsInv
<1>1. CASE UNCHANGED csVars
  BY <1>0, <1>1 DEF csVars, CsTypes, NoWrite
<1>2. ASSUME CsNext
      PROVE  csn' \in [calls : Count, faults : Nat, restarts : Nat]
  <2>1. csn \in [calls : Count, faults : Nat, restarts : Nat]
    BY <1>0 DEF CsTypes
  <2>2. \/ UNCHANGED csn \/ csn' = [csn EXCEPT !.faults = @ + 1] \/ csn' = [csn EXCEPT !.restarts = @ + 1]
        \/ csn.calls # CsMaxCalls /\ csn' = [csn EXCEPT !.calls = @ + 1]
    BY <1>2, ZenonT(60) DEF CsNext, CsRequest, CsFlush, CsTick, CsTake, CsWrite, CsSetupLimits, CsScrape,
       CsArchive, CsRestart, CsEnter, CsTenRead, CsTenOff, CsTenStore, CsFnStore, CsCall, CsCount,
       CsDirty, CsTenCount, CsTenDirty, CsClosed, CsStop, CsDropArch, CsDropRemove, CsGone, CsFault
  <2>3. QED BY <2>1, <2>2 DEF Count
<1>3. ASSUME CsNext
      PROVE  csghost' \in [over : BOOLEAN, late : BOOLEAN, lost : [Counters -> BOOLEAN]]
  <2>1. csghost \in [over : BOOLEAN, late : BOOLEAN, lost : [Counters -> BOOLEAN]] /\ csgone \in BOOLEAN
    BY <1>0 DEF CsTypes
  <2>2. CASE UNCHANGED csghost
    BY <2>1, <2>2
  <2>3. CASE \E b \in BOOLEAN : csghost' = [csghost EXCEPT !.over = b] \/ csghost' = [csghost EXCEPT !.late = b]
    BY <2>1, <2>3
  <2>4. CASE \E k \in Counters, b \in BOOLEAN : csghost' = [csghost EXCEPT !.lost[k] = b]
    BY <2>1, <2>4
  <2>5. CASE CsRestart
    BY <2>1, <2>5 DEF CsRestart
  <2>6. ASSUME NEW w \in CsWorkers, CsEnter(w)
        PROVE  \E b \in BOOLEAN : csghost' = [csghost EXCEPT !.over = b]
    BY <2>1, <2>6 DEF CsEnter
  <2>7. ASSUME NEW w \in CsWorkers, CsFnStore(w)
        PROVE  UNCHANGED csghost \/ \E b \in BOOLEAN : csghost' = [csghost EXCEPT !.late = b]
    BY <2>1, <2>7 DEF CsFnStore
  <2>8. CASE CsWrite
    <3>1. cswriter.of \in Counters
      BY <1>0, <2>8 DEF CsTypes, CsWrite
    <3>2. QED BY <2>4, <2>8, <3>1 DEF CsWrite
  <2>9. QED
    BY <1>3, <2>2, <2>3, <2>5, <2>6, <2>7, <2>8 DEF CsNext, CsRequest, CsFlush, CsTick, CsTake,
       CsSetupLimits, CsScrape, CsArchive, CsTenRead, CsTenOff, CsTenStore, CsCall, CsCount,
       CsDirty, CsTenCount, CsTenDirty, CsClosed, CsStop, CsDropArch, CsDropRemove, CsGone
<1>4. ASSUME CsNext
      PROVE  csw' \in [CsWorkers -> CswRec]
  <2>1. ASSUME NEW w \in CsWorkers, CsRequest(w)
        PROVE  csw' \in [CsWorkers -> CswRec]
    BY <1>0, <2>1, OthersStay
  <2>2. CASE UNCHANGED csw \/ CsRestart
    BY <1>0, <2>2 DEF CsTypes, CsRestart
  <2>3. QED
    BY <1>4, <2>1, <2>2 DEF CsNext, CsFlush, CsTick, CsTake, CsWrite, CsSetupLimits, CsScrape, CsArchive
<1>5. ASSUME CsNext
      PROVE  csdb' \in [Counters -> Count]
  <2>1. csdb \in [Counters -> Count]
    BY <1>0 DEF CsTypes
  <2>2. UNCHANGED csdb \/ CsWrite \/ csdb' = [csdb EXCEPT !["fn"] = 0]
    BY <1>5 DEF CsNext, CsRequest, CsFlush, CsTick, CsTake, CsSetupLimits, CsScrape,
       CsArchive, CsRestart, CsEnter, CsTenRead, CsTenOff, CsTenStore, CsFnStore, CsCall, CsCount,
       CsDirty, CsTenCount, CsTenDirty, CsClosed, CsStop, CsDropArch, CsDropRemove, CsGone
  <2>3. CASE CsWrite
    BY <2>1, <2>3, WrittenIsCount DEF CsWrite
  <2>4. QED BY <2>1, <2>2, <2>3
<1>6. ASSUME CsNext
      PROVE  /\ cswriter' \in [of : Counters \cup {"none"}, now : Count, disk : Count]
             /\ cswriter'.of = "none" => cswriter' = NoWrite
  <2>1. UNCHANGED cswriter \/ cswriter' = NoWrite \/ \E k \in Counters : CsTake(k)
    BY <1>6 DEF CsNext, CsRequest, CsFlush, CsTick, CsWrite, CsSetupLimits, CsScrape,
       CsArchive, CsRestart, CsEnter, CsTenRead, CsTenOff, CsTenStore, CsFnStore, CsCall, CsCount,
       CsDirty, CsTenCount, CsTenDirty, CsClosed, CsStop, CsDropArch, CsDropRemove, CsGone
  <2>2. ASSUME NEW k \in Counters, CsTake(k)
        PROVE  csm[k].mem \in Count /\ csm[k].disk \in Count
    BY <1>0, <2>2, DataEdits DEF CsTake, CsTypes
  <2>3. QED BY <1>0, <2>1, <2>2 DEF CsTypes, CsTake, Counters, NoWrite
<1>7. ASSUME CsNext
      PROVE  csoff' \in Count /\ csgone' \in BOOLEAN /\ csarch' \in Seq(Count) /\ cssnap' \in Count \cup {-1}
  <2>1. csoff \in Count /\ csgone \in BOOLEAN /\ csarch \in Seq(Count) /\ cssnap \in Count \cup {-1}
        /\ csdb["ten"] \in Count /\ CsLast \in Count /\ \A w \in CsWorkers : csw[w].off \in Count
    BY <1>0, LastIsCount DEF CsTypes, CswRec, Counters
  <2>2. csoff' \in {csoff, CsLast, 0} \cup {csw[w].off : w \in CsWorkers} /\ csgone' \in {csgone, TRUE}
    BY <1>7 DEF CsNext, CsRequest, CsFlush, CsTick, CsTake, CsWrite, CsSetupLimits, CsScrape,
       CsArchive, CsRestart, CsEnter, CsTenRead, CsTenOff, CsTenStore, CsFnStore, CsCall, CsCount,
       CsDirty, CsTenCount, CsTenDirty, CsClosed, CsStop, CsDropArch, CsDropRemove, CsGone
  <2>3. UNCHANGED <<csarch, cssnap>> \/ CsScrape \/ CsArchive
    BY <1>7, ZenonT(60) DEF CsNext, CsRequest, CsFlush, CsTick, CsTake, CsWrite, CsSetupLimits,
       CsRestart, CsEnter, CsTenRead, CsTenOff, CsTenStore, CsFnStore, CsCall, CsCount,
       CsDirty, CsTenCount, CsTenDirty, CsClosed, CsStop, CsDropArch, CsDropRemove, CsGone
  <2>4. csarch' \in Seq(Count) /\ cssnap' \in Count \cup {-1}
    <3>1. CASE CsScrape
      BY <2>1, <3>1 DEF CsScrape
    <3>2. CASE CsArchive
      <4>1. cssnap \in Count
        BY <2>1, <3>2 DEF CsArchive
      <4>2. Append(csarch, cssnap) \in Seq(Count)
        BY <2>1, <4>1
      <4>3. QED BY <2>1, <3>2, <4>2 DEF CsArchive
    <3>3. QED BY <2>1, <2>3, <3>1, <3>2
  <2>5. QED BY <2>1, <2>2, <2>4
<1>8. CASE CsNext
  BY <1>2, <1>3, <1>4, <1>5, <1>6, <1>7, <1>8, MemoryTyped DEF CsTypes
<1>9. QED BY <1>1, <1>8

\* What the invariant says besides the types.
CsRest ==
    /\ CsPlaced /\ WriterFits /\ FlagKept /\ DiskFollows /\ Counted
    /\ ArchiveGrows /\ LimitKept /\ RecordGone /\ OneStops

\* The numbers of the state.
LEMMA CsNumbers ==
  ASSUME CsTypes
  PROVE  /\ csdb["fn"] \in Nat /\ csdb["ten"] \in Nat /\ csoff \in Nat /\ CsLast \in Nat
         /\ csn.calls \in Nat /\ cssnap \in Int /\ cswriter.now \in Nat /\ cswriter.disk \in Nat
         /\ There("fn") => csm["fn"] \in CsData /\ csm["fn"].mem \in Nat /\ csm["fn"].disk \in Nat
         /\ There("ten") => csm["ten"] \in CsData /\ csm["ten"].mem \in Nat /\ csm["ten"].disk \in Nat
         /\ \A w \in CsWorkers : /\ csw[w] \in CswRec /\ csw[w].fn \in Nat
                                 /\ csw[w].ten \in Nat /\ csw[w].off \in Nat
         /\ CsLimit \in Nat
<1>1. \A d \in CsData : d.mem \in Nat /\ d.disk \in Nat
  BY CsRecords DEF CsData
<1>2. \A r \in CswRec : r.fn \in Nat /\ r.ten \in Nat /\ r.off \in Nat
  BY CsRecords DEF CswRec
<1>3. csdb["fn"] \in Count /\ csdb["ten"] \in Count
  BY DEF CsTypes, Counters
<1>4. csoff \in Nat /\ CsLast \in Nat /\ csn.calls \in Nat /\ cssnap \in Int
      /\ cswriter.now \in Nat /\ cswriter.disk \in Nat
  BY CsRecords, LastIsCount DEF CsTypes
<1>5. /\ There("fn") => csm["fn"] \in CsData
      /\ There("ten") => csm["ten"] \in CsData
  BY DEF CsTypes, Counters, There
<1>6. \A w \in CsWorkers : csw[w] \in CswRec
  BY DEF CsTypes
<1>7. QED BY <1>1, <1>2, <1>3, <1>4, <1>5, <1>6, CsRecords, CsAssumption

\* What is to be added to a record is not negative.
LEMMA UnwrittenIsNat == ASSUME CsTypes, WriterFits PROVE Unwritten \in Nat
<1>1. There("fn") => csm["fn"].mem - csm["fn"].disk \in Nat
  BY CsNumbers DEF WriterFits, Counters
<1>2. cswriter.now - cswriter.disk \in Nat
  BY CsNumbers DEF WriterFits
<1>3. QED BY <1>1, <1>2 DEF Unwritten

\* A call of the database that fails is no call of the function.
LEMMA FaultIsNoCall == ASSUME CsTypes, csn' = csn \/ CsFault PROVE csn'.calls = csn.calls
  BY DEF CsTypes, CsFault

\* A request begins.
LEMMA CsEnterKeeps == ASSUME CsInv, CsTypes', NEW w \in CsWorkers, CsEnter(w) PROVE CsRest'
<1> USE CsNumbers
<1>0. CsTypes /\ CsPlaced /\ WriterFits /\ FlagKept /\ DiskFollows /\ Counted /\ ArchiveGrows /\ LimitKept
      /\ RecordGone /\ OneStops
  BY DEF CsInv
<1>1. /\ \A v \in CsWorkers \ {w} : csw'[v] = csw[v]
      /\ csw[w].pc = "idle" /\ ~csgone /\ ~csw'[w].old
      /\ ~There("fn") => csw'[w].fn = csdb["fn"]
      /\ csw'[w].pc = IF There("fn") THEN "have" ELSE IF There("ten") THEN "fstore" ELSE "ten"
      /\ csghost'.late = csghost.late /\ csghost'.lost = csghost.lost
      /\ csw'[w].op \in {"call", "drop"}
  BY <1>0 DEF CsEnter, CsIdle, There, CsTypes, CswRec
<1>a. ~csghost'.over => ~csghost.over /\ (csw'[w].op = "drop" => \A v \in CsWorkers :
                                                        csw[v].pc = "idle" \/ csw[v].op # "drop")
  <2>1. PICK op \in {"call", "drop"} :
          /\ csw'[w].op = op
          /\ csghost' = [csghost EXCEPT !.over = @ \/ (op = "drop" /\ \E v \in CsWorkers :
                                                        csw[v].pc # "idle" /\ csw[v].op = "drop")]
    BY <1>0 DEF CsEnter, CsIdle, CsTypes
  <2>2. csghost'.over = (csghost.over \/ (op = "drop" /\ \E v \in CsWorkers :
                                                        csw[v].pc # "idle" /\ csw[v].op = "drop"))
    BY <1>0, <2>1 DEF CsTypes
  <2>3. QED BY <2>1, <2>2
<1>2. UNCHANGED <<csdb, csm, csoff, cswriter, csarch, cssnap, csfnarch, csgone, csn>>
  BY DEF CsEnter
<1>3. /\ nServing \in Nat /\ nServing' = nServing /\ nUncounted \in Nat /\ nUncounted' = nUncounted
  BY <1>0, <1>1, GroupsMove
<1>4. CsPlaced'
  BY <1>0, <1>1, <1>2 DEF CsPlaced, There, Entering, Removing
<1>5. WriterFits'
  BY <1>0, <1>1, <1>2 DEF WriterFits, There, Waiting, Orphan
<1>6. FlagKept'
  BY <1>0, <1>1, <1>2 DEF FlagKept, There, Raising, Orphan, Waiting
<1>7. DiskFollows'
  BY <1>0, <1>1, <1>2 DEF DiskFollows, There, Entering
<1>8. Counted'
  <2>1. Unwritten \in Nat /\ Unwritten' = Unwritten
    BY <1>0, <1>2, UnwrittenIsNat DEF There, Unwritten, Orphan, Waiting
  <2>2. QED BY <1>0, <1>1, <1>2, <1>3, <2>1 DEF Counted, There, Entering
<1>9. ArchiveGrows'
  BY <1>0, <1>1, <1>2 DEF ArchiveGrows, CsLast, There
<1>10. LimitKept'
  BY <1>0, <1>1, <1>2, <1>3 DEF LimitKept, CsLast, There
<1>11. RecordGone'
  BY <1>0, <1>1, <1>2 DEF RecordGone
<1>12. OneStops'
  BY <1>0, <1>1, <1>2, <1>a DEF OneStops
<1>13. QED BY <1>4, <1>5, <1>6, <1>7, <1>8, <1>9, <1>10, <1>11, <1>12 DEF CsRest

\* No request is served before the tenant's data are there.
LEMMA NoneUncounted == ASSUME CsPlaced, ~There("ten") PROVE nUncounted = 0 /\ nServing = 0
<1>1. Uncounted = {} /\ Serving = {}
  BY DEF CsPlaced, Uncounted, Serving
<1>2. QED BY <1>1, FS_EmptySet DEF nUncounted, nServing

\* No group of requests has a negative size.
LEMMA NoGroupNegative ==
  ASSUME CsTypes PROVE nServing \in Nat /\ nUncounted \in Nat /\ Cardinality(CsWorkers) \in Nat
<1>1. IsFiniteSet(CsWorkers) /\ IsFiniteSet(Serving) /\ IsFiniteSet(Uncounted)
  BY CsAssumption, FS_Subset DEF Serving, Uncounted
<1>2. QED BY <1>1, FS_CardinalityType DEF nServing, nUncounted

\* A request reads the tenant's record.
LEMMA CsTenReadKeeps == ASSUME CsInv, CsTypes', NEW w \in CsWorkers, CsTenRead(w) PROVE CsRest'
<1> USE CsNumbers
<1>0. CsTypes /\ CsPlaced /\ WriterFits /\ FlagKept /\ DiskFollows /\ Counted /\ ArchiveGrows /\ LimitKept
      /\ RecordGone /\ OneStops
  BY DEF CsInv
<1>1. /\ \A v \in CsWorkers \ {w} : csw'[v] = csw[v]
      /\ csw[w].pc = "ten" /\ csn'.calls = csn.calls
      /\ \/ /\ csw'[w].pc = "off" /\ csw'[w].ten = csdb["ten"] /\ csw'[w].fn = csw[w].fn
            /\ csw'[w].op = csw[w].op /\ csw'[w].old = csw[w].old
         \/ csw'[w].pc = "idle" /\ ~csw'[w].old
  <2>1. /\ csw[w] \in CswRec /\ csw \in [CsWorkers -> CswRec]
        /\ csn \in [calls : Count, faults : Nat, restarts : Nat]
    BY <1>0 DEF CsTypes
  <2>2. QED BY <1>0, <2>1, FaultIsNoCall DEF CsTenRead, CsEnds, CsGoes, CsIdle, There, CswRec
<1>2. UNCHANGED <<csdb, csm, csoff, cswriter, csarch, cssnap, csfnarch, csgone, csghost>> /\ CsLast' = CsLast
  BY DEF CsTenRead, CsEnds, CsGoes, CsLast
<1>3. /\ nServing \in Nat /\ nUncounted \in Nat /\ Cardinality(CsWorkers) \in Nat
      /\ nUncounted <= Cardinality(CsWorkers) /\ nUncounted' <= Cardinality(CsWorkers)
      /\ nServing' = nServing /\ nUncounted' = nUncounted
  BY <1>0, <1>1, <1>2, GroupsMove
<1>4. Unwritten \in Nat /\ Unwritten' = Unwritten
  BY <1>0, <1>1, <1>2, UnwrittenIsNat DEF There, Unwritten, Orphan, Waiting
<1>5. CsPlaced'
  BY <1>0, <1>1, <1>2 DEF CsPlaced, There, Entering, Removing
<1>6. WriterFits'
  BY <1>0, <1>1, <1>2 DEF WriterFits, There, Waiting, Orphan, Counters
<1>7. FlagKept'
  BY <1>0, <1>1, <1>2 DEF FlagKept, There, Raising, Counters, Orphan, Waiting
<1>8. DiskFollows'
  BY <1>0, <1>1, <1>2 DEF DiskFollows, There, Entering
<1>9. Counted'
  BY <1>0, <1>1, <1>2, <1>3, <1>4 DEF Counted, There, Entering
<1>10. ArchiveGrows'
  BY <1>0, <1>1, <1>2 DEF ArchiveGrows, There
<1>11. LimitKept'
  BY <1>0, <1>1, <1>2, <1>3, <1>4 DEF LimitKept, There
<1>12. RecordGone'
  BY <1>0, <1>1, <1>2 DEF RecordGone
<1>13. OneStops'
  BY <1>0, <1>1, <1>2 DEF OneStops
<1>14. QED BY <1>5, <1>6, <1>7, <1>8, <1>9, <1>10, <1>11, <1>12, <1>13 DEF CsRest

\* It reads the last snapshot.
LEMMA CsTenOffKeeps == ASSUME CsInv, CsTypes', NEW w \in CsWorkers, CsTenOff(w) PROVE CsRest'
<1> USE CsNumbers
<1>0. CsTypes /\ CsPlaced /\ WriterFits /\ FlagKept /\ DiskFollows /\ Counted /\ ArchiveGrows /\ LimitKept
      /\ RecordGone /\ OneStops
  BY DEF CsInv
<1>1. /\ \A v \in CsWorkers \ {w} : csw'[v] = csw[v]
      /\ csw[w].pc = "off" /\ csn'.calls = csn.calls
      /\ \/ /\ csw'[w].pc = "tstore" /\ csw'[w].off = CsLast /\ csw'[w].ten = csw[w].ten
            /\ csw'[w].fn = csw[w].fn /\ csw'[w].op = csw[w].op /\ csw'[w].old = csw[w].old
         \/ csw'[w].pc = "idle" /\ ~csw'[w].old
  <2>1. /\ csw[w] \in CswRec /\ csw \in [CsWorkers -> CswRec]
        /\ csn \in [calls : Count, faults : Nat, restarts : Nat]
    BY <1>0 DEF CsTypes
  <2>2. QED BY <1>0, <2>1, FaultIsNoCall DEF CsTenOff, CsEnds, CsGoes, CsIdle, There, CswRec
<1>2. UNCHANGED <<csdb, csm, csoff, cswriter, csarch, cssnap, csfnarch, csgone, csghost>> /\ CsLast' = CsLast
  BY DEF CsTenOff, CsEnds, CsGoes, CsLast
<1>3. /\ nServing \in Nat /\ nUncounted \in Nat /\ Cardinality(CsWorkers) \in Nat
      /\ nUncounted <= Cardinality(CsWorkers) /\ nUncounted' <= Cardinality(CsWorkers)
      /\ nServing' = nServing /\ nUncounted' = nUncounted
  BY <1>0, <1>1, <1>2, GroupsMove
<1>4. Unwritten \in Nat /\ Unwritten' = Unwritten
  BY <1>0, <1>1, <1>2, UnwrittenIsNat DEF There, Unwritten, Orphan, Waiting
<1>5. CsPlaced'
  BY <1>0, <1>1, <1>2 DEF CsPlaced, There, Entering, Removing
<1>6. WriterFits'
  BY <1>0, <1>1, <1>2 DEF WriterFits, There, Waiting, Orphan, Counters
<1>7. FlagKept'
  BY <1>0, <1>1, <1>2 DEF FlagKept, There, Raising, Counters, Orphan, Waiting
<1>8. DiskFollows'
  BY <1>0, <1>1, <1>2 DEF DiskFollows, There, Entering
<1>9. Counted'
  BY <1>0, <1>1, <1>2, <1>3, <1>4 DEF Counted, There, Entering
<1>10. ArchiveGrows'
  <2>1. \A v \in CsWorkers : csw'[v].pc = "tstore" => csw'[v].off <= CsLast
    BY <1>0, <1>1, SMTT(30) DEF ArchiveGrows
  <2>2. QED BY <1>0, <1>1, <1>2, <2>1 DEF ArchiveGrows, There
<1>11. LimitKept'
  BY <1>0, <1>1, <1>2, <1>3 DEF LimitKept, DiskFollows, There
<1>12. RecordGone'
  BY <1>0, <1>1, <1>2 DEF RecordGone
<1>13. OneStops'
  BY <1>0, <1>1, <1>2 DEF OneStops
<1>14. QED BY <1>5, <1>6, <1>7, <1>8, <1>9, <1>10, <1>11, <1>12, <1>13 DEF CsRest

\* A call is refused, fails or is served.
LEMMA CsCallKeeps == ASSUME CsInv, CsTypes', NEW w \in CsWorkers, CsCall(w) PROVE CsRest'
<1> USE CsNumbers
<1>0. CsTypes /\ CsPlaced /\ WriterFits /\ FlagKept /\ DiskFollows /\ Counted /\ ArchiveGrows /\ LimitKept
      /\ RecordGone /\ OneStops
  BY DEF CsInv
<1>1. /\ \A v \in CsWorkers \ {w} : csw'[v] = csw[v]
      /\ csw[w].pc = "have" /\ csw[w].op = "call"
      /\ \/ /\ csw'[w].pc = "run" /\ csw'[w].op = csw[w].op /\ csw'[w].old = csw[w].old
            /\ csn'.calls = csn.calls + 1 /\ ~CsLimited
         \/ csw'[w].pc = "idle" /\ ~csw'[w].old /\ csn' = csn
  <2>1. /\ csw[w] \in CswRec /\ csw \in [CsWorkers -> CswRec]
        /\ csn \in [calls : Count, faults : Nat, restarts : Nat]
    BY <1>0 DEF CsTypes
  <2>2. QED BY <1>0, <2>1, FaultIsNoCall DEF CsCall, CsEnds, CsGoes, CsIdle, There, CswRec
<1>2. UNCHANGED <<csdb, csm, csoff, cswriter, csarch, cssnap, csfnarch, csgone, csghost>> /\ CsLast' = CsLast
  BY DEF CsCall, CsEnds, CsGoes, CsLast
<1>3. /\ nServing \in Nat /\ nUncounted \in Nat /\ Cardinality(CsWorkers) \in Nat
      /\ nUncounted <= Cardinality(CsWorkers) /\ nUncounted' <= Cardinality(CsWorkers)
      /\ \/ /\ csn'.calls = csn.calls + 1 /\ nServing' = nServing + 1 /\ nUncounted' = nUncounted + 1
            /\ ~CsLimited
         \/ csn'.calls = csn.calls /\ nServing' = nServing /\ nUncounted' = nUncounted
  BY <1>0, <1>1, <1>2, GroupsMove
<1>4. Unwritten \in Nat /\ Unwritten' = Unwritten
  BY <1>0, <1>1, <1>2, UnwrittenIsNat DEF There, Unwritten, Orphan, Waiting
<1>5. CsPlaced'
  BY <1>0, <1>1, <1>2 DEF CsPlaced, There, Entering, Removing
<1>6. WriterFits'
  BY <1>0, <1>1, <1>2 DEF WriterFits, There, Waiting, Orphan, Counters
<1>7. FlagKept'
  BY <1>0, <1>1, <1>2 DEF FlagKept, There, Raising, Counters, Orphan, Waiting
<1>8. DiskFollows'
  BY <1>0, <1>1, <1>2 DEF DiskFollows, There, Entering
<1>9. Counted'
  BY <1>0, <1>1, <1>2, <1>3, <1>4 DEF Counted, There, Entering
<1>10. ArchiveGrows'
  BY <1>0, <1>1, <1>2 DEF ArchiveGrows, There
<1>11. LimitKept'
  BY <1>0, <1>1, <1>2, <1>3 DEF LimitKept, CsLimited, CsPlaced, There
<1>12. RecordGone'
  BY <1>0, <1>1, <1>2 DEF RecordGone
<1>13. OneStops'
  BY <1>0, <1>1, <1>2 DEF OneStops
<1>14. QED BY <1>5, <1>6, <1>7, <1>8, <1>9, <1>10, <1>11, <1>12, <1>13 DEF CsRest

\* A removal sees whether the flusher has ended.
LEMMA CsClosedKeeps == ASSUME CsInv, CsTypes', NEW w \in CsWorkers, CsClosed(w) PROVE CsRest'
<1> USE CsNumbers
<1>0. CsTypes /\ CsPlaced /\ WriterFits /\ FlagKept /\ DiskFollows /\ Counted /\ ArchiveGrows /\ LimitKept
      /\ RecordGone /\ OneStops
  BY DEF CsInv
<1>1. /\ \A v \in CsWorkers \ {w} : csw'[v] = csw[v]
      /\ csw[w].pc = "have" /\ csw[w].op = "drop" /\ csw'[w].op = "drop"
      /\ csw'[w].pc = IF csw[w].old \/ csm["fn"].fl = "closed" THEN "arch" ELSE "send"
      /\ csw'[w].old = csw[w].old
  <2>1. /\ csw[w] \in CswRec /\ csw \in [CsWorkers -> CswRec]
        /\ csn \in [calls : Count, faults : Nat, restarts : Nat]
    BY <1>0 DEF CsTypes
  <2>2. QED BY <1>0, <2>1, FaultIsNoCall DEF CsClosed, CsEnds, CsGoes, CsIdle, There, CswRec
<1>2. UNCHANGED <<csdb, csm, csoff, cswriter, csarch, cssnap, csfnarch, csgone, csn, csghost>> /\ CsLast' = CsLast
  BY DEF CsClosed, CsEnds, CsGoes, CsLast
<1>3. /\ nServing \in Nat /\ nUncounted \in Nat /\ Cardinality(CsWorkers) \in Nat
      /\ nUncounted <= Cardinality(CsWorkers) /\ nUncounted' <= Cardinality(CsWorkers)
      /\ nServing' = nServing /\ nUncounted' = nUncounted
  BY <1>0, <1>1, <1>2, GroupsMove
<1>4. Unwritten \in Nat /\ Unwritten' = Unwritten
  BY <1>0, <1>1, <1>2, UnwrittenIsNat DEF There, Unwritten, Orphan, Waiting
<1>5. CsPlaced'
  BY <1>0, <1>1, <1>2 DEF CsPlaced, There, Entering, Removing
<1>6. WriterFits'
  BY <1>0, <1>1, <1>2 DEF WriterFits, There, Waiting, Orphan, Counters
<1>7. FlagKept'
  BY <1>0, <1>1, <1>2 DEF FlagKept, There, Raising, Counters, Orphan, Waiting
<1>8. DiskFollows'
  BY <1>0, <1>1, <1>2 DEF DiskFollows, There, Entering
<1>9. Counted'
  BY <1>0, <1>1, <1>2, <1>3, <1>4 DEF Counted, There, Entering
<1>10. ArchiveGrows'
  BY <1>0, <1>1, <1>2 DEF ArchiveGrows, There
<1>11. LimitKept'
  BY <1>0, <1>1, <1>2, <1>3, <1>4 DEF LimitKept, There
<1>12. RecordGone'
  BY <1>0, <1>1, <1>2 DEF RecordGone
<1>13. OneStops'
  BY <1>0, <1>1, <1>2 DEF OneStops
<1>14. QED BY <1>5, <1>6, <1>7, <1>8, <1>9, <1>10, <1>11, <1>12, <1>13 DEF CsRest

\* It archives the function's counter.
LEMMA CsDropArchKeeps == ASSUME CsInv, CsTypes', NEW w \in CsWorkers, CsDropArch(w) PROVE CsRest'
<1> USE CsNumbers
<1>0. CsTypes /\ CsPlaced /\ WriterFits /\ FlagKept /\ DiskFollows /\ Counted /\ ArchiveGrows /\ LimitKept
      /\ RecordGone /\ OneStops
  BY DEF CsInv
<1>1. /\ \A v \in CsWorkers \ {w} : csw'[v] = csw[v]
      /\ csw[w].pc = "arch" /\ csn'.calls = csn.calls
      /\ \/ csw'[w].pc = "remove" /\ csw'[w].op = csw[w].op /\ csw'[w].old = csw[w].old
         \/ csw'[w].pc = "idle" /\ ~csw'[w].old
  <2>1. csw[w] \in CswRec /\ csw \in [CsWorkers -> CswRec]
    BY <1>0 DEF CsTypes
  <2>2. csw[w].pc = "arch" /\ (CsGoes(w, "remove") \/ CsEnds(w)) /\ (csn' = csn \/ CsFault)
    BY DEF CsDropArch
  <2>3. csn'.calls = csn.calls
    BY <1>0, <2>2, FaultIsNoCall
  <2>4. QED BY <2>1, <2>2, <2>3 DEF CsEnds, CsGoes, CsIdle, CswRec
<1>2. UNCHANGED <<csdb, csm, csoff, cswriter, csarch, cssnap, csgone, csghost>> /\ CsLast' = CsLast
  BY DEF CsDropArch, CsEnds, CsGoes, CsLast
<1>3. /\ nServing \in Nat /\ nUncounted \in Nat /\ Cardinality(CsWorkers) \in Nat
      /\ nUncounted <= Cardinality(CsWorkers) /\ nUncounted' <= Cardinality(CsWorkers)
      /\ nServing' = nServing /\ nUncounted' = nUncounted
  BY <1>0, <1>1, <1>2, GroupsMove
<1>4. Unwritten \in Nat /\ Unwritten' = Unwritten
  BY <1>0, <1>1, <1>2, UnwrittenIsNat DEF There, Unwritten, Orphan, Waiting
<1>5. CsPlaced'
  BY <1>0, <1>1, <1>2 DEF CsPlaced, There, Entering, Removing
<1>6. WriterFits'
  BY <1>0, <1>1, <1>2 DEF WriterFits, There, Waiting, Orphan, Counters
<1>7. FlagKept'
  BY <1>0, <1>1, <1>2 DEF FlagKept, There, Raising, Counters, Orphan, Waiting
<1>8. DiskFollows'
  BY <1>0, <1>1, <1>2 DEF DiskFollows, There, Entering
<1>9. Counted'
  BY <1>0, <1>1, <1>2, <1>3, <1>4 DEF Counted, There, Entering
<1>10. ArchiveGrows'
  BY <1>0, <1>1, <1>2 DEF ArchiveGrows, There
<1>11. LimitKept'
  BY <1>0, <1>1, <1>2, <1>3, <1>4 DEF LimitKept, There
<1>12. RecordGone'
  BY <1>0, <1>1, <1>2 DEF RecordGone
<1>13. OneStops'
  BY <1>0, <1>1, <1>2 DEF OneStops
<1>14. QED BY <1>5, <1>6, <1>7, <1>8, <1>9, <1>10, <1>11, <1>12, <1>13 DEF CsRest

\* A request makes the tenant's data, unless they are there.
LEMMA CsTenStoreKeeps == ASSUME CsInv, CsTypes', NEW w \in CsWorkers, CsTenStore(w) PROVE CsRest'
<1> USE CsNumbers
<1>0. CsTypes /\ CsPlaced /\ WriterFits /\ FlagKept /\ DiskFollows /\ Counted /\ ArchiveGrows /\ LimitKept
      /\ RecordGone /\ OneStops
  BY DEF CsInv
<1>1. /\ \A v \in CsWorkers \ {w} : csw'[v] = csw[v]
      /\ csw[w].pc = "tstore"
      /\ csw'[w].pc = "fstore" /\ csw'[w].fn = csw[w].fn /\ csw'[w].op = csw[w].op /\ csw'[w].old = csw[w].old
      /\ csm'["fn"] = csm["fn"]
      /\ \/ There("ten") /\ csm'["ten"] = csm["ten"] /\ csoff' = csoff
         \/ /\ ~There("ten") /\ There("ten")' /\ csoff' = csw[w].off
            /\ csm'["ten"].mem = csw[w].ten /\ csm'["ten"].disk = csw[w].ten
            /\ csm'["ten"].fl = "sleep"
  <2>1. /\ csw[w] \in CswRec /\ csw \in [CsWorkers -> CswRec]
        /\ csm \in [Counters -> CsData \cup {NotThere}] /\ "fn" \in Counters /\ "ten" \in Counters
        /\ csdb \in [Counters -> Count]
        /\ csghost \in [over : BOOLEAN, late : BOOLEAN, lost : [Counters -> BOOLEAN]]
    BY <1>0 DEF CsTypes, Counters
  <2>2. csw[w].ten \in Count /\ CsFresh(csw[w].ten) \in CsData
    BY <2>1, CsRecords DEF CswRec
  <2>3. QED BY <1>0, <2>1, <2>2, CsRecords DEF CsTenStore, CsGoes, CswRec, There, CsFresh
<1>2. UNCHANGED <<csdb, cswriter, csarch, cssnap, csfnarch, csgone, csn, csghost>> /\ CsLast' = CsLast
  BY DEF CsTenStore, CsEnds, CsGoes, CsLast
<1>3. /\ nServing \in Nat /\ nUncounted \in Nat /\ Cardinality(CsWorkers) \in Nat
      /\ nUncounted <= Cardinality(CsWorkers) /\ nUncounted' <= Cardinality(CsWorkers)
      /\ nServing' = nServing /\ nUncounted' = nUncounted
  BY <1>0, <1>1, <1>2, GroupsMove
<1>4. Unwritten \in Nat /\ Unwritten' = Unwritten
  BY <1>0, <1>1, <1>2, UnwrittenIsNat DEF There, Unwritten, Orphan, Waiting
<1>5. CsPlaced'
  BY <1>0, <1>1, <1>2 DEF CsPlaced, There, Entering, Removing
<1>6. WriterFits'
  BY <1>0, <1>1, <1>2 DEF WriterFits, There, Waiting, Orphan, Counters
<1>7. FlagKept'
  BY <1>0, <1>1, <1>2 DEF FlagKept, There, Raising, Counters, Orphan, Waiting
<1>8. DiskFollows'
  BY <1>0, <1>1, <1>2 DEF DiskFollows, There, Entering
<1>9. Counted'
  BY <1>0, <1>1, <1>2, <1>3, <1>4, NoneUncounted DEF Counted, DiskFollows, There, Entering
<1>10. ArchiveGrows'
  BY <1>0, <1>1, <1>2 DEF ArchiveGrows, There
<1>11. LimitKept'
  BY <1>0, <1>1, <1>2, <1>3, NoneUncounted DEF LimitKept, There
<1>12. RecordGone'
  BY <1>0, <1>1, <1>2 DEF RecordGone
<1>13. OneStops'
  BY <1>0, <1>1, <1>2 DEF OneStops
<1>14. QED BY <1>5, <1>6, <1>7, <1>8, <1>9, <1>10, <1>11, <1>12, <1>13 DEF CsRest

\* It makes the function's data, unless they are there.
LEMMA CsFnStoreKeeps == ASSUME CsInv, CsTypes', NEW w \in CsWorkers, CsFnStore(w) PROVE CsRest'
<1> USE CsNumbers
<1>0. CsTypes /\ CsPlaced /\ WriterFits /\ FlagKept /\ DiskFollows /\ Counted /\ ArchiveGrows /\ LimitKept
      /\ RecordGone /\ OneStops
  BY DEF CsInv
<1>1. /\ \A v \in CsWorkers \ {w} : csw'[v] = csw[v]
      /\ csw[w].pc = "fstore" /\ csw'[w].pc = "have" /\ csw'[w].op = csw[w].op /\ ~csw'[w].old
      /\ csm'["ten"] = csm["ten"] /\ csghost'.over = csghost.over /\ csghost'.lost = csghost.lost
      /\ \/ There("fn") /\ csm'["fn"] = csm["fn"] /\ csghost'.late = csghost.late
         \/ /\ ~There("fn") /\ There("fn")' /\ csghost'.late = (csghost.late \/ csgone)
            /\ csm'["fn"].mem = csw[w].fn /\ csm'["fn"].disk = csw[w].fn
            /\ csm'["fn"].fl = "sleep"
  <2>1. /\ csw[w] \in CswRec /\ csw \in [CsWorkers -> CswRec]
        /\ csm \in [Counters -> CsData \cup {NotThere}] /\ "fn" \in Counters /\ "ten" \in Counters
        /\ csdb \in [Counters -> Count]
        /\ csghost \in [over : BOOLEAN, late : BOOLEAN, lost : [Counters -> BOOLEAN]]
    BY <1>0 DEF CsTypes, Counters
  <2>2. csw[w].fn \in Count /\ CsFresh(csw[w].fn) \in CsData
    BY <2>1, CsRecords DEF CswRec
  <2>3. QED BY <1>0, <2>1, <2>2, CsRecords DEF CsFnStore, CswRec, CsIdle, There, CsFresh
<1>2. UNCHANGED <<csdb, csoff, cswriter, csarch, cssnap, csfnarch, csgone, csn>> /\ CsLast' = CsLast
  BY DEF CsFnStore, CsEnds, CsGoes, CsLast
<1>3. /\ nServing \in Nat /\ nUncounted \in Nat /\ Cardinality(CsWorkers) \in Nat
      /\ nUncounted <= Cardinality(CsWorkers) /\ nUncounted' <= Cardinality(CsWorkers)
      /\ nServing' = nServing /\ nUncounted' = nUncounted
  BY <1>0, <1>1, <1>2, GroupsMove
<1>4. Unwritten \in Nat /\ Unwritten' = Unwritten
  BY <1>0, <1>1, <1>2, UnwrittenIsNat DEF There, Unwritten, Orphan, Waiting
<1>5. CsPlaced'
  BY <1>0, <1>1, <1>2 DEF CsPlaced, There, Entering, Removing
<1>6. WriterFits'
  <2>1. Waiting("ten")' <=> Waiting("ten")
    BY <1>1 DEF Waiting, There
  <2>2. Waiting("fn")' <=> Waiting("fn")
    BY <1>1 DEF Waiting, There
  <2>3. Orphan' <=> Orphan
    BY <1>2, <2>2 DEF Orphan
  <2>4. Orphan => csghost'.late
    BY <1>0, <1>1 DEF WriterFits
  <2>5. QED BY <1>0, <1>1, <1>2, <2>1, <2>2, <2>3, <2>4 DEF WriterFits, Waiting, There, Counters
<1>7. FlagKept'
  BY <1>0, <1>1, <1>2 DEF FlagKept, There, Raising, Counters, Orphan, Waiting
<1>8. DiskFollows'
  BY <1>0, <1>1, <1>2 DEF DiskFollows, There, Entering
<1>9. Counted'
  BY <1>0, <1>1, <1>2, <1>3, <1>4 DEF Counted, There, Entering
<1>10. ArchiveGrows'
  BY <1>0, <1>1, <1>2 DEF ArchiveGrows, There
<1>11. LimitKept'
  BY <1>0, <1>1, <1>2, <1>3, <1>4 DEF LimitKept, There
<1>12. RecordGone'
  BY <1>0, <1>1, <1>2 DEF RecordGone
<1>13. OneStops'
  BY <1>0, <1>1, <1>2 DEF OneStops
<1>14. QED BY <1>5, <1>6, <1>7, <1>8, <1>9, <1>10, <1>11, <1>12, <1>13 DEF CsRest

\* A call is counted by the function.
LEMMA CsCountKeeps == ASSUME CsInv, CsTypes', NEW w \in CsWorkers, CsCount(w) PROVE CsRest'
<1> USE CsNumbers
<1>0. CsTypes /\ CsPlaced /\ WriterFits /\ FlagKept /\ DiskFollows /\ Counted /\ ArchiveGrows /\ LimitKept
      /\ RecordGone /\ OneStops
  BY DEF CsInv
<1>1. /\ \A v \in CsWorkers \ {w} : csw'[v] = csw[v]
      /\ csw[w].pc = "run" /\ csw'[w].pc = "dirty" /\ csw'[w].op = csw[w].op /\ csw'[w].old = csw[w].old
      /\ csm'["ten"] = csm["ten"]
      /\ \/ csw[w].old /\ csm'["fn"] = csm["fn"]
         \/ /\ ~csw[w].old /\ There("fn") /\ There("fn")'
            /\ csm'["fn"].mem = csm["fn"].mem + 1 /\ csm'["fn"].disk = csm["fn"].disk
            /\ csm'["fn"].dirty = csm["fn"].dirty /\ csm'["fn"].fl = csm["fn"].fl
  <2>1. /\ csw[w] \in CswRec /\ csw \in [CsWorkers -> CswRec]
        /\ csm \in [Counters -> CsData \cup {NotThere}] /\ "fn" \in Counters /\ "ten" \in Counters
        /\ csdb \in [Counters -> Count]
        /\ csghost \in [over : BOOLEAN, late : BOOLEAN, lost : [Counters -> BOOLEAN]]
    BY <1>0 DEF CsTypes, Counters
  <2>2. ~csw[w].old => There("fn") /\ csm["fn"] \in CsData
    BY <1>0, <2>1 DEF CsCount, CsPlaced, Entering, There
  <2>3. There("fn") /\ ~csw[w].old => /\ csm'["fn"] = [csm["fn"] EXCEPT !.mem = @ + 1]
                                     /\ csm'["fn"] # NotThere
    <3>1. There("fn") => csm["fn"].mem + 1 \in Count
      BY <1>0, RoomToCount DEF CsCount
    <3>2. QED BY <2>1, <2>2, <3>1, CsRecords, DataEdits DEF CsCount
  <2>4. QED BY <2>1, <2>2, <2>3 DEF CsCount, CsGoes, CswRec, CsData, There
<1>2. UNCHANGED <<csdb, csoff, cswriter, csarch, cssnap, csfnarch, csgone, csn, csghost>> /\ CsLast' = CsLast
  BY DEF CsCount, CsEnds, CsGoes, CsLast
<1>3. /\ nServing \in Nat /\ nUncounted \in Nat /\ Cardinality(CsWorkers) \in Nat
      /\ nUncounted <= Cardinality(CsWorkers) /\ nUncounted' <= Cardinality(CsWorkers)
      /\ nServing' = nServing - 1 /\ nUncounted' = nUncounted
  BY <1>0, <1>1, <1>2, GroupsMove
<1>4. Unwritten \in Nat
  BY <1>0, UnwrittenIsNat
<1>5. Unwritten' \in {Unwritten, Unwritten + 1}
  BY <1>0, <1>1, <1>2 DEF Unwritten, Orphan, Waiting, There
<1>6. CsPlaced'
  BY <1>0, <1>1, <1>2 DEF CsPlaced, There, Entering, Removing
<1>7. WriterFits'
  BY <1>0, <1>1, <1>2 DEF WriterFits, There, Waiting, Orphan, Counters
<1>8. FlagKept'
  BY <1>0, <1>1, <1>2 DEF FlagKept, There, Raising, Counters, Orphan, Waiting
<1>9. DiskFollows'
  BY <1>0, <1>1, <1>2 DEF DiskFollows, There, Entering
<1>10. Counted'
  BY <1>0, <1>1, <1>2, <1>3, <1>4, <1>5 DEF Counted, There, Entering
<1>11. ArchiveGrows'
  BY <1>0, <1>1, <1>2 DEF ArchiveGrows, There
<1>12. LimitKept'
  BY <1>0, <1>1, <1>2, <1>3, <1>4 DEF LimitKept, There
<1>13. RecordGone'
  BY <1>0, <1>1, <1>2 DEF RecordGone
<1>14. OneStops'
  BY <1>0, <1>1, <1>2 DEF OneStops
<1>15. QED BY <1>6, <1>7, <1>8, <1>9, <1>10, <1>11, <1>12, <1>13, <1>14 DEF CsRest

\* The flag of the function's counter is raised.
LEMMA CsDirtyKeeps == ASSUME CsInv, CsTypes', NEW w \in CsWorkers, CsDirty(w) PROVE CsRest'
<1> USE CsNumbers
<1>0. CsTypes /\ CsPlaced /\ WriterFits /\ FlagKept /\ DiskFollows /\ Counted /\ ArchiveGrows /\ LimitKept
      /\ RecordGone /\ OneStops
  BY DEF CsInv
<1>1. /\ \A v \in CsWorkers \ {w} : csw'[v] = csw[v]
      /\ csw[w].pc = "dirty" /\ csw'[w].pc = "tcount"
      /\ csw'[w].op = csw[w].op /\ csw'[w].old = csw[w].old
      /\ csm'["ten"] = csm["ten"]
      /\ \/ csw[w].old /\ csm'["fn"] = csm["fn"]
         \/ /\ ~csw[w].old /\ There("fn") /\ There("fn")'
            /\ csm'["fn"].dirty = TRUE
            /\ csm'["fn"].mem = csm["fn"].mem /\ csm'["fn"].disk = csm["fn"].disk /\ csm'["fn"].fl = csm["fn"].fl
  <2>1. /\ csw[w] \in CswRec /\ csw \in [CsWorkers -> CswRec]
        /\ csm \in [Counters -> CsData \cup {NotThere}] /\ "fn" \in Counters /\ "ten" \in Counters
        /\ csdb \in [Counters -> Count]
        /\ csghost \in [over : BOOLEAN, late : BOOLEAN, lost : [Counters -> BOOLEAN]]
    BY <1>0 DEF CsTypes, Counters
  <2>2. ~csw[w].old => There("fn") /\ csm["fn"] \in CsData
    BY <1>0, <2>1 DEF CsDirty, CsPlaced, Entering, Removing, There
  <2>3. ~csw[w].old => csm'["fn"] = [csm["fn"] EXCEPT !.dirty = TRUE] /\ csm'["fn"] # NotThere
    BY <1>0, <2>1, <2>2, RoomToCount, CsRecords, DataEdits DEF CsDirty
  <2>4. QED BY <2>1, <2>2, <2>3 DEF CsDirty, CsGoes, CsEnds, CsIdle, CswRec, CsData, There
<1>2. UNCHANGED <<csdb, csoff, cswriter, csarch, cssnap, csfnarch, csgone, csn, csghost>> /\ CsLast' = CsLast
  BY DEF CsDirty, CsEnds, CsGoes, CsLast
<1>3. /\ nServing \in Nat /\ nUncounted \in Nat /\ Cardinality(CsWorkers) \in Nat
      /\ nUncounted <= Cardinality(CsWorkers) /\ nUncounted' <= Cardinality(CsWorkers)
      /\ nServing' = nServing /\ nUncounted' = nUncounted
  BY <1>0, <1>1, <1>2, GroupsMove
<1>4. Unwritten \in Nat /\ Unwritten' = Unwritten
  BY <1>0, <1>1, <1>2, UnwrittenIsNat DEF There, Unwritten, Orphan, Waiting
<1>5. CsPlaced'
  BY <1>0, <1>1, <1>2 DEF CsPlaced, There, Entering, Removing
<1>6. WriterFits'
  BY <1>0, <1>1, <1>2 DEF WriterFits, There, Waiting, Orphan, Counters
<1>7. FlagKept'
  BY <1>0, <1>1, <1>2 DEF FlagKept, There, Raising, Counters, Orphan, Waiting
<1>8. DiskFollows'
  BY <1>0, <1>1, <1>2 DEF DiskFollows, There, Entering
<1>9. Counted'
  BY <1>0, <1>1, <1>2, <1>3, <1>4 DEF Counted, There, Entering
<1>10. ArchiveGrows'
  BY <1>0, <1>1, <1>2 DEF ArchiveGrows, There
<1>11. LimitKept'
  BY <1>0, <1>1, <1>2, <1>3, <1>4 DEF LimitKept, There
<1>12. RecordGone'
  BY <1>0, <1>1, <1>2 DEF RecordGone
<1>13. OneStops'
  BY <1>0, <1>1, <1>2 DEF OneStops
<1>14. QED BY <1>5, <1>6, <1>7, <1>8, <1>9, <1>10, <1>11, <1>12, <1>13 DEF CsRest

\* A call is counted by the tenant.
LEMMA CsTenCountKeeps == ASSUME CsInv, CsTypes', NEW w \in CsWorkers, CsTenCount(w) PROVE CsRest'
<1> USE CsNumbers
<1>0. CsTypes /\ CsPlaced /\ WriterFits /\ FlagKept /\ DiskFollows /\ Counted /\ ArchiveGrows /\ LimitKept
      /\ RecordGone /\ OneStops
  BY DEF CsInv
<1>1. /\ \A v \in CsWorkers \ {w} : csw'[v] = csw[v]
      /\ csw[w].pc = "tcount" /\ csw'[w].pc = "tdirty"
      /\ csw'[w].op = csw[w].op /\ csw'[w].old = csw[w].old
      /\ csm'["fn"] = csm["fn"]
      /\ There("ten") /\ There("ten")'
      /\ csm'["ten"].mem = csm["ten"].mem + 1
      /\ csm'["ten"].disk = csm["ten"].disk /\ csm'["ten"].dirty = csm["ten"].dirty /\ csm'["ten"].fl = csm["ten"].fl
  <2>1. /\ csw[w] \in CswRec /\ csw \in [CsWorkers -> CswRec]
        /\ csm \in [Counters -> CsData \cup {NotThere}] /\ "fn" \in Counters /\ "ten" \in Counters
        /\ csdb \in [Counters -> Count]
        /\ csghost \in [over : BOOLEAN, late : BOOLEAN, lost : [Counters -> BOOLEAN]]
    BY <1>0 DEF CsTypes, Counters
  <2>2. There("ten") /\ csm["ten"] \in CsData
    BY <1>0, <2>1 DEF CsTenCount, CsPlaced, Entering, Removing, There
  <2>3. csm'["ten"] = [csm["ten"] EXCEPT !.mem = @ + 1] /\ csm'["ten"] # NotThere
    BY <1>0, <2>1, <2>2, RoomToCount, CsRecords, DataEdits DEF CsTenCount
  <2>4. QED BY <2>1, <2>2, <2>3 DEF CsTenCount, CsGoes, CsEnds, CsIdle, CswRec, CsData, There
<1>2. UNCHANGED <<csdb, csoff, cswriter, csarch, cssnap, csfnarch, csgone, csn, csghost>> /\ CsLast' = CsLast
  BY DEF CsTenCount, CsEnds, CsGoes, CsLast
<1>3. /\ nServing \in Nat /\ nUncounted \in Nat /\ Cardinality(CsWorkers) \in Nat
      /\ nUncounted <= Cardinality(CsWorkers) /\ nUncounted' <= Cardinality(CsWorkers)
      /\ nServing' = nServing /\ nUncounted' = nUncounted - 1
  BY <1>0, <1>1, <1>2, GroupsMove
<1>4. Unwritten \in Nat /\ Unwritten' = Unwritten
  BY <1>0, <1>1, <1>2, UnwrittenIsNat DEF There, Unwritten, Orphan, Waiting
<1>5. CsPlaced'
  BY <1>0, <1>1, <1>2 DEF CsPlaced, There, Entering, Removing
<1>6. WriterFits'
  BY <1>0, <1>1, <1>2 DEF WriterFits, There, Waiting, Orphan, Counters
<1>7. FlagKept'
  BY <1>0, <1>1, <1>2 DEF FlagKept, There, Raising, Counters, Orphan, Waiting
<1>8. DiskFollows'
  BY <1>0, <1>1, <1>2 DEF DiskFollows, There, Entering
<1>9. Counted'
  BY <1>0, <1>1, <1>2, <1>3, <1>4 DEF Counted, There, Entering
<1>10. ArchiveGrows'
  BY <1>0, <1>1, <1>2 DEF ArchiveGrows, There
<1>11. LimitKept'
  BY <1>0, <1>1, <1>2, <1>3, <1>4 DEF LimitKept, There
<1>12. RecordGone'
  BY <1>0, <1>1, <1>2 DEF RecordGone
<1>13. OneStops'
  BY <1>0, <1>1, <1>2 DEF OneStops
<1>14. QED BY <1>5, <1>6, <1>7, <1>8, <1>9, <1>10, <1>11, <1>12, <1>13 DEF CsRest

\* The flag of the tenant's counter is raised.
LEMMA CsTenDirtyKeeps == ASSUME CsInv, CsTypes', NEW w \in CsWorkers, CsTenDirty(w) PROVE CsRest'
<1> USE CsNumbers
<1>0. CsTypes /\ CsPlaced /\ WriterFits /\ FlagKept /\ DiskFollows /\ Counted /\ ArchiveGrows /\ LimitKept
      /\ RecordGone /\ OneStops
  BY DEF CsInv
<1>1. /\ \A v \in CsWorkers \ {w} : csw'[v] = csw[v]
      /\ csw[w].pc = "tdirty" /\ csw'[w].pc = "idle"
      /\ ~csw'[w].old
      /\ csm'["fn"] = csm["fn"]
      /\ There("ten") /\ There("ten")'
      /\ csm'["ten"].dirty = TRUE
      /\ csm'["ten"].mem = csm["ten"].mem /\ csm'["ten"].disk = csm["ten"].disk /\ csm'["ten"].fl = csm["ten"].fl
  <2>1. /\ csw[w] \in CswRec /\ csw \in [CsWorkers -> CswRec]
        /\ csm \in [Counters -> CsData \cup {NotThere}] /\ "fn" \in Counters /\ "ten" \in Counters
        /\ csdb \in [Counters -> Count]
        /\ csghost \in [over : BOOLEAN, late : BOOLEAN, lost : [Counters -> BOOLEAN]]
    BY <1>0 DEF CsTypes, Counters
  <2>2. There("ten") /\ csm["ten"] \in CsData
    BY <1>0, <2>1 DEF CsTenDirty, CsPlaced, Entering, Removing, There
  <2>3. csm'["ten"] = [csm["ten"] EXCEPT !.dirty = TRUE] /\ csm'["ten"] # NotThere
    BY <1>0, <2>1, <2>2, RoomToCount, CsRecords, DataEdits DEF CsTenDirty
  <2>4. QED BY <2>1, <2>2, <2>3 DEF CsTenDirty, CsGoes, CsEnds, CsIdle, CswRec, CsData, There
<1>2. UNCHANGED <<csdb, csoff, cswriter, csarch, cssnap, csfnarch, csgone, csn, csghost>> /\ CsLast' = CsLast
  BY DEF CsTenDirty, CsEnds, CsGoes, CsLast
<1>3. /\ nServing \in Nat /\ nUncounted \in Nat /\ Cardinality(CsWorkers) \in Nat
      /\ nUncounted <= Cardinality(CsWorkers) /\ nUncounted' <= Cardinality(CsWorkers)
      /\ nServing' = nServing /\ nUncounted' = nUncounted
  BY <1>0, <1>1, <1>2, GroupsMove
<1>4. Unwritten \in Nat /\ Unwritten' = Unwritten
  BY <1>0, <1>1, <1>2, UnwrittenIsNat DEF There, Unwritten, Orphan, Waiting
<1>5. CsPlaced'
  BY <1>0, <1>1, <1>2 DEF CsPlaced, There, Entering, Removing
<1>6. WriterFits'
  BY <1>0, <1>1, <1>2 DEF WriterFits, There, Waiting, Orphan, Counters
<1>7. FlagKept'
  BY <1>0, <1>1, <1>2 DEF FlagKept, There, Raising, Counters, Orphan, Waiting
<1>8. DiskFollows'
  BY <1>0, <1>1, <1>2 DEF DiskFollows, There, Entering
<1>9. Counted'
  BY <1>0, <1>1, <1>2, <1>3, <1>4 DEF Counted, There, Entering
<1>10. ArchiveGrows'
  BY <1>0, <1>1, <1>2 DEF ArchiveGrows, There
<1>11. LimitKept'
  BY <1>0, <1>1, <1>2, <1>3, <1>4 DEF LimitKept, There
<1>12. RecordGone'
  BY <1>0, <1>1, <1>2 DEF RecordGone
<1>13. OneStops'
  BY <1>0, <1>1, <1>2 DEF OneStops
<1>14. QED BY <1>5, <1>6, <1>7, <1>8, <1>9, <1>10, <1>11, <1>12, <1>13 DEF CsRest

\* A removal stops the flusher.
LEMMA CsStopKeeps == ASSUME CsInv, CsTypes', NEW w \in CsWorkers, CsStop(w) PROVE CsRest'
<1> USE CsNumbers
<1>0. CsTypes /\ CsPlaced /\ WriterFits /\ FlagKept /\ DiskFollows /\ Counted /\ ArchiveGrows /\ LimitKept
      /\ RecordGone /\ OneStops
  BY DEF CsInv
<1>1. /\ \A v \in CsWorkers \ {w} : csw'[v] = csw[v]
      /\ csw[w].pc = "send" /\ csw'[w].pc = "arch"
      /\ csw'[w].op = csw[w].op /\ csw'[w].old = csw[w].old
      /\ csm'["ten"] = csm["ten"]
      /\ There("fn") /\ There("fn")'
      /\ csm["fn"].fl = "sleep" /\ csm'["fn"].fl = "closed" /\ ~csw[w].old
      /\ csm'["fn"].mem = csm["fn"].mem /\ csm'["fn"].disk = csm["fn"].disk /\ csm'["fn"].dirty = csm["fn"].dirty
  <2>1. /\ csw[w] \in CswRec /\ csw \in [CsWorkers -> CswRec]
        /\ csm \in [Counters -> CsData \cup {NotThere}] /\ "fn" \in Counters /\ "ten" \in Counters
        /\ csdb \in [Counters -> Count]
        /\ csghost \in [over : BOOLEAN, late : BOOLEAN, lost : [Counters -> BOOLEAN]]
    BY <1>0 DEF CsTypes, Counters
  <2>2. There("fn") /\ csm["fn"] \in CsData
    BY <1>0, <2>1 DEF CsStop, CsPlaced, Entering, Removing, There
  <2>3. csm'["fn"] = [csm["fn"] EXCEPT !.fl = "closed"] /\ csm'["fn"] # NotThere
    BY <1>0, <2>1, <2>2, RoomToCount, CsRecords, DataEdits DEF CsStop
  <2>4. QED BY <2>1, <2>2, <2>3 DEF CsStop, CsGoes, CsEnds, CsIdle, CswRec, CsData, There
<1>2. UNCHANGED <<csdb, csoff, cswriter, csarch, cssnap, csfnarch, csgone, csn, csghost>> /\ CsLast' = CsLast
  BY DEF CsStop, CsEnds, CsGoes, CsLast
<1>3. /\ nServing \in Nat /\ nUncounted \in Nat /\ Cardinality(CsWorkers) \in Nat
      /\ nUncounted <= Cardinality(CsWorkers) /\ nUncounted' <= Cardinality(CsWorkers)
      /\ nServing' = nServing /\ nUncounted' = nUncounted
  BY <1>0, <1>1, <1>2, GroupsMove
<1>4. Unwritten \in Nat /\ Unwritten' = Unwritten
  BY <1>0, <1>1, <1>2, UnwrittenIsNat DEF There, Unwritten, Orphan, Waiting
<1>5. CsPlaced'
  BY <1>0, <1>1, <1>2 DEF CsPlaced, There, Entering, Removing
<1>6. WriterFits'
  BY <1>0, <1>1, <1>2 DEF WriterFits, There, Waiting, Orphan, Counters
<1>7. FlagKept'
  BY <1>0, <1>1, <1>2 DEF FlagKept, There, Raising, Counters, Orphan, Waiting
<1>8. DiskFollows'
  BY <1>0, <1>1, <1>2 DEF DiskFollows, There, Entering
<1>9. Counted'
  BY <1>0, <1>1, <1>2, <1>3, <1>4 DEF Counted, There, Entering
<1>10. ArchiveGrows'
  BY <1>0, <1>1, <1>2 DEF ArchiveGrows, There
<1>11. LimitKept'
  BY <1>0, <1>1, <1>2, <1>3, <1>4 DEF LimitKept, There
<1>12. RecordGone'
  BY <1>0, <1>1, <1>2 DEF RecordGone
<1>13. OneStops'
  BY <1>0, <1>1, <1>2 DEF OneStops, CsPlaced
<1>14. QED BY <1>5, <1>6, <1>7, <1>8, <1>9, <1>10, <1>11, <1>12, <1>13 DEF CsRest


\* A removal removes the record.
LEMMA CsDropRemoveKeeps == ASSUME CsInv, CsTypes', NEW w \in CsWorkers, CsDropRemove(w) PROVE CsRest'
<1> USE CsNumbers
<1>0. CsTypes /\ CsPlaced /\ WriterFits /\ FlagKept /\ DiskFollows /\ Counted /\ ArchiveGrows /\ LimitKept
      /\ RecordGone /\ OneStops
  BY DEF CsInv
<1>1. /\ \A v \in CsWorkers \ {w} : csw'[v] = csw[v]
      /\ csw[w].pc = "remove"
      /\ csdb'["ten"] = csdb["ten"] /\ csn'.calls = csn.calls
      /\ \/ /\ csw'[w].pc = "last" /\ csw'[w].op = csw[w].op /\ csw'[w].old = csw[w].old
            /\ csdb'["fn"] = 0
         \/ csw'[w].pc = "idle" /\ ~csw'[w].old /\ csdb'["fn"] = csdb["fn"]
  <2>1. /\ csw[w] \in CswRec /\ csw \in [CsWorkers -> CswRec]
        /\ csm \in [Counters -> CsData \cup {NotThere}] /\ "fn" \in Counters /\ "ten" \in Counters
        /\ csdb \in [Counters -> Count]
        /\ csghost \in [over : BOOLEAN, late : BOOLEAN, lost : [Counters -> BOOLEAN]]
    BY <1>0 DEF CsTypes, Counters
  <2>2. csn'.calls = csn.calls
    BY <1>0, FaultIsNoCall DEF CsDropRemove
  <2>3. QED BY <2>1, <2>2 DEF CsDropRemove, CsGoes, CsEnds, CsIdle, CswRec
<1>2. UNCHANGED <<csm, csoff, cswriter, csarch, cssnap, csfnarch, csgone, csghost>> /\ CsLast' = CsLast
  BY DEF CsDropRemove, CsEnds, CsGoes, CsLast
<1>3. /\ nServing \in Nat /\ nUncounted \in Nat /\ Cardinality(CsWorkers) \in Nat
      /\ nUncounted <= Cardinality(CsWorkers) /\ nUncounted' <= Cardinality(CsWorkers)
      /\ nServing' = nServing /\ nUncounted' = nUncounted
  BY <1>0, <1>1, <1>2, GroupsMove
<1>4. Unwritten \in Nat /\ Unwritten' = Unwritten
  BY <1>0, <1>1, <1>2, UnwrittenIsNat DEF There, Unwritten, Orphan, Waiting
<1>5. CsPlaced'
  BY <1>0, <1>1, <1>2 DEF CsPlaced, There, Entering, Removing
<1>6. WriterFits'
  BY <1>0, <1>1, <1>2 DEF WriterFits, There, Waiting, Orphan, Counters
<1>7. FlagKept'
  BY <1>0, <1>1, <1>2 DEF FlagKept, There, Raising, Counters, Orphan, Waiting
<1>8. DiskFollows'
  <2>1. csw[w].old \/ csm["fn"].fl = "closed"
    BY <1>0, <1>1 DEF CsPlaced, Removing
  <2>2. There("fn") \/ csgone
    BY <1>0, <1>1 DEF CsPlaced, Entering, Removing
  <2>3. csw[w].old => csgone /\ (There("fn") => csghost.late)
    BY <1>0 DEF CsPlaced
  <2>4. QED BY <1>0, <1>1, <1>2, <2>1, <2>2, <2>3 DEF DiskFollows, There, Entering
<1>9. Counted'
  BY <1>0, <1>1, <1>2, <1>3, <1>4 DEF Counted, There, Entering
<1>10. ArchiveGrows'
  BY <1>0, <1>1, <1>2 DEF ArchiveGrows, There
<1>11. LimitKept'
  BY <1>0, <1>1, <1>2, <1>3, <1>4 DEF LimitKept, There
<1>12. RecordGone'
  BY <1>0, <1>1, <1>2 DEF RecordGone
<1>13. OneStops'
  BY <1>0, <1>1, <1>2 DEF OneStops
<1>14. QED BY <1>5, <1>6, <1>7, <1>8, <1>9, <1>10, <1>11, <1>12, <1>13 DEF CsRest

\* A removal drops the memory data.
LEMMA CsGoneKeeps == ASSUME CsInv, CsTypes', NEW w \in CsWorkers, CsGone(w) PROVE CsRest'
<1> USE CsNumbers
<1>0. CsTypes /\ CsPlaced /\ WriterFits /\ FlagKept /\ DiskFollows /\ Counted /\ ArchiveGrows /\ LimitKept
      /\ RecordGone /\ OneStops
  BY DEF CsInv
<1>1. /\ csw[w].pc = "last" /\ csw'[w].pc = "idle" /\ ~csw'[w].old
      /\ csn'.calls = csn.calls /\ csm'["ten"] = csm["ten"]
      /\ \A v \in CsWorkers \ {w} :
            /\ csw'[v].pc = csw[v].pc /\ csw'[v].op = csw[v].op /\ csw'[v].fn = csw[v].fn
            /\ csw'[v].ten = csw[v].ten /\ csw'[v].off = csw[v].off
      /\ \/ UNCHANGED <<csm, csgone>> /\ \A v \in CsWorkers \ {w} : csw'[v].old = csw[v].old
         \/ /\ ~There("fn")' /\ csgone'
            /\ \A v \in CsWorkers \ {w} : csw'[v].old <=> csw[v].pc \notin {"idle"} \cup Entering
  <2>1. csn'.calls = csn.calls
    BY <1>0, FaultIsNoCall DEF CsGone
  <2>2. CsRequest(w) /\ csw \in [CsWorkers -> CswRec] /\ csm \in [Counters -> CsData \cup {NotThere}]
        /\ "fn" \in Counters /\ "ten" \in Counters
    BY <1>0 DEF CsRequest, CsTypes, Counters
  <2>3. \A v \in CsWorkers \ {w} :
          /\ csw'[v].pc = csw[v].pc /\ csw'[v].op = csw[v].op /\ csw'[v].fn = csw[v].fn
          /\ csw'[v].ten = csw[v].ten /\ csw'[v].off = csw[v].off
    BY <1>0, <2>2, OthersStay
  <2>4. CASE CsEnds(w) /\ UNCHANGED <<csm, csgone>>
    BY <2>1, <2>2, <2>3, <2>4 DEF CsGone, CsEnds, CsIdle
  <2>5. CASE /\ csm' = [csm EXCEPT !["fn"] = NotThere] /\ csgone' = TRUE
             /\ csw' = [v \in CsWorkers |-> IF v = w THEN CsIdle
                          ELSE [csw[v] EXCEPT !.old = csw[v].pc \notin {"idle", "ten", "off", "tstore", "fstore"}]]
    <3>1. ~There("fn")' /\ csm'["ten"] = csm["ten"] /\ csgone' /\ csw[w].pc = "last"
          /\ csw'[w].pc = "idle" /\ ~csw'[w].old
      BY <2>2, <2>5, CsRecords DEF CsGone, There
    <3>2. ASSUME NEW v \in CsWorkers \ {w}
          PROVE  csw'[v].old <=> csw[v].pc \notin {"idle"} \cup Entering
      <4>1. csw'[v] = [csw[v] EXCEPT !.old = csw[v].pc \notin {"idle", "ten", "off", "tstore", "fstore"}]
            /\ csw[v] \in CswRec
        BY <2>2, <2>5
      <4>2. csw'[v].old = (csw[v].pc \notin {"idle", "ten", "off", "tstore", "fstore"})
        BY <4>1 DEF CswRec
      <4>3. QED BY <4>2 DEF Entering
    <3>3. QED BY <2>1, <2>3, <3>1, <3>2
  <2>6. QED BY <2>4, <2>5 DEF CsGone
<1>2. UNCHANGED <<csdb, csoff, cswriter, csarch, cssnap, csfnarch, csghost>> /\ CsLast' = CsLast
  BY DEF CsGone, CsEnds, CsGoes, CsLast
<1>3. /\ nServing \in Nat /\ nUncounted \in Nat /\ Cardinality(CsWorkers) \in Nat
      /\ nUncounted <= Cardinality(CsWorkers) /\ nUncounted' <= Cardinality(CsWorkers)
      /\ nServing' = nServing /\ nUncounted' = nUncounted
  BY <1>0, <1>1, <1>2, GroupsMove
<1>4. Unwritten \in Nat
  BY <1>0, UnwrittenIsNat
<1>5. csw[w].old \/ csm["fn"].fl = "closed"
  BY <1>0, <1>1 DEF CsPlaced, Removing
<1>6. csgone' => csghost.late \/ csdb["fn"] = 0
  BY <1>0, <1>1, <1>2 DEF RecordGone, CsPlaced
<1>7. CsPlaced'
  BY <1>0, <1>1, <1>2 DEF CsPlaced, There, Entering, Removing
<1>8. WriterFits'
  BY <1>0, <1>1, <1>2, <1>5 DEF WriterFits, There, Waiting, Orphan, Counters, CsPlaced
<1>9. FlagKept'
  BY <1>0, <1>1, <1>2 DEF FlagKept, There, Raising, Counters, Orphan, Waiting
<1>10. DiskFollows'
  BY <1>0, <1>1, <1>2 DEF DiskFollows, There, Entering
<1>11. Counted'
  <2>1. Unwritten' \in Nat /\ Unwritten' <= Unwritten
    <3>1. CASE There("fn") /\ ~There("fn")'
      <4>1. CASE Waiting("fn")
        <5>1. ~Orphan /\ (Orphan)' /\ cswriter.disk = csm["fn"].disk /\ cswriter.now <= csm["fn"].mem
          BY <1>0, <1>2, <3>1, <4>1 DEF WriterFits, Orphan, Waiting, Counters
        <5>2. cswriter.disk <= cswriter.now
          BY <1>0 DEF WriterFits
        <5>3. Unwritten = csm["fn"].mem - csm["fn"].disk
          BY <1>0, <3>1, <5>1 DEF Unwritten
        <5>4. Unwritten' = cswriter.now - cswriter.disk
          BY <1>0, <1>2, <3>1, <5>1 DEF Unwritten
        <5>5. QED BY <1>0, <3>1, <5>1, <5>2, <5>3, <5>4
      <4>2. CASE ~Waiting("fn")
        <5>1. (Orphan)' <=> Orphan
          BY <1>2, <3>1, <4>2 DEF Orphan, Waiting
        <5>2. cswriter.disk <= cswriter.now /\ csm["fn"].disk <= csm["fn"].mem
          BY <1>0, <3>1 DEF WriterFits, Counters
        <5>3. DEFINE owed == IF Orphan THEN cswriter.now - cswriter.disk ELSE 0
        <5>4. owed \in Nat
          BY <1>0, <5>2
        <5>5. Unwritten = csm["fn"].mem - csm["fn"].disk + owed
          BY <1>0, <3>1 DEF Unwritten
        <5>6. Unwritten' = owed
          BY <1>0, <1>2, <3>1, <5>1 DEF Unwritten
        <5>7. HIDE DEF owed
        <5>8. QED BY <1>0, <3>1, <5>2, <5>4, <5>5, <5>6
      <4>3. QED BY <4>1, <4>2
    <3>2. CASE ~(There("fn") /\ ~There("fn")')
      <4>1. Unwritten' = Unwritten
        BY <1>1, <1>2, <3>2 DEF Unwritten, Orphan, Waiting, There
      <4>2. QED BY <1>4, <4>1
    <3>3. QED BY <3>1, <3>2
  <2>2. QED BY <1>0, <1>1, <1>2, <1>3, <1>4, <2>1 DEF Counted, There, Entering
<1>12. ArchiveGrows'
  BY <1>0, <1>1, <1>2 DEF ArchiveGrows, There
<1>13. LimitKept'
  BY <1>0, <1>1, <1>2, <1>3, <1>4 DEF LimitKept, There
<1>14. RecordGone'
  BY <1>0, <1>1, <1>2, <1>6 DEF RecordGone
<1>15. OneStops'
  BY <1>0, <1>1, <1>2 DEF OneStops, Entering
<1>16. QED BY <1>7, <1>8, <1>9, <1>10, <1>11, <1>12, <1>13, <1>14, <1>15 DEF CsRest

\* The limits are set anew.
LEMMA CsSetupLimitsKeeps == ASSUME CsInv, CsTypes', CsSetupLimits PROVE CsRest'
<1> USE CsNumbers
<1>0. CsTypes /\ CsPlaced /\ WriterFits /\ FlagKept /\ DiskFollows /\ Counted /\ ArchiveGrows /\ LimitKept
      /\ RecordGone /\ OneStops
  BY DEF CsInv
<1>1. There("ten") /\ csoff' = CsLast
  BY DEF CsSetupLimits, There
<1>2. UNCHANGED <<csw, csdb, csm, cswriter, csarch, cssnap, csfnarch, csgone, csn, csghost>> /\ CsLast' = CsLast
  BY DEF CsSetupLimits, CsEnds, CsGoes, CsLast
<1>3. /\ nServing \in Nat /\ nUncounted \in Nat /\ Cardinality(CsWorkers) \in Nat
      /\ nUncounted <= Cardinality(CsWorkers) /\ nUncounted' <= Cardinality(CsWorkers)
      /\ nServing' = nServing /\ nUncounted' = nUncounted
  BY <1>0, <1>1, <1>2, GroupsStay
<1>4. Unwritten \in Nat /\ Unwritten' = Unwritten
  BY <1>0, <1>1, <1>2, UnwrittenIsNat DEF There, Unwritten, Orphan, Waiting
<1>5. CsPlaced'
  BY <1>0, <1>1, <1>2 DEF CsPlaced, There, Entering, Removing
<1>6. WriterFits'
  BY <1>0, <1>1, <1>2 DEF WriterFits, There, Waiting, Orphan, Counters
<1>7. FlagKept'
  BY <1>0, <1>1, <1>2 DEF FlagKept, There, Raising, Counters, Orphan, Waiting
<1>8. DiskFollows'
  BY <1>0, <1>1, <1>2 DEF DiskFollows, There, Entering
<1>9. Counted'
  BY <1>0, <1>1, <1>2, <1>3, <1>4 DEF Counted, There, Entering
<1>10. ArchiveGrows'
  BY <1>0, <1>1, <1>2 DEF ArchiveGrows, There
<1>11. LimitKept'
  <2>1. /\ csoff <= CsLast
        /\ csm["ten"].mem + nUncounted - csoff <= CsLimit + Cardinality(CsWorkers)
    BY <1>0, <1>1 DEF LimitKept, ArchiveGrows
  <2>2. csm["ten"].mem \in Nat
    BY <1>0, <1>1
  <2>3. csm["ten"].mem + nUncounted - CsLast <= CsLimit + Cardinality(CsWorkers)
    BY <1>0, <1>3, <2>1, <2>2
  <2>4. QED BY <1>1, <1>2, <1>3, <2>3 DEF LimitKept, There
<1>12. RecordGone'
  BY <1>0, <1>1, <1>2 DEF RecordGone
<1>13. OneStops'
  BY <1>0, <1>1, <1>2 DEF OneStops
<1>14. QED BY <1>5, <1>6, <1>7, <1>8, <1>9, <1>10, <1>11, <1>12, <1>13 DEF CsRest

\* The scraper reads the tenant's record.
LEMMA CsScrapeKeeps == ASSUME CsInv, CsTypes', CsScrape PROVE CsRest'
<1> USE CsNumbers
<1>0. CsTypes /\ CsPlaced /\ WriterFits /\ FlagKept /\ DiskFollows /\ Counted /\ ArchiveGrows /\ LimitKept
      /\ RecordGone /\ OneStops
  BY DEF CsInv
<1>1. cssnap' = csdb["ten"]
  BY DEF CsScrape
<1>2. UNCHANGED <<csw, csdb, csm, csoff, cswriter, csarch, csfnarch, csgone, csn, csghost>> /\ CsLast' = CsLast
  BY DEF CsScrape, CsEnds, CsGoes, CsLast
<1>3. /\ nServing \in Nat /\ nUncounted \in Nat /\ Cardinality(CsWorkers) \in Nat
      /\ nUncounted <= Cardinality(CsWorkers) /\ nUncounted' <= Cardinality(CsWorkers)
      /\ nServing' = nServing /\ nUncounted' = nUncounted
  BY <1>0, <1>1, <1>2, GroupsStay
<1>4. Unwritten \in Nat /\ Unwritten' = Unwritten
  BY <1>0, <1>1, <1>2, UnwrittenIsNat DEF There, Unwritten, Orphan, Waiting
<1>5. CsPlaced'
  BY <1>0, <1>1, <1>2 DEF CsPlaced, There, Entering, Removing
<1>6. WriterFits'
  BY <1>0, <1>1, <1>2 DEF WriterFits, There, Waiting, Orphan, Counters
<1>7. FlagKept'
  BY <1>0, <1>1, <1>2 DEF FlagKept, There, Raising, Counters, Orphan, Waiting
<1>8. DiskFollows'
  BY <1>0, <1>1, <1>2 DEF DiskFollows, There, Entering
<1>9. Counted'
  BY <1>0, <1>1, <1>2, <1>3, <1>4 DEF Counted, There, Entering
<1>10. ArchiveGrows'
  BY <1>0, <1>1, <1>2 DEF ArchiveGrows, There
<1>11. LimitKept'
  BY <1>0, <1>1, <1>2, <1>3, <1>4 DEF LimitKept, There
<1>12. RecordGone'
  BY <1>0, <1>1, <1>2 DEF RecordGone
<1>13. OneStops'
  BY <1>0, <1>1, <1>2 DEF OneStops
<1>14. QED BY <1>5, <1>6, <1>7, <1>8, <1>9, <1>10, <1>11, <1>12, <1>13 DEF CsRest

\* And puts it into the archive, or does not.
LEMMA CsArchiveKeeps == ASSUME CsInv, CsTypes', CsArchive PROVE CsRest'
<1> USE CsNumbers
<1>0. CsTypes /\ CsPlaced /\ WriterFits /\ FlagKept /\ DiskFollows /\ Counted /\ ArchiveGrows /\ LimitKept
      /\ RecordGone /\ OneStops
  BY DEF CsInv
<1>1. /\ cssnap # -1 /\ cssnap' = -1
      /\ \/ csarch' = csarch /\ CsLast' = CsLast
         \/ csarch' = Append(csarch, cssnap) /\ CsLast' = cssnap
  <2>0. csarch \in Seq(Count) /\ (cssnap # -1 => cssnap \in Count)
    BY <1>0 DEF CsTypes
  <2>1. ASSUME cssnap \in Count
        PROVE  /\ Append(csarch, cssnap) # << >> /\ Len(Append(csarch, cssnap)) = Len(csarch) + 1
               /\ Append(csarch, cssnap)[Len(csarch) + 1] = cssnap
    BY <2>0, <2>1
  <2>2. QED BY <1>0, <2>0, <2>1 DEF CsArchive, CsLast
<1>2. UNCHANGED <<csw, csdb, csm, csoff, cswriter, csfnarch, csgone, csn, csghost>>
  BY DEF CsArchive, CsEnds, CsGoes
<1>3. /\ nServing \in Nat /\ nUncounted \in Nat /\ Cardinality(CsWorkers) \in Nat
      /\ nUncounted <= Cardinality(CsWorkers) /\ nUncounted' <= Cardinality(CsWorkers)
      /\ nServing' = nServing /\ nUncounted' = nUncounted
  BY <1>0, <1>1, <1>2, GroupsStay
<1>4. Unwritten \in Nat /\ Unwritten' = Unwritten
  BY <1>0, <1>1, <1>2, UnwrittenIsNat DEF There, Unwritten, Orphan, Waiting
<1>5. CsPlaced'
  BY <1>0, <1>1, <1>2 DEF CsPlaced, There, Entering, Removing
<1>6. WriterFits'
  BY <1>0, <1>1, <1>2 DEF WriterFits, There, Waiting, Orphan, Counters
<1>7. FlagKept'
  BY <1>0, <1>1, <1>2 DEF FlagKept, There, Raising, Counters, Orphan, Waiting
<1>8. DiskFollows'
  BY <1>0, <1>1, <1>2 DEF DiskFollows, There, Entering
<1>9. Counted'
  BY <1>0, <1>1, <1>2, <1>3, <1>4 DEF Counted, There, Entering
<1>10. ArchiveGrows'
  <2>1. CsLast <= CsLast' /\ CsLast' <= csdb["ten"]
    BY <1>0, <1>1 DEF ArchiveGrows
  <2>2. \A i \in 2 .. Len(csarch') : csarch'[i - 1] <= csarch'[i]
    <3>1. CASE csarch' = csarch
      BY <1>0, <3>1 DEF ArchiveGrows
    <3>2. CASE csarch' = Append(csarch, cssnap)
      <4>1. csarch \in Seq(Count) /\ cssnap \in Count
        BY <1>0, <1>1 DEF CsTypes
      <4>2. /\ Len(csarch') = Len(csarch) + 1 /\ csarch'[Len(csarch) + 1] = cssnap
            /\ \A i \in 1 .. Len(csarch) : csarch'[i] = csarch[i]
        BY <3>2, <4>1
      <4>3. Len(csarch) # 0 => CsLast = csarch[Len(csarch)]
        BY <4>1 DEF CsLast
      <4>4. CsLast <= cssnap /\ \A i \in 2 .. Len(csarch) : csarch[i - 1] <= csarch[i]
        BY <1>0, <1>1 DEF ArchiveGrows
      <4>5. Len(csarch) \in Nat
        BY <4>1
      <4>6. ASSUME NEW i \in 2 .. Len(csarch') PROVE csarch'[i - 1] <= csarch'[i]
        <5>1. CASE i = Len(csarch) + 1
          BY <4>2, <4>3, <4>4, <4>5, <5>1
        <5>2. CASE i # Len(csarch) + 1
          BY <4>2, <4>4, <4>5, <5>2
        <5>3. QED BY <5>1, <5>2
      <4>7. QED BY <4>6
    <3>3. QED BY <1>1, <3>1, <3>2
  <2>3. QED BY <1>0, <1>1, <1>2, <2>1, <2>2 DEF ArchiveGrows, There
<1>11. LimitKept'
  <2>1. CsLast <= CsLast'
    BY <1>0, <1>1 DEF ArchiveGrows
  <2>2. CsLast' \in Nat
    BY <1>0, <1>1, CsRecords DEF CsTypes
  <2>3. QED BY <1>0, <1>1, <1>2, <1>3, <2>1, <2>2 DEF LimitKept, There
<1>12. RecordGone'
  BY <1>0, <1>1, <1>2 DEF RecordGone
<1>13. OneStops'
  BY <1>0, <1>1, <1>2 DEF OneStops
<1>14. QED BY <1>5, <1>6, <1>7, <1>8, <1>9, <1>10, <1>11, <1>12, <1>13 DEF CsRest

\* The flusher of the function's counter clears its flag and asks for a write.
LEMMA CsTickFnKeeps == ASSUME CsInv, CsTypes', CsTick("fn") PROVE CsRest'
<1> USE CsNumbers
<1>0. CsTypes /\ CsPlaced /\ WriterFits /\ FlagKept /\ DiskFollows /\ Counted /\ ArchiveGrows /\ LimitKept
      /\ RecordGone /\ OneStops
  BY DEF CsInv
<1>1. /\ There("fn") /\ There("fn")' /\ csm["fn"].fl = "sleep" /\ csm'["fn"].fl = "ask"
      /\ csm'["fn"].mem = csm["fn"].mem /\ csm'["fn"].disk = csm["fn"].disk
      /\ csm'["ten"] = csm["ten"]
  <2>1. /\ csm \in [Counters -> CsData \cup {NotThere}] /\ "fn" \in Counters /\ "ten" \in Counters
    BY <1>0 DEF CsTypes, Counters
  <2>2. /\ There("fn") /\ csm["fn"] \in CsData
        /\ csm' = [csm EXCEPT !["fn"] = [csm["fn"] EXCEPT !.fl = "ask", !.dirty = FALSE]]
    BY <2>1 DEF CsTick, There
  <2>3. [csm["fn"] EXCEPT !.fl = "ask", !.dirty = FALSE] \in CsData
    BY <2>2, CsRecords, DataEdits
  <2>4. QED BY <2>1, <2>2, <2>3, CsRecords DEF CsTick, There, CsData
<1>2. UNCHANGED <<csw, csdb, csoff, cswriter, csarch, cssnap, csfnarch, csgone, csn, csghost>> /\ CsLast' = CsLast
  BY DEF CsTick, CsEnds, CsGoes, CsLast
<1>3. /\ nServing \in Nat /\ nUncounted \in Nat /\ Cardinality(CsWorkers) \in Nat
      /\ nUncounted <= Cardinality(CsWorkers) /\ nUncounted' <= Cardinality(CsWorkers)
      /\ nServing' = nServing /\ nUncounted' = nUncounted
  BY <1>0, <1>1, <1>2, GroupsStay
<1>4. Unwritten \in Nat /\ Unwritten' = Unwritten
  BY <1>0, <1>1, <1>2, UnwrittenIsNat DEF There, Unwritten, Orphan, Waiting
<1>5. CsPlaced'
  BY <1>0, <1>1, <1>2 DEF CsPlaced, There, Entering, Removing
<1>6. WriterFits'
  BY <1>0, <1>1, <1>2 DEF WriterFits, There, Waiting, Orphan, Counters
<1>7. FlagKept'
  BY <1>0, <1>1, <1>2 DEF FlagKept, There, Raising, Counters, Orphan, Waiting
<1>8. DiskFollows'
  BY <1>0, <1>1, <1>2 DEF DiskFollows, There, Entering
<1>9. Counted'
  BY <1>0, <1>1, <1>2, <1>3, <1>4 DEF Counted, There, Entering
<1>10. ArchiveGrows'
  BY <1>0, <1>1, <1>2 DEF ArchiveGrows, There
<1>11. LimitKept'
  BY <1>0, <1>1, <1>2, <1>3, <1>4 DEF LimitKept, There
<1>12. RecordGone'
  BY <1>0, <1>1, <1>2 DEF RecordGone
<1>13. OneStops'
  BY <1>0, <1>1, <1>2 DEF OneStops
<1>14. QED BY <1>5, <1>6, <1>7, <1>8, <1>9, <1>10, <1>11, <1>12, <1>13 DEF CsRest

\* So does the tenant's.
LEMMA CsTickTenKeeps == ASSUME CsInv, CsTypes', CsTick("ten") PROVE CsRest'
<1> USE CsNumbers
<1>0. CsTypes /\ CsPlaced /\ WriterFits /\ FlagKept /\ DiskFollows /\ Counted /\ ArchiveGrows /\ LimitKept
      /\ RecordGone /\ OneStops
  BY DEF CsInv
<1>1. /\ There("ten") /\ There("ten")' /\ csm["ten"].fl = "sleep" /\ csm'["ten"].fl = "ask"
      /\ csm'["ten"].mem = csm["ten"].mem /\ csm'["ten"].disk = csm["ten"].disk
      /\ csm'["fn"] = csm["fn"]
  <2>1. /\ csm \in [Counters -> CsData \cup {NotThere}] /\ "fn" \in Counters /\ "ten" \in Counters
    BY <1>0 DEF CsTypes, Counters
  <2>2. /\ There("ten") /\ csm["ten"] \in CsData
        /\ csm' = [csm EXCEPT !["ten"] = [csm["ten"] EXCEPT !.fl = "ask", !.dirty = FALSE]]
    BY <2>1 DEF CsTick, There
  <2>3. [csm["ten"] EXCEPT !.fl = "ask", !.dirty = FALSE] \in CsData
    BY <2>2, CsRecords, DataEdits
  <2>4. QED BY <2>1, <2>2, <2>3, CsRecords DEF CsTick, There, CsData
<1>2. UNCHANGED <<csw, csdb, csoff, cswriter, csarch, cssnap, csfnarch, csgone, csn, csghost>> /\ CsLast' = CsLast
  BY DEF CsTick, CsEnds, CsGoes, CsLast
<1>3. /\ nServing \in Nat /\ nUncounted \in Nat /\ Cardinality(CsWorkers) \in Nat
      /\ nUncounted <= Cardinality(CsWorkers) /\ nUncounted' <= Cardinality(CsWorkers)
      /\ nServing' = nServing /\ nUncounted' = nUncounted
  BY <1>0, <1>1, <1>2, GroupsStay
<1>4. Unwritten \in Nat /\ Unwritten' = Unwritten
  BY <1>0, <1>1, <1>2, UnwrittenIsNat DEF There, Unwritten, Orphan, Waiting
<1>5. CsPlaced'
  BY <1>0, <1>1, <1>2 DEF CsPlaced, There, Entering, Removing
<1>6. WriterFits'
  BY <1>0, <1>1, <1>2 DEF WriterFits, There, Waiting, Orphan, Counters
<1>7. FlagKept'
  BY <1>0, <1>1, <1>2 DEF FlagKept, There, Raising, Counters, Orphan, Waiting
<1>8. DiskFollows'
  BY <1>0, <1>1, <1>2 DEF DiskFollows, There, Entering
<1>9. Counted'
  BY <1>0, <1>1, <1>2, <1>3, <1>4 DEF Counted, There, Entering
<1>10. ArchiveGrows'
  BY <1>0, <1>1, <1>2 DEF ArchiveGrows, There
<1>11. LimitKept'
  BY <1>0, <1>1, <1>2, <1>3, <1>4 DEF LimitKept, There
<1>12. RecordGone'
  BY <1>0, <1>1, <1>2 DEF RecordGone
<1>13. OneStops'
  BY <1>0, <1>1, <1>2 DEF OneStops
<1>14. QED BY <1>5, <1>6, <1>7, <1>8, <1>9, <1>10, <1>11, <1>12, <1>13 DEF CsRest

\* The writer takes the function's counter.
LEMMA CsTakeFnKeeps == ASSUME CsInv, CsTypes', CsTake("fn") PROVE CsRest'
<1> USE CsNumbers
<1>0. CsTypes /\ CsPlaced /\ WriterFits /\ FlagKept /\ DiskFollows /\ Counted /\ ArchiveGrows /\ LimitKept
      /\ RecordGone /\ OneStops
  BY DEF CsInv
<1>1. /\ There("fn") /\ There("fn")' /\ csm["fn"].fl = "ask" /\ csm'["fn"].fl = "flush"
      /\ csm'["fn"].mem = csm["fn"].mem /\ csm'["fn"].disk = csm["fn"].disk
      /\ csm'["ten"] = csm["ten"] /\ cswriter.of = "none" /\ cswriter'.of = "fn"
      /\ cswriter'.now = csm["fn"].mem /\ cswriter'.disk = csm["fn"].disk
  <2>1. /\ csm \in [Counters -> CsData \cup {NotThere}] /\ "fn" \in Counters /\ "ten" \in Counters
    BY <1>0 DEF CsTypes, Counters
  <2>2. /\ There("fn") /\ csm["fn"] \in CsData
        /\ csm' = [csm EXCEPT !["fn"] = [csm["fn"] EXCEPT !.fl = "flush"]]
    BY <2>1 DEF CsTake, There
  <2>3. [csm["fn"] EXCEPT !.fl = "flush"] \in CsData
    BY <2>2, CsRecords, DataEdits
  <2>4. QED BY <2>1, <2>2, <2>3, CsRecords DEF CsTake, There, CsData, NoWrite
<1>2. UNCHANGED <<csw, csdb, csoff, csarch, cssnap, csfnarch, csgone, csn, csghost>> /\ CsLast' = CsLast
  BY DEF CsTake, CsEnds, CsGoes, CsLast
<1>3. /\ nServing \in Nat /\ nUncounted \in Nat /\ Cardinality(CsWorkers) \in Nat
      /\ nUncounted <= Cardinality(CsWorkers) /\ nUncounted' <= Cardinality(CsWorkers)
      /\ nServing' = nServing /\ nUncounted' = nUncounted
  BY <1>0, <1>1, <1>2, GroupsStay
<1>4. Unwritten \in Nat /\ Unwritten' = Unwritten
  BY <1>0, <1>1, <1>2, UnwrittenIsNat DEF There, Unwritten, Orphan, Waiting
<1>5. CsPlaced'
  BY <1>0, <1>1, <1>2 DEF CsPlaced, There, Entering, Removing
<1>6. WriterFits'
  BY <1>0, <1>1, <1>2 DEF WriterFits, There, Waiting, Orphan, Counters
<1>7. FlagKept'
  BY <1>0, <1>1, <1>2 DEF FlagKept, WriterFits, Waiting, There, Raising, Counters, Orphan
<1>8. DiskFollows'
  BY <1>0, <1>1, <1>2 DEF DiskFollows, There, Entering
<1>9. Counted'
  BY <1>0, <1>1, <1>2, <1>3, <1>4 DEF Counted, There, Entering
<1>10. ArchiveGrows'
  BY <1>0, <1>1, <1>2 DEF ArchiveGrows, There
<1>11. LimitKept'
  BY <1>0, <1>1, <1>2, <1>3, <1>4 DEF LimitKept, There
<1>12. RecordGone'
  BY <1>0, <1>1, <1>2 DEF RecordGone
<1>13. OneStops'
  BY <1>0, <1>1, <1>2 DEF OneStops
<1>14. QED BY <1>5, <1>6, <1>7, <1>8, <1>9, <1>10, <1>11, <1>12, <1>13 DEF CsRest

\* Or the tenant's.
LEMMA CsTakeTenKeeps == ASSUME CsInv, CsTypes', CsTake("ten") PROVE CsRest'
<1> USE CsNumbers
<1>0. CsTypes /\ CsPlaced /\ WriterFits /\ FlagKept /\ DiskFollows /\ Counted /\ ArchiveGrows /\ LimitKept
      /\ RecordGone /\ OneStops
  BY DEF CsInv
<1>1. /\ There("ten") /\ There("ten")' /\ csm["ten"].fl = "ask" /\ csm'["ten"].fl = "flush"
      /\ csm'["ten"].mem = csm["ten"].mem /\ csm'["ten"].disk = csm["ten"].disk
      /\ csm'["fn"] = csm["fn"] /\ cswriter.of = "none" /\ cswriter'.of = "ten"
      /\ cswriter'.now = csm["ten"].mem /\ cswriter'.disk = csm["ten"].disk
  <2>1. /\ csm \in [Counters -> CsData \cup {NotThere}] /\ "fn" \in Counters /\ "ten" \in Counters
    BY <1>0 DEF CsTypes, Counters
  <2>2. /\ There("ten") /\ csm["ten"] \in CsData
        /\ csm' = [csm EXCEPT !["ten"] = [csm["ten"] EXCEPT !.fl = "flush"]]
    BY <2>1 DEF CsTake, There
  <2>3. [csm["ten"] EXCEPT !.fl = "flush"] \in CsData
    BY <2>2, CsRecords, DataEdits
  <2>4. QED BY <2>1, <2>2, <2>3, CsRecords DEF CsTake, There, CsData, NoWrite
<1>2. UNCHANGED <<csw, csdb, csoff, csarch, cssnap, csfnarch, csgone, csn, csghost>> /\ CsLast' = CsLast
  BY DEF CsTake, CsEnds, CsGoes, CsLast
<1>3. /\ nServing \in Nat /\ nUncounted \in Nat /\ Cardinality(CsWorkers) \in Nat
      /\ nUncounted <= Cardinality(CsWorkers) /\ nUncounted' <= Cardinality(CsWorkers)
      /\ nServing' = nServing /\ nUncounted' = nUncounted
  BY <1>0, <1>1, <1>2, GroupsStay
<1>4. Unwritten \in Nat /\ Unwritten' = Unwritten
  BY <1>0, <1>1, <1>2, UnwrittenIsNat DEF There, Unwritten, Orphan, Waiting
<1>5. CsPlaced'
  BY <1>0, <1>1, <1>2 DEF CsPlaced, There, Entering, Removing
<1>6. WriterFits'
  BY <1>0, <1>1, <1>2 DEF WriterFits, There, Waiting, Orphan, Counters
<1>7. FlagKept'
  BY <1>0, <1>1, <1>2 DEF FlagKept, WriterFits, Waiting, There, Raising, Counters, Orphan
<1>8. DiskFollows'
  BY <1>0, <1>1, <1>2 DEF DiskFollows, There, Entering
<1>9. Counted'
  BY <1>0, <1>1, <1>2, <1>3, <1>4 DEF Counted, There, Entering
<1>10. ArchiveGrows'
  BY <1>0, <1>1, <1>2 DEF ArchiveGrows, There
<1>11. LimitKept'
  BY <1>0, <1>1, <1>2, <1>3, <1>4 DEF LimitKept, There
<1>12. RecordGone'
  BY <1>0, <1>1, <1>2 DEF RecordGone
<1>13. OneStops'
  BY <1>0, <1>1, <1>2 DEF OneStops
<1>14. QED BY <1>5, <1>6, <1>7, <1>8, <1>9, <1>10, <1>11, <1>12, <1>13 DEF CsRest

\* The function's counter is written, or the write fails.
LEMMA CsWriteFnKeeps == ASSUME CsInv, CsTypes', cswriter.of = "fn", CsWrite PROVE CsRest'
<1> USE CsNumbers
<1>0. CsTypes /\ CsPlaced /\ WriterFits /\ FlagKept /\ DiskFollows /\ Counted /\ ArchiveGrows /\ LimitKept
      /\ RecordGone /\ OneStops
  BY DEF CsInv
<1>1. /\ csm'["ten"] = csm["ten"] /\ csdb'["ten"] = csdb["ten"]
      /\ cswriter'.of = "none" /\ cswriter'.now = 0 /\ cswriter'.disk = 0 /\ cswriter.of = "fn" /\ csn'.calls = csn.calls
      /\ csghost'.over = csghost.over /\ csghost'.late = csghost.late /\ csghost'.lost["ten"] = csghost.lost["ten"]
      /\ \/ /\ ~(There("fn") /\ csm["fn"].fl = "flush") /\ csm'["fn"] = csm["fn"] /\ "fn" = "fn"
         \/ /\ There("fn") /\ There("fn")' /\ csm["fn"].fl = "flush" /\ csm'["fn"].fl = "sleep"
            /\ csm'["fn"].mem = csm["fn"].mem /\ csm'["fn"].dirty = csm["fn"].dirty
            /\ csm["fn"].disk = cswriter.disk /\ cswriter.now <= csm["fn"].mem
      /\ cswriter.disk <= cswriter.now
      /\ \/ /\ csdb'["fn"] = csdb["fn"] + cswriter.now - cswriter.disk
            /\ There("fn") /\ csm["fn"].fl = "flush" => csm'["fn"].disk = cswriter.now
         \/ /\ csdb'["fn"] = csdb["fn"] /\ csghost'.lost["fn"]
            /\ There("fn") /\ csm["fn"].fl = "flush" => csm'["fn"].disk = cswriter.disk
  <2>1. /\ csm \in [Counters -> CsData \cup {NotThere}] /\ "fn" \in Counters /\ "ten" \in Counters
        /\ csdb \in [Counters -> Count] /\ cswriter.now \in Count /\ cswriter.disk \in Count
        /\ csghost \in [over : BOOLEAN, late : BOOLEAN, lost : [Counters -> BOOLEAN]]
    BY <1>0 DEF CsTypes, Counters
  <2>2. ASSUME NEW d \in Count, CsAwake(d)
        PROVE  /\ csm'["ten"] = csm["ten"] /\ (There("fn")' <=> There("fn"))
               /\ ~Waiting("fn") => csm'["fn"] = csm["fn"]
               /\ Waiting("fn") => /\ csm'["fn"].mem = csm["fn"].mem /\ csm'["fn"].fl = "sleep"
                                  /\ csm'["fn"].dirty = csm["fn"].dirty /\ csm'["fn"].disk = d
    <3>1. CASE ~Waiting("fn")
      BY <2>2, <3>1 DEF CsAwake, Waiting, There
    <3>2. CASE Waiting("fn")
      <4>1. csm["fn"] \in CsData /\ csm' = [csm EXCEPT !["fn"] = [csm["fn"] EXCEPT !.fl = "sleep", !.disk = d]]
        BY <2>1, <2>2, <3>2 DEF CsAwake, Waiting, There
      <4>2. [csm["fn"] EXCEPT !.fl = "sleep", !.disk = d] \in CsData
        BY <4>1, DataEdits
      <4>3. csm'["fn"] = [csm["fn"] EXCEPT !.fl = "sleep", !.disk = d] /\ csm'["ten"] = csm["ten"]
        BY <2>1, <4>1
      <4>4. /\ csm'["fn"].mem = csm["fn"].mem /\ csm'["fn"].fl = "sleep"
            /\ csm'["fn"].dirty = csm["fn"].dirty /\ csm'["fn"].disk = d
        <5>1. ASSUME NEW r \in CsData, NEW q, q = [r EXCEPT !.fl = "sleep", !.disk = d]
              PROVE  q.mem = r.mem /\ q.fl = "sleep" /\ q.dirty = r.dirty /\ q.disk = d
          BY <5>1 DEF CsData
        <5> QED BY <4>1, <4>3, <5>1
      <4>5. csm'["fn"] # NotThere
        BY <4>2, <4>3, CsRecords
      <4>6. QED BY <3>2, <4>3, <4>4, <4>5 DEF There, Waiting
    <3>3. QED BY <3>1, <3>2
  <2>3. /\ cswriter'.of = "none" /\ cswriter'.now = 0 /\ cswriter'.disk = 0 /\ csn'.calls = csn.calls
    BY <1>0, FaultIsNoCall DEF CsWrite, NoWrite
  <2>4. \/ /\ csdb' = [csdb EXCEPT !["fn"] = @ + cswriter.now - cswriter.disk] /\ CsAwake(cswriter.now)
           /\ csghost' = [csghost EXCEPT !.lost["fn"] = FALSE]
        \/ /\ csdb' = csdb /\ CsAwake(cswriter.disk)
           /\ csghost' = [csghost EXCEPT !.lost["fn"] = TRUE]
    BY DEF CsWrite
  <2>5. \/ /\ csdb'["ten"] = csdb["ten"] /\ csdb'["fn"] = csdb["fn"] + cswriter.now - cswriter.disk
           /\ CsAwake(cswriter.now)
           /\ csghost'.over = csghost.over /\ csghost'.late = csghost.late
           /\ csghost'.lost["ten"] = csghost.lost["ten"]
        \/ /\ csdb'["ten"] = csdb["ten"] /\ csdb'["fn"] = csdb["fn"] /\ CsAwake(cswriter.disk)
           /\ csghost'.over = csghost.over /\ csghost'.late = csghost.late
           /\ csghost'.lost["ten"] = csghost.lost["ten"] /\ csghost'.lost["fn"]
    BY <2>1, <2>4
  <2>6. /\ cswriter.disk <= cswriter.now /\ (~Waiting("fn") => "fn" = "fn")
        /\ Waiting("fn") => csm["fn"].disk = cswriter.disk /\ cswriter.now <= csm["fn"].mem
    BY <1>0, <2>1 DEF WriterFits
  <2>7. Waiting("fn") <=> There("fn") /\ csm["fn"].fl = "flush"
    BY DEF Waiting
  <2>8. QED BY <2>1, <2>2, <2>3, <2>5, <2>6, <2>7
<1>2. UNCHANGED <<csw, csoff, csarch, cssnap, csfnarch, csgone>> /\ CsLast' = CsLast
  BY DEF CsWrite, CsEnds, CsGoes, CsLast
<1>3. /\ nServing \in Nat /\ nUncounted \in Nat /\ Cardinality(CsWorkers) \in Nat
      /\ nUncounted <= Cardinality(CsWorkers) /\ nUncounted' <= Cardinality(CsWorkers)
      /\ nServing' = nServing /\ nUncounted' = nUncounted
  BY <1>0, <1>1, <1>2, GroupsStay
<1>4. Unwritten \in Nat
  BY <1>0, UnwrittenIsNat
<1>5. CsPlaced'
  BY <1>0, <1>1, <1>2 DEF CsPlaced, There, Entering, Removing
<1>6. WriterFits'
  BY <1>0, <1>1, <1>2 DEF WriterFits, There, Waiting, Orphan, Counters
<1>7. FlagKept'
  <2>1. ~(There("ten") /\ csm["ten"].fl = "flush")
    BY <1>0, <1>1 DEF WriterFits, Waiting, Counters
  <2>2. There("fn") /\ csm["fn"].fl = "flush" => csm["fn"].mem = cswriter.now \/ csm["fn"].dirty \/ Raising("fn")
    BY <1>0 DEF FlagKept, Counters
  <2>3. \A j \in Counters : Raising(j)' <=> Raising(j)
    BY <1>2 DEF Raising, Counters
  <2>4. QED BY <1>0, <1>1, <1>2, <2>1, <2>2, <2>3 DEF FlagKept, There, Counters, Orphan, Waiting
<1>8. DiskFollows'
  BY <1>0, <1>1, <1>2 DEF DiskFollows, There, Entering, WriterFits, Orphan, Waiting, CsPlaced
<1>9. Counted'
  <2>1. /\ Unwritten' \in Nat
        /\ Unwritten' <= Unwritten - (csdb'["fn"] - csdb["fn"])
    <3>1. CASE There("fn") /\ csm["fn"].fl = "flush"
      <4>1. Unwritten = csm["fn"].mem - csm["fn"].disk
        BY <1>0, <3>1 DEF Unwritten, Orphan, Waiting
      <4>2. Unwritten' = csm'["fn"].mem - csm'["fn"].disk /\ csm'["fn"].mem = csm["fn"].mem
        BY <1>0, <1>1, <3>1 DEF Unwritten, Orphan
      <4>3. QED BY <1>0, <1>1, <3>1, <4>1, <4>2
    <3>2. CASE ~(There("fn") /\ csm["fn"].fl = "flush")
      <4>1. DEFINE kept == IF There("fn") THEN csm["fn"].mem - csm["fn"].disk ELSE 0
      <4>2. Unwritten = kept + (cswriter.now - cswriter.disk)
        BY <1>1, <3>2 DEF Unwritten, Orphan, Waiting
      <4>3. kept \in Nat
        BY <1>0 DEF WriterFits, Counters
      <4>4. Unwritten' = kept
        BY <1>0, <1>1, <3>2, <4>3 DEF Unwritten, Orphan, There
      <4>5. HIDE DEF kept
      <4>6. QED BY <1>0, <1>1, <3>2, <4>2, <4>3, <4>4
    <3>3. QED BY <3>1, <3>2
  <2>2. There("fn")' => csm'["fn"].mem = csm["fn"].mem /\ There("fn")
    BY <1>1 DEF There
  <2>3. csdb'["fn"] \in Nat
    BY DEF CsTypes, Count, Counters
  <2>4. (There("ten")' <=> There("ten")) /\ csm'["ten"] = csm["ten"]
    BY <1>1 DEF There
  <2>5. QED BY <1>0, <1>1, <1>2, <1>3, <1>4, <2>1, <2>2, <2>3, <2>4 DEF Counted, Entering
<1>10. ArchiveGrows'
  BY <1>0, <1>1, <1>2 DEF ArchiveGrows, There
<1>11. LimitKept'
  BY <1>0, <1>1, <1>2, <1>3, <1>4 DEF LimitKept, There
<1>12. RecordGone'
  BY <1>0, <1>1, <1>2 DEF RecordGone, There, Entering, Removing, WriterFits, Orphan, Waiting, CsPlaced
<1>13. OneStops'
  BY <1>0, <1>1, <1>2 DEF OneStops
<1>14. QED BY <1>5, <1>6, <1>7, <1>8, <1>9, <1>10, <1>11, <1>12, <1>13 DEF CsRest

\* The tenant's is.
LEMMA CsWriteTenKeeps == ASSUME CsInv, CsTypes', cswriter.of = "ten", CsWrite PROVE CsRest'
<1> USE CsNumbers
<1>0. CsTypes /\ CsPlaced /\ WriterFits /\ FlagKept /\ DiskFollows /\ Counted /\ ArchiveGrows /\ LimitKept
      /\ RecordGone /\ OneStops
  BY DEF CsInv
<1>1. /\ csm'["fn"] = csm["fn"] /\ csdb'["fn"] = csdb["fn"]
      /\ cswriter'.of = "none" /\ cswriter'.now = 0 /\ cswriter'.disk = 0 /\ cswriter.of = "ten" /\ csn'.calls = csn.calls
      /\ csghost'.over = csghost.over /\ csghost'.late = csghost.late /\ csghost'.lost["fn"] = csghost.lost["fn"]
      /\ \/ /\ ~(There("ten") /\ csm["ten"].fl = "flush") /\ csm'["ten"] = csm["ten"] /\ "ten" = "fn"
         \/ /\ There("ten") /\ There("ten")' /\ csm["ten"].fl = "flush" /\ csm'["ten"].fl = "sleep"
            /\ csm'["ten"].mem = csm["ten"].mem /\ csm'["ten"].dirty = csm["ten"].dirty
            /\ csm["ten"].disk = cswriter.disk /\ cswriter.now <= csm["ten"].mem
      /\ cswriter.disk <= cswriter.now
      /\ \/ /\ csdb'["ten"] = csdb["ten"] + cswriter.now - cswriter.disk
            /\ There("ten") /\ csm["ten"].fl = "flush" => csm'["ten"].disk = cswriter.now
         \/ /\ csdb'["ten"] = csdb["ten"] /\ csghost'.lost["ten"]
            /\ There("ten") /\ csm["ten"].fl = "flush" => csm'["ten"].disk = cswriter.disk
  <2>1. /\ csm \in [Counters -> CsData \cup {NotThere}] /\ "fn" \in Counters /\ "ten" \in Counters
        /\ csdb \in [Counters -> Count] /\ cswriter.now \in Count /\ cswriter.disk \in Count
        /\ csghost \in [over : BOOLEAN, late : BOOLEAN, lost : [Counters -> BOOLEAN]]
    BY <1>0 DEF CsTypes, Counters
  <2>2. ASSUME NEW d \in Count, CsAwake(d)
        PROVE  /\ csm'["fn"] = csm["fn"] /\ (There("ten")' <=> There("ten"))
               /\ ~Waiting("ten") => csm'["ten"] = csm["ten"]
               /\ Waiting("ten") => /\ csm'["ten"].mem = csm["ten"].mem /\ csm'["ten"].fl = "sleep"
                                  /\ csm'["ten"].dirty = csm["ten"].dirty /\ csm'["ten"].disk = d
    <3>1. CASE ~Waiting("ten")
      BY <2>2, <3>1 DEF CsAwake, Waiting, There
    <3>2. CASE Waiting("ten")
      <4>1. csm["ten"] \in CsData /\ csm' = [csm EXCEPT !["ten"] = [csm["ten"] EXCEPT !.fl = "sleep", !.disk = d]]
        BY <2>1, <2>2, <3>2 DEF CsAwake, Waiting, There
      <4>2. [csm["ten"] EXCEPT !.fl = "sleep", !.disk = d] \in CsData
        BY <4>1, DataEdits
      <4>3. QED BY <2>1, <3>2, <4>1, <4>2, CsRecords, ZenonT(60) DEF CsData, There, Waiting
    <3>3. QED BY <3>1, <3>2
  <2>3. /\ cswriter'.of = "none" /\ cswriter'.now = 0 /\ cswriter'.disk = 0 /\ csn'.calls = csn.calls
    BY <1>0, FaultIsNoCall DEF CsWrite, NoWrite
  <2>4. \/ /\ csdb' = [csdb EXCEPT !["ten"] = @ + cswriter.now - cswriter.disk] /\ CsAwake(cswriter.now)
           /\ csghost' = [csghost EXCEPT !.lost["ten"] = FALSE]
        \/ /\ csdb' = csdb /\ CsAwake(cswriter.disk)
           /\ csghost' = [csghost EXCEPT !.lost["ten"] = TRUE]
    BY DEF CsWrite
  <2>5. \/ /\ csdb'["fn"] = csdb["fn"] /\ csdb'["ten"] = csdb["ten"] + cswriter.now - cswriter.disk
           /\ CsAwake(cswriter.now)
           /\ csghost'.over = csghost.over /\ csghost'.late = csghost.late
           /\ csghost'.lost["fn"] = csghost.lost["fn"]
        \/ /\ csdb'["fn"] = csdb["fn"] /\ csdb'["ten"] = csdb["ten"] /\ CsAwake(cswriter.disk)
           /\ csghost'.over = csghost.over /\ csghost'.late = csghost.late
           /\ csghost'.lost["fn"] = csghost.lost["fn"] /\ csghost'.lost["ten"]
    BY <2>1, <2>4
  <2>6. /\ cswriter.disk <= cswriter.now /\ (~Waiting("ten") => "ten" = "fn")
        /\ Waiting("ten") => csm["ten"].disk = cswriter.disk /\ cswriter.now <= csm["ten"].mem
    BY <1>0, <2>1 DEF WriterFits
  <2>7. Waiting("ten") <=> There("ten") /\ csm["ten"].fl = "flush"
    BY DEF Waiting
  <2>8. QED BY <2>1, <2>2, <2>3, <2>5, <2>6, <2>7
<1>2. UNCHANGED <<csw, csoff, csarch, cssnap, csfnarch, csgone>> /\ CsLast' = CsLast
  BY DEF CsWrite, CsEnds, CsGoes, CsLast
<1>3. /\ nServing \in Nat /\ nUncounted \in Nat /\ Cardinality(CsWorkers) \in Nat
      /\ nUncounted <= Cardinality(CsWorkers) /\ nUncounted' <= Cardinality(CsWorkers)
      /\ nServing' = nServing /\ nUncounted' = nUncounted
  BY <1>0, <1>1, <1>2, GroupsStay
<1>4. Unwritten \in Nat
  BY <1>0, UnwrittenIsNat
<1>5. CsPlaced'
  BY <1>0, <1>1, <1>2 DEF CsPlaced, There, Entering, Removing
<1>6. WriterFits'
  BY <1>0, <1>1, <1>2 DEF WriterFits, There, Waiting, Orphan, Counters
<1>7. FlagKept'
  <2>1. ~(There("fn") /\ csm["fn"].fl = "flush")
    BY <1>0, <1>1 DEF WriterFits, Waiting, Counters
  <2>2. There("ten") /\ csm["ten"].fl = "flush" => csm["ten"].mem = cswriter.now \/ csm["ten"].dirty \/ Raising("ten")
    BY <1>0 DEF FlagKept, Counters
  <2>3. \A j \in Counters : Raising(j)' <=> Raising(j)
    BY <1>2 DEF Raising, Counters
  <2>4. QED BY <1>0, <1>1, <1>2, <2>1, <2>2, <2>3 DEF FlagKept, There, Counters, Orphan, Waiting
<1>8. DiskFollows'
  BY <1>0, <1>1, <1>2 DEF DiskFollows, There, Entering
<1>9. Counted'
  <2>1. Unwritten' = Unwritten
    BY <1>1, <1>2 DEF Unwritten, Orphan, There
  <2>2. There("ten") /\ csdb["ten"] = cswriter.disk
    BY <1>0, <1>1 DEF DiskFollows
  <2>3. csm["ten"].mem + nUncounted <= csn.calls
    BY <1>0, <2>2 DEF Counted
  <2>4. csdb'["ten"] <= csn.calls
    BY <1>0, <1>1, <1>3, <2>2, <2>3 DEF Counted
  <2>5. QED BY <1>0, <1>1, <1>2, <1>3, <1>4, <2>1, <2>4 DEF Counted, There, Entering
<1>10. ArchiveGrows'
  BY <1>0, <1>1, <1>2, SMTT(30) DEF ArchiveGrows, There
<1>11. LimitKept'
  BY <1>0, <1>1, <1>2, <1>3, <1>4 DEF LimitKept, There
<1>12. RecordGone'
  BY <1>0, <1>1, <1>2 DEF RecordGone
<1>13. OneStops'
  BY <1>0, <1>1, <1>2 DEF OneStops
<1>14. QED BY <1>5, <1>6, <1>7, <1>8, <1>9, <1>10, <1>11, <1>12, <1>13 DEF CsRest
\* The gate dies.
LEMMA CsRestartKeeps == ASSUME CsInv, CsTypes', CsRestart PROVE CsRest'
<1> USE CsNumbers
<1>0. CsTypes /\ CsPlaced /\ WriterFits /\ FlagKept /\ DiskFollows /\ Counted /\ ArchiveGrows /\ LimitKept
      /\ RecordGone /\ OneStops
  BY DEF CsInv
<1>1. /\ ~There("fn")' /\ ~There("ten")' /\ csoff' = 0 /\ cswriter'.of = "none"
      /\ cswriter'.now = 0 /\ cswriter'.disk = 0 /\ csn'.calls = csn.calls
      /\ \A w \in CsWorkers : csw'[w].pc = "idle" /\ ~csw'[w].old
      /\ csghost'.late = csghost.late
  BY <1>0, CsRecords DEF CsRestart, There, Counters, NoWrite, CsTypes
<1>2. UNCHANGED <<csdb, csarch, cssnap, csfnarch, csgone>> /\ CsLast' = CsLast
  BY DEF CsRestart, CsLast
<1>3. /\ nServing \in Nat /\ nUncounted \in Nat /\ nServing' = 0 /\ nUncounted' = 0
      /\ Cardinality(CsWorkers) \in Nat
  <2>1. Serving' = {} /\ Uncounted' = {}
    BY <1>1 DEF Serving, Uncounted
  <2>2. nServing' = 0 /\ nUncounted' = 0
    BY <2>1, FS_EmptySet DEF nServing, nUncounted
  <2>3. nServing \in Nat /\ nUncounted \in Nat /\ Cardinality(CsWorkers) \in Nat
    BY <1>0, NoGroupNegative
  <2>4. QED BY <2>2, <2>3
<1>4. Unwritten \in Nat /\ Unwritten' = 0
  <2>1. Unwritten \in Nat
    BY <1>0, UnwrittenIsNat
  <2>2. Unwritten' = 0
    BY <1>1 DEF Unwritten, Orphan
  <2>3. QED BY <2>1, <2>2
<1>5. CsPlaced'
  BY <1>0, <1>1, <1>2 DEF CsPlaced, Entering, Removing
<1>6. WriterFits'
  BY <1>0, <1>1, <1>2 DEF WriterFits, Waiting, Orphan, Counters
<1>7. FlagKept'
  BY <1>1 DEF FlagKept, Counters
<1>8. DiskFollows'
  BY <1>0, <1>1, <1>2 DEF DiskFollows, Entering
<1>9. Counted'
  BY <1>0, <1>1, <1>2, <1>3, <1>4 DEF Counted, Entering
<1>10. ArchiveGrows'
  BY <1>0, <1>1, <1>2 DEF ArchiveGrows
<1>11. LimitKept'
  <2>1. csdb["ten"] - CsLast <= CsLimit + Cardinality(CsWorkers)
    <3>1. CASE There("ten")
      <4>1. /\ csm["ten"].mem + nUncounted - csoff <= CsLimit + Cardinality(CsWorkers)
            /\ csdb["ten"] = csm["ten"].disk /\ csm["ten"].disk <= csm["ten"].mem /\ csoff <= CsLast
        BY <1>0, <3>1 DEF LimitKept, DiskFollows, WriterFits, ArchiveGrows, Counters
      <4>2. QED BY <1>0, <1>3, <3>1, <4>1
    <3>2. CASE ~There("ten")
      BY <1>0, <3>2 DEF LimitKept
    <3>3. QED BY <3>1, <3>2
  <2>2. QED BY <1>1, <1>2, <2>1 DEF LimitKept
<1>12. RecordGone'
  BY <1>0, <1>1, <1>2 DEF RecordGone
<1>13. OneStops'
  BY <1>1 DEF OneStops
<1>14. QED BY <1>5, <1>6, <1>7, <1>8, <1>9, <1>10, <1>11, <1>12, <1>13 DEF CsRest

\* The invariant holds at the start.
LEMMA CsBegins == ASSUME CsInit PROVE CsInv
<1> USE CsRecords, CsAssumption
<1>1. /\ ~There("fn") /\ ~There("ten") /\ csoff = 0 /\ cswriter.of = "none" /\ cswriter = NoWrite
      /\ cswriter.now = 0 /\ cswriter.disk = 0 /\ csn.calls = 0 /\ csarch = << >> /\ cssnap = -1
      /\ csdb["fn"] = 0 /\ csdb["ten"] = 0 /\ ~csgone /\ ~csghost.late
      /\ \A w \in CsWorkers : csw[w] = CsIdle /\ csw[w].pc = "idle" /\ ~csw[w].old
  BY DEF CsInit, There, Counters, NoWrite
<1>2. CsTypes
  <2>1. csdb \in [Counters -> Count] /\ csm \in [Counters -> CsData \cup {NotThere}]
        /\ csw \in [CsWorkers -> CswRec]
    BY DEF CsInit
  <2>2. csn \in [calls : Count, faults : Nat, restarts : Nat]
        /\ csghost \in [over : BOOLEAN, late : BOOLEAN, lost : [Counters -> BOOLEAN]]
    BY DEF CsInit
  <2>3. csarch \in Seq(Count)
    BY DEF CsInit
  <2>4. QED BY <1>1, <2>1, <2>2, <2>3 DEF CsInit, CsTypes
<1>3. nServing = 0 /\ nUncounted = 0 /\ Cardinality(CsWorkers) \in Nat
  <2>1. Serving = {} /\ Uncounted = {}
    BY <1>1 DEF Serving, Uncounted
  <2>2. QED BY <1>2, <2>1, FS_EmptySet, NoGroupNegative DEF nServing, nUncounted
<1>4. CsLast = 0
  BY <1>1 DEF CsLast
<1>5. Unwritten = 0
  BY <1>1 DEF Unwritten, Orphan
<1>6. CsPlaced /\ WriterFits /\ FlagKept /\ DiskFollows
  BY <1>1 DEF CsPlaced, WriterFits, FlagKept, DiskFollows, Counters, Entering, Removing, Waiting, Orphan
<1>7. Counted
  BY <1>1, <1>3, <1>5 DEF Counted, Entering
<1>8. ArchiveGrows /\ LimitKept /\ RecordGone /\ OneStops
  BY <1>1, <1>3, <1>4 DEF ArchiveGrows, LimitKept, RecordGone, OneStops
<1>9. QED BY <1>2, <1>6, <1>7, <1>8 DEF CsInv

\* And every step keeps it.
LEMMA CsContinues == ASSUME CsInv, [CsNext]_csVars PROVE CsInv'
<1>1. CsTypes'
  BY CsTypeStep
<1>2. CASE UNCHANGED csVars
  BY <1>2 DEF csVars, CsInv, CsTypes, CsPlaced, WriterFits, FlagKept, DiskFollows, Counted, ArchiveGrows,
     LimitKept, RecordGone, OneStops, There, Waiting, Orphan, Raising, Entering, Removing, Uncounted,
     Serving, nUncounted, nServing, Unwritten, CsLast, NoWrite
<1>3. ASSUME CsNext PROVE CsRest'
  <2>1. ASSUME NEW w \in CsWorkers, CsRequest(w) PROVE CsRest'
    BY <1>1, <2>1, CsEnterKeeps, CsTenReadKeeps, CsTenOffKeeps, CsTenStoreKeeps, CsFnStoreKeeps, CsCallKeeps,
       CsCountKeeps, CsDirtyKeeps, CsTenCountKeeps, CsTenDirtyKeeps, CsClosedKeeps, CsStopKeeps, CsDropArchKeeps,
       CsDropRemoveKeeps, CsGoneKeeps DEF CsRequest
  <2>2. ASSUME NEW k \in Counters, CsFlush(k) PROVE CsRest'
    BY <1>1, <2>2, CsTickFnKeeps, CsTickTenKeeps, CsTakeFnKeeps, CsTakeTenKeeps DEF CsFlush, Counters
  <2>3. CASE CsWrite
    <3>1. cswriter.of \in {"fn", "ten"}
      BY <2>3 DEF CsWrite, CsInv, CsTypes, Counters
    <3>2. QED BY <1>1, <2>3, <3>1, CsWriteFnKeeps, CsWriteTenKeeps
  <2>4. CASE CsSetupLimits \/ CsScrape \/ CsArchive \/ CsRestart
    BY <1>1, <2>4, CsSetupLimitsKeeps, CsScrapeKeeps, CsArchiveKeeps, CsRestartKeeps
  <2>5. QED BY <1>3, <2>1, <2>2, <2>3, <2>4 DEF CsNext
<1>4. QED BY <1>1, <1>2, <1>3 DEF CsRest, CsInv

\* The inductive invariant of the statistics holds.
THEOREM CsInvHolds == CsSpec => []CsInv
BY CsBegins, CsContinues, PTL DEF CsSpec

\* The variables of the statistics have their types: no counter exceeds the calls
\* (stats.go, fdmdat.go).
THEOREM StatsTypes == CsSpec => []CsTypeOK
<1>1. ASSUME CsInv PROVE CsTypeOK
  <2>1. CsTypes
    BY <1>1 DEF CsInv
  <2>2. QED BY <2>1 DEF CsTypes, CsTypeOK, CswRec, CsLabels
<1>2. QED BY <1>1, CsInvHolds, PTL

\* Calls are counted once and for good: in memory, in the database, in the archive
\* and against the limit, whatever the requests, removals, failures and deaths of
\* the gate (stats.go, fdmdat.go, the gate's scraper).
THEOREM StatsAreSound == CsSpec => []StatsSound
<1>1. ASSUME CsInv PROVE StatsSound
  <2> USE CsNumbers
  <2>0. CsTypes /\ CsPlaced /\ WriterFits /\ FlagKept /\ DiskFollows /\ Counted /\ ArchiveGrows /\ LimitKept
        /\ RecordGone /\ OneStops
    BY <1>1 DEF CsInv
  <2>1. CleanIsFlushed
    <3>1. ASSUME NEW k \in Counters, There(k), csm[k].fl = "sleep", ~csm[k].dirty, ~csghost.lost[k], ~csghost.late,
                 \A w \in CsWorkers : csw[w].pc # (IF k = "fn" THEN "dirty" ELSE "tdirty")
          PROVE  csdb[k] = csm[k].mem
      <4>1. csm[k].mem = csm[k].disk
        BY <2>0, <3>1 DEF FlagKept, Raising
      <4>2. csdb[k] = csm[k].disk
        BY <2>0, <3>1 DEF DiskFollows, Counters
      <4>3. QED BY <4>1, <4>2
    <3>2. QED BY <3>1 DEF CleanIsFlushed, There
  <2>2. CountedOnce
    BY <2>0 DEF Counted, CountedOnce
  <2>3. PeriodsNotNegative
    <3>1. There("ten") => csoff <= CsLast /\ CsLast <= csm["ten"].mem
      BY <2>0 DEF ArchiveGrows, DiskFollows, WriterFits, Counters
    <3>2. QED BY <2>0, <3>1 DEF PeriodsNotNegative, ArchiveGrows, There
  <2>4. OverLimitBounded
    <3>1. nUncounted \in Nat /\ Cardinality(CsWorkers) \in Nat
      BY <2>0, NoGroupNegative
    <3>2. There("ten") => csm["ten"].mem + nUncounted - csoff <= CsLimit + Cardinality(CsWorkers)
      BY <2>0 DEF LimitKept
    <3>3. There("ten") => csm["ten"].mem - csoff <= CsLimit + 1 + (Cardinality(CsWorkers) - 1)
      BY <2>0, <3>1, <3>2
    <3>4. QED BY <3>3 DEF OverLimitBounded, There
  <2>5. DroppedStaysDropped
    BY <2>0 DEF RecordGone, DroppedStaysDropped
  <2>6. StopIsHeard
    BY <2>0 DEF OneStops, StopIsHeard
  <2>7. QED BY <2>1, <2>2, <2>3, <2>4, <2>5, <2>6 DEF StatsSound
<1>2. QED BY <1>1, CsInvHolds, PTL

-----------------------------------------------------------------------------
(* Routers.                                                                *)

\* A table that a call would be routed by is the stored one, or one whose writer
\* has not cleaned the cache yet.
InForce(tab) == tab = rtable \/ \E w \in RtWorkers : rtpc[w] = "clean" /\ rold[w] = tab

\* What is cached, and what a call is about to cache, is in force.
CacheInForce ==
    /\ rcached # NoRouter /\ ~rlate => InForce(rcached)
    /\ \A c \in RtCallers : rcpc[c] = "store" =>
          rctab[c] # NoRouter /\ (~rlate => InForce(rctab[c]))

\* A call that runs has seen every table in force since it began.
SeenInForce ==
    /\ \A c \in RtCallers : rcpc[c] # "idle" =>
          /\ rtable \in rcseen[c]
          /\ \A w \in RtWorkers : rtpc[w] = "clean" => rold[w] \in rcseen[c]
    /\ \A c \in RtCallers : rcpc[c] = "handle" =>
          rctab[c] # NoRouter /\ (~rlate => rctab[c] \in rcseen[c])

\* The inductive invariant: RoutedAsStored needs to know which tables a call has
\* seen, and that nothing else is ever cached.
RtInv == RtTypeOK /\ CacheInForce /\ SeenInForce /\ RoutedAsStored

\* What a table answers is an answer, and a function only if the table admits the
\* request to it (RouterURL.Handle).
LEMMA RouteAnswers ==
  ASSUME NEW tab \in Tables, NEW q \in Requests, NEW fns \in SUBSET RtFns
  PROVE  /\ Route(tab, q, fns) \in Answers
         /\ Route(tab, q, fns) \in RtFns =>
               tab # NoEntry /\ tab.call = Route(tab, q, fns) /\ q.method \in tab.methods /\ (tab.auth => q.claims)
  <1>1. CASE tab = NoEntry
    BY <1>1, RoutersAssumption DEF Route, Answers
  <1>2. CASE tab \in Entries /\ tab # NoEntry
    BY <1>2, RoutersAssumption DEF Route, Answers, Entries
  <1>3. QED BY <1>1, <1>2 DEF Tables

\* The types hold initially and in every step of requests, calls and clean-ups.
LEMMA RtTypeStep == ASSUME RtTypeOK, SeenInForce, [RtNext]_rtVars PROVE RtTypeOK'
<1> USE DEF RtTypeOK
<1> DEFINE Tabs == Tables \cup {NoRouter}
<1>1. CASE UNCHANGED rtVars
  BY <1>1 DEF rtVars
<1>2. ASSUME NEW tab \in Tabs, Write(tab)
      PROVE  rtable' \in Tabs /\ rwrites' \in 0 .. RtMaxWrites /\ rcseen' \in [RtCallers -> SUBSET Tabs]
  BY <1>2, RoutersAssumption DEF Write
<1>3. CASE \E tab \in Tables : RtAdd(tab)
  BY <1>2, <1>3 DEF RtAdd
<1>4. ASSUME NEW w \in RtWorkers, RtClean(w) \/ \E tab \in Tables \cup {NoRouter} : RtWrite(w, tab)
      PROVE  RtTypeOK'
  BY <1>2, <1>4 DEF RtClean, RtWrite, rcVars
<1>5. CASE \E f \in RtFns : RtFn(f)
  BY <1>5 DEF RtFn, rcVars
<1>6. ASSUME NEW c \in RtCallers, NEW q \in Requests, RcBegin(c, q)
      PROVE  RtTypeOK'
  BY <1>6 DEF RcBegin, RcGoto, Answers
<1>7. ASSUME NEW c \in RtCallers, RcFind(c) \/ RcMake(c) \/ RcStore(c)
      PROVE  RtTypeOK'
  BY <1>7 DEF RcFind, RcMake, RcStore, RcGoto, Answers
<1>8. ASSUME NEW c \in RtCallers, RcHandle(c)
      PROVE  RtTypeOK'
  <2>1. rctab[c] \in Tables /\ rcreq[c] \in Requests /\ rfns \in SUBSET RtFns
    BY <1>8 DEF RcHandle, SeenInForce
  <2>2. Route(rctab[c], rcreq[c], rfns) \in Answers
    BY <2>1, RouteAnswers
  <2>3. QED BY <1>8, <2>2 DEF RcHandle, RcGoto
<1>9. QED BY <1>1, <1>3, <1>4, <1>5, <1>6, <1>7, <1>8 DEF RtNext

\* What is cached and what is about to be cached stays in force.
LEMMA CacheStep == ASSUME RtTypeOK, CacheInForce, [RtNext]_rtVars PROVE CacheInForce'
<1> USE DEF CacheInForce
<1>1. CASE UNCHANGED rtVars
  BY <1>1 DEF rtVars, InForce
<1>2. ASSUME NEW tab \in Tables, RtAdd(tab)
      PROVE  CacheInForce'
  <2>1. \A u : u # NoRouter /\ InForce(u) => InForce(u)'
    BY <1>2 DEF RtAdd, Write, InForce
  <2>2. QED BY <1>2, <2>1 DEF RtAdd
<1>3. ASSUME NEW w \in RtWorkers, NEW tab \in Tables \cup {NoRouter}, RtWrite(w, tab)
      PROVE  CacheInForce'
  <2>1. \A u : InForce(u) => InForce(u)'
    BY <1>3 DEF RtWrite, Write, InForce, RtTypeOK
  <2>2. QED BY <1>3, <2>1 DEF RtWrite
<1>4. ASSUME NEW w \in RtWorkers, RtClean(w)
      PROVE  CacheInForce'
  BY <1>4 DEF RtClean, rcVars, InForce
<1>5. ASSUME NEW f \in RtFns, RtFn(f)
      PROVE  CacheInForce'
  BY <1>5 DEF RtFn, rcVars, InForce
<1>6. ASSUME NEW c \in RtCallers, NEW q \in Requests, RcBegin(c, q)
      PROVE  CacheInForce'
  BY <1>6 DEF RcBegin, RcGoto, InForce, RtTypeOK
<1>7. ASSUME NEW c \in RtCallers, RcFind(c) \/ RcMake(c) \/ RcHandle(c)
      PROVE  CacheInForce'
  BY <1>7 DEF RcFind, RcMake, RcHandle, RcGoto, InForce, RtTypeOK
<1>8. ASSUME NEW c \in RtCallers, RcStore(c)
      PROVE  CacheInForce'
  BY <1>8 DEF RcStore, RcGoto, InForce, RtTypeOK
<1>9. QED BY <1>1, <1>2, <1>3, <1>4, <1>5, <1>6, <1>7, <1>8 DEF RtNext

\* A call goes on seeing every table in force, and what it handles is one of them.
LEMMA SeenStep ==
  ASSUME RtTypeOK, CacheInForce, SeenInForce, [RtNext]_rtVars
  PROVE  SeenInForce'
<1> USE DEF SeenInForce
<1>1. CASE UNCHANGED rtVars
  BY <1>1 DEF rtVars
<1>2. ASSUME NEW tab \in Tables, RtAdd(tab)
      PROVE  SeenInForce'
  BY <1>2 DEF RtAdd, Write, RtTypeOK
<1>3. ASSUME NEW w \in RtWorkers, NEW tab \in Tables \cup {NoRouter}, RtWrite(w, tab)
      PROVE  SeenInForce'
  BY <1>3 DEF RtWrite, Write, RtTypeOK
<1>4. ASSUME NEW w \in RtWorkers, RtClean(w)
      PROVE  SeenInForce'
  BY <1>4 DEF RtClean, rcVars, RtTypeOK
<1>5. ASSUME NEW f \in RtFns, RtFn(f)
      PROVE  SeenInForce'
  BY <1>5 DEF RtFn, rcVars
<1>6. ASSUME NEW c \in RtCallers, NEW q \in Requests, RcBegin(c, q)
      PROVE  SeenInForce'
  BY <1>6 DEF RcBegin, RcGoto, RtTypeOK
<1>7. ASSUME NEW c \in RtCallers, RcFind(c) \/ RcStore(c)
      PROVE  SeenInForce'
  <2>1. \A u : InForce(u) => u \in rcseen[c]
    BY <1>7 DEF InForce, RcFind, RcStore
  <2>2. QED BY <1>7, <2>1 DEF RcFind, RcStore, RcGoto, CacheInForce, RtTypeOK
<1>8. ASSUME NEW c \in RtCallers, RcMake(c) \/ RcHandle(c)
      PROVE  SeenInForce'
  BY <1>8 DEF RcMake, RcHandle, RcGoto, RtTypeOK
<1>9. QED BY <1>1, <1>2, <1>3, <1>4, <1>5, <1>6, <1>7, <1>8 DEF RtNext

\* A call is answered by what a table it has seen admits it to.
LEMMA RoutedStep ==
  ASSUME RtTypeOK, SeenInForce, RoutedAsStored, [RtNext]_rtVars
  PROVE  RoutedAsStored'
<1> USE DEF RoutedAsStored
<1>1. CASE UNCHANGED rtVars
  BY <1>1 DEF rtVars, RtAdmitted
<1>2. ASSUME NEW tab \in Tables \cup {NoRouter}, Write(tab), UNCHANGED <<rcpc, rcreq, rcres, rlate>>
      PROVE  RoutedAsStored'
  BY <1>2 DEF Write, RtAdmitted
<1>3. CASE \E tab \in Tables : RtAdd(tab)
  BY <1>2, <1>3 DEF RtAdd
<1>4. ASSUME NEW w \in RtWorkers, NEW tab \in Tables \cup {NoRouter}, RtWrite(w, tab)
      PROVE  RoutedAsStored'
  BY <1>2, <1>4 DEF RtWrite
<1>5. CASE (\E w \in RtWorkers : RtClean(w)) \/ (\E f \in RtFns : RtFn(f))
  <2>1. UNCHANGED rcVars /\ (~rlate' => ~rlate)
    BY <1>5 DEF RtClean, RtFn, RtTypeOK
  <2>2. QED BY <2>1 DEF rcVars, RtAdmitted
<1>6. ASSUME NEW c \in RtCallers, NEW q \in Requests, RcBegin(c, q)
      PROVE  RoutedAsStored'
  BY <1>6 DEF RcBegin, RcGoto, RtTypeOK, RtAdmitted
<1>7. ASSUME NEW c \in RtCallers, RcFind(c) \/ RcMake(c) \/ RcStore(c)
      PROVE  RoutedAsStored'
  BY <1>7, RoutersAssumption DEF RcFind, RcMake, RcStore, RcGoto, RtTypeOK, RtAdmitted
<1>8. ASSUME NEW c \in RtCallers, RcHandle(c)
      PROVE  RoutedAsStored'
  <2> DEFINE f == Route(rctab[c], rcreq[c], rfns)
  <2>1. rctab[c] \in Tables /\ rcreq[c] \in Requests /\ rfns \in SUBSET RtFns
    BY <1>8 DEF RcHandle, SeenInForce, RtTypeOK
  <2>2. f \in RtFns /\ ~rlate => RtAdmitted(c, f)
    BY <1>8, <2>1, RouteAnswers, RoutersAssumption DEF RcHandle, SeenInForce, RtAdmitted
  <2>3. rcpc'[c] = "idle" /\ rcres'[c] = f
    BY <1>8 DEF RcHandle, RcGoto, RtTypeOK
  <2>4. QED BY <1>8, <2>2, <2>3 DEF RcHandle, RcGoto, RtAdmitted, RtTypeOK
<1>9. QED BY <1>1, <1>3, <1>4, <1>5, <1>6, <1>7, <1>8 DEF RtNext

\* The inductive invariant of a router.
LEMMA RtInvHolds == RtSpec => []RtInv
<1>1. RtInit => RtInv
  <2> SUFFICES ASSUME RtInit PROVE RtInv
    OBVIOUS
  <2>1. [method |-> "GET", claims |-> FALSE] \in Requests /\ "none" \in Answers
    BY DEF Requests, Methods, Answers
  <2>2. RtTypeOK
    <3>1. RtMaxWrites \in Nat /\ rwrites = 0 /\ rlate = FALSE /\ rfns = RtFns
      BY RoutersAssumption DEF RtInit
    <3>2. rlate \in BOOLEAN /\ rfns \subseteq RtFns
      BY <3>1, Zenon
    <3>3. rwrites \in 0 .. RtMaxWrites
      BY <3>1
    <3>4. rcseen \in [RtCallers -> SUBSET (Tables \cup {NoRouter})]
      BY DEF RtInit
    <3>5. rcres \in [RtCallers -> Answers] /\ rcreq \in [RtCallers -> Requests]
      BY <2>1 DEF RtInit
    <3>6. QED BY <3>2, <3>3, <3>4, <3>5 DEF RtInit, RtTypeOK
  <2>3. CacheInForce /\ SeenInForce
    BY DEF RtInit, CacheInForce, SeenInForce
  <2>4. RoutedAsStored
    BY RoutersAssumption DEF RtInit, RoutedAsStored
  <2>5. QED BY <2>2, <2>3, <2>4 DEF RtInv
<1>2. RtInv /\ [RtNext]_rtVars => RtInv'
  BY RtTypeStep, CacheStep, SeenStep, RoutedStep DEF RtInv
<1>3. QED BY <1>1, <1>2, PTL DEF RtSpec

\* The variables of a router, its cache and its calls have their types (router.go,
\* url.go).
THEOREM RouterTypes == RtSpec => []RtTypeOK
  BY RtInvHolds, PTL DEF RtInv

\* Calls are routed by the table that is stored once its writers have cleaned the
\* cache, and run only what a table in force during the call admits them to, but
\* for a lookup that is stored late (setTable, urlClean, urlFind, RouterURL.Handle).
THEOREM RoutesAreSound == RtSpec => []RoutesSound
<1>1. RtInv => RoutesSound
  BY DEF RtInv, CacheInForce, InForce, RoutesSound, RouteIsCurrent
<1>2. QED BY <1>1, RtInvHolds, PTL

-----------------------------------------------------------------------------
(* MCCalls: one behaviour of one part, the others standing still.           *)

\* A behaviour of MCCalls is one of every part.
LEMMA CallsParts ==
  CallsSpec => PodsSpec /\ ScalerSpec /\ RlSpec /\ CsSpec /\ TgSpec /\ RtSpec
<1>1. CallsInit => PodsInit /\ ScalerInit /\ RlInit /\ CsInit /\ TgInit /\ RtInit
  BY DEF CallsInit
<1>2. [CallsNext]_callsVars =>
        /\ [PodsNext]_podsVars /\ [ScalerNext]_scalerVars /\ [RlNext]_rlVars
        /\ [CsNext]_csVars /\ [TgNext]_tgVars /\ [RtNext]_rtVars
  BY DEF CallsNext, callsVars
<1>3. QED BY <1>1, <1>2, PTL DEF CallsSpec, PodsSpec, ScalerSpec, RlSpec, CsSpec, TgSpec, RtSpec

\* The variables of every part have their types: no structure of pods is locked
\* through a nil pointer, no count goes below zero, no listener is stopped that was
\* not started (pods.go, scaler.go, ratelimit, stats.go, event.go, router.go).
THEOREM CallsTypes == CallsSpec => []CallsTypeOK
<1>1. PodsTypeOK /\ ScalerTypeOK /\ RlTypeOK /\ CsTypeOK /\ TgTypeOK /\ RtTypeOK => CallsTypeOK
  BY DEF CallsTypeOK
<1>2. QED BY <1>1, CallsParts, PodsTypes, ScalerTypes, RateTypes, StatsTypes, TriggerTypes, RouterTypes, PTL
=============================================================================
