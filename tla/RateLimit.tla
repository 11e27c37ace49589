----------------------------- MODULE RateLimit ------------------------------
(***************************************************************************)
(* The rate limiter of common/ratelimit and its use by the gate: a call of *)
(* a function takes a token from the function's limiter, then from the     *)
(* tenant's, then from the gate's, and gives back what it took when a      *)
(* later one refuses (FnMemData.ratelimited).  Calls run side by side; a   *)
(* step is one Get or Put, which the limiter's mutex makes atomic.  The    *)
(* tenant's limits are pulled from the database again and again, and a     *)
(* request may change the function's: both end in Update.                  *)
(*                                                                         *)
(* Time is in ticks.  Levels are numbered in the order the call visits     *)
(* them; 1..Levels may be shorter than three, for a limiter that is nil.   *)
(***************************************************************************)
EXTENDS Integers, FiniteSets

CONSTANTS
    RlCalls,        \* calls of the function
    Levels,       \* the number of limiters in force
    Burst,        \* RL.burst of each: one more than the burst asked for
    Eps,          \* RL.eps
    Base,         \* RL.base, in ticks
    MaxTime,      \* bound on the clock
    MaxUpdates    \* bound on calls of Update

ASSUME RateAssumption ==
    /\ IsFiniteSet(RlCalls)
    /\ Levels \in Nat \ {0}
    /\ Burst \in [1..Levels -> Nat \ {0}]
    /\ Eps \in [1..Levels -> Nat \ {0}]
    /\ Base \in Nat \ {0}
    /\ MaxTime \in Nat /\ MaxUpdates \in Nat

VARIABLES
    now,       \* the clock
    bts,       \* RL.bts of each limiter
    t,         \* RL.t
    at,        \* each call: the limiter it is at
    dir,       \* and whether it takes tokens, gives them back, or is over
    given,     \* tokens a limiter was ever filled with
    updates

rlVars == <<now, bts, t, at, dir, given, updates>>

Limiters == 1..Levels
Dirs == {"get", "put", "admitted", "refused"}

RlTypeOK ==
    /\ now \in 0..MaxTime
    /\ bts \in [Limiters -> Nat] /\ t \in [Limiters -> Nat]
    /\ at \in [RlCalls -> 0..Levels + 1] /\ dir \in [RlCalls -> Dirs]
    /\ given \in [Limiters -> Int]
    /\ updates \in 0..MaxUpdates

\* MakeRL for each limiter; no call has begun
RlInit ==
    /\ now = 0
    /\ bts = Burst /\ t = [l \in Limiters |-> 0]
    /\ at = [c \in RlCalls |-> 1] /\ dir = [c \in RlCalls |-> "get"]
    /\ given = Burst
    /\ updates = 0

-----------------------------------------------------------------------------
Least(a, b) == IF a <= b THEN a ELSE b

\* Get: the tokens d ticks bring an empty limiter, none for a refusal, and how
\* far its clock moves
Refill(l, d) == IF d >= Base THEN Burst[l] ELSE Least((d * Eps[l]) \div Base, Burst[l])
Advance(l, d) == IF d >= Base THEN d ELSE (Base * ((d * Eps[l]) \div Base)) \div Eps[l]

\* the call turns round at limiter l, which refused it
TurnBack(c, l) ==
    /\ at' = [at EXCEPT ![c] = l - 1]
    /\ dir' = [dir EXCEPT ![c] = IF l = 1 THEN "refused" ELSE "put"]

\* and goes on to the next when it got a token
Proceed(c, l) ==
    /\ at' = [at EXCEPT ![c] = l + 1]
    /\ dir' = [dir EXCEPT ![c] = IF l = Levels THEN "admitted" ELSE "get"]

\* Get with tokens left
GetLeft(c) ==
    LET l == at[c] IN
    /\ dir[c] = "get" /\ bts[l] > 0
    /\ bts' = [bts EXCEPT ![l] = @ - 1]
    /\ Proceed(c, l)
    /\ UNCHANGED <<now, t, given, updates>>

\* mutant: time that passed since the last refill is counted again
GetRefill_KeepsTime(c) ==
    LET l == at[c]
        n == Refill(l, now - t[l])
    IN
    /\ dir[c] = "get" /\ bts[l] = 0 /\ n > 0
    /\ bts' = [bts EXCEPT ![l] = n - 1]
    /\ given' = [given EXCEPT ![l] = @ + n]
    /\ Proceed(c, l)
    /\ UNCHANGED <<now, t, updates>>

\* Get from an empty limiter that the time since t refills
GetRefill(c) ==
    LET l == at[c]
        d == now - t[l]
        n == Refill(l, d)
    IN
    /\ dir[c] = "get" /\ bts[l] = 0 /\ n > 0
    /\ bts' = [bts EXCEPT ![l] = n - 1]
    /\ t' = [t EXCEPT ![l] = @ + Advance(l, d)]
    /\ given' = [given EXCEPT ![l] = @ + n]
    /\ Proceed(c, l)
    /\ UNCHANGED <<now, updates>>

\* mutant: a call refused by a later limiter gives nothing back
GetRefused_Keeps(c) ==
    LET l == at[c] IN
    /\ dir[c] = "get" /\ bts[l] = 0 /\ Refill(l, now - t[l]) = 0
    /\ at' = at /\ dir' = [dir EXCEPT ![c] = "refused"]
    /\ UNCHANGED <<now, bts, t, given, updates>>

\* Get that refuses
GetRefused(c) ==
    LET l == at[c] IN
    /\ dir[c] = "get" /\ bts[l] = 0 /\ Refill(l, now - t[l]) = 0
    /\ TurnBack(c, l)
    /\ UNCHANGED <<now, bts, t, given, updates>>

\* Put: a token that no longer fits is dropped
Put(c) ==
    LET l == at[c] IN
    /\ dir[c] = "put"
    /\ bts' = [bts EXCEPT ![l] = IF @ < Burst[l] THEN @ + 1 ELSE @]
    /\ TurnBack(c, l)
    /\ UNCHANGED <<now, t, given, updates>>

\* Update with the same limits, as setupLimits calls it every period
Update(l) ==
    /\ updates < MaxUpdates
    /\ updates' = updates + 1
    /\ bts' = [bts EXCEPT ![l] = Burst[l]]
    /\ t' = [t EXCEPT ![l] = now]
    /\ given' = [given EXCEPT ![l] = @ + Burst[l] - bts[l]]
    /\ UNCHANGED <<now, at, dir>>

Tick ==
    /\ now < MaxTime
    /\ now' = now + 1
    /\ UNCHANGED <<bts, t, at, dir, given, updates>>

RlNext ==
    \/ Tick
    \/ \E l \in Limiters : Update(l)
    \/ \E c \in RlCalls : GetLeft(c) \/ GetRefill(c) \/ GetRefused(c) \/ Put(c)

RlSpec == RlInit /\ [][RlNext]_rlVars

-----------------------------------------------------------------------------
\* the calls that have taken a token of limiter l and not given it back
Holding(l) ==
    {c \in RlCalls : \/ dir[c] = "get" /\ at[c] > l
                     \/ dir[c] = "put" /\ at[c] >= l
                     \/ dir[c] = "admitted"}

Admitted == {c \in RlCalls : dir[c] = "admitted"}

(* Put and Get: a limiter never holds more tokens than its burst.          *)
Bounded == \A l \in Limiters : bts[l] <= Burst[l]

(* ratelimited: tokens are not made up: those that calls hold and those    *)
(* that are left are tokens the limiter was filled with.                   *)
Conserved == \A l \in Limiters : bts[l] + Cardinality(Holding(l)) <= given[l]

(* ratelimited: a call that a later limiter refuses costs the earlier ones *)
(* nothing: until a limiter is filled again, what calls do not hold is     *)
(* still there.                                                            *)
RefusalsReturn ==
    \A l \in Limiters : given[l] = Burst[l] => bts[l] + Cardinality(Holding(l)) = Burst[l]

(* Get, Put and ratelimited together: tokens are neither made up nor lost, *)
(* though calls give back to limiters that others refill.                  *)
TokensKept == Bounded /\ Conserved /\ RefusalsReturn

\* what a limiter may admit at once: its burst, and again after each Update
Allowance(l) == Burst[l] * (1 + updates)

(* Get, as its comment has it: Base / Eps ticks are needed for a token, so *)
(* by any time at most a burst, one more for each Update, and Eps calls    *)
(* per Base ticks were admitted.                                           *)
RateHolds ==
    \A l \in Limiters : Cardinality(Admitted) * Base <= Allowance(l) * Base + Eps[l] * now
=============================================================================
