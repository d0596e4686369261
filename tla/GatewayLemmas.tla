---------------------------- MODULE GatewayLemmas ----------------------------
(***************************************************************************)
(* What the operators of the two devices the gateway guards its providers  *)
(* with return, preserve and bound: of a token bucket for every capacity,  *)
(* rate and cost, and of a breaker for every threshold and cool-down.      *)
(***************************************************************************)
EXTENDS TokenBucket, Breaker, TLAPS

USE BucketAssumption

\* Products of a rate and a time.
LEMMA RateTimesTime ==
    ASSUME NEW r \in Nat, NEW e \in Nat
    PROVE  r * e \in Nat /\ r * (e + 1) = r * e + r
OBVIOUS

\* What acquire does to one bucket.

\* Refilling yields a bucket stamped with the time of the call.
LEMMA RefilledType ==
    ASSUME NEW b \in Bucket \cup {NoBucket}, NEW t \in Int
    PROVE  /\ Refilled(b, t) \in Bucket
           /\ Refilled(b, t).updated_at = t
<1>1. CASE b = NoBucket
  BY <1>1 DEF Refilled, Bucket
<1>2. CASE b \in Bucket
  <2>1. Elapsed(b, t) \in Nat
    BY <1>2 DEF Elapsed, Bucket
  <2>2. Refill * Elapsed(b, t) \in Nat
    BY <2>1
  <2>3. b # NoBucket
    BY <1>2
  <2>4. Smaller(Capacity, b.tokens + Refill * Elapsed(b, t)) \in 0..Capacity
    BY <1>2, <2>2 DEF Smaller, Bucket
  <2>5. QED
    BY <2>3, <2>4 DEF Refilled, Bucket
<1>3. QED
  BY <1>1, <1>2

\* acquire never overdraws: the bucket it leaves is well-formed again, worth
\* the refilled bucket minus the call if it granted, and the same if not.
LEMMA AcquiredType ==
    ASSUME NEW b \in Bucket \cup {NoBucket}, NEW t \in Int
    PROVE  /\ Acquired(b, t) \in Bucket
           /\ Acquired(b, t).updated_at = t
           /\ Acquired(b, t).tokens = IF Grants(b, t) THEN Level(b, t) - CallCost
                                                      ELSE Level(b, t)
<1>1. Refilled(b, t) \in Bucket /\ Refilled(b, t).updated_at = t
  BY RefilledType
<1>2. QED
  BY <1>1 DEF Acquired, Grants, Level, Bucket

LEMMA LevelType ==
    ASSUME NEW b \in Bucket \cup {NoBucket}, NEW t \in Int
    PROVE  Level(b, t) \in 0..Capacity
BY RefilledType DEF Level, Bucket

\* At the moment of its last update a bucket is worth what it holds.
LEMMA LevelAtUpdate ==
    ASSUME NEW b \in Bucket
    PROVE  Level(b, b.updated_at) = b.tokens
<1>1. b # NoBucket
  OBVIOUS
<1>2. Elapsed(b, b.updated_at) = 0
  BY DEF Elapsed, Bucket
<1>3. QED
  BY <1>1, <1>2 DEF Level, Refilled, Smaller, Bucket

\* A tick adds Refill to what a bucket is worth, up to the capacity, unless
\* the clock is still behind its last update; then it only catches up.
LEMMA LevelAfterTick ==
    ASSUME NEW b \in Bucket \cup {NoBucket}, NEW t \in Int
    PROVE  /\ Lag(b, t) = 0 =>
                /\ Level(b, t + 1) = Smaller(Capacity, Level(b, t) + Refill)
                /\ Lag(b, t + 1) = 0
           /\ Lag(b, t) # 0 =>
                /\ Level(b, t + 1) = Level(b, t)
                /\ Lag(b, t + 1) = Lag(b, t) - 1
<1>1. CASE b = NoBucket
  BY <1>1 DEF Level, Refilled, Lag, Smaller
<1>2. CASE b \in Bucket
  <2>1. b # NoBucket /\ b.updated_at \in Int /\ b.tokens \in 0..Capacity
    BY <1>2 DEF Bucket
  <2>2. CASE b.updated_at > t
    <3>1. Elapsed(b, t) = 0 /\ Elapsed(b, t + 1) = 0
      BY <2>1, <2>2 DEF Elapsed
    <3>2. QED
      BY <2>1, <2>2, <3>1 DEF Level, Refilled, Lag, Smaller
  <2>3. CASE b.updated_at <= t
    <3>1. Elapsed(b, t) \in Nat /\ Elapsed(b, t + 1) = Elapsed(b, t) + 1
      BY <2>1, <2>3 DEF Elapsed
    <3>2. /\ Refill * Elapsed(b, t) \in Nat
          /\ Refill * Elapsed(b, t + 1) = Refill * Elapsed(b, t) + Refill
      BY <3>1, RateTimesTime
    <3>3. Lag(b, t) = 0 /\ Lag(b, t + 1) = 0
      BY <2>1, <2>3 DEF Lag
    <3>4. QED
      BY <2>1, <3>2, <3>3 DEF Level, Refilled, Smaller
  <2>4. QED
    BY <2>1, <2>2, <2>3
<1>3. QED
  BY <1>1, <1>2

\* Setting the clock back makes no bucket richer and none less ahead.
LEMMA LevelAfterStepBack ==
    ASSUME NEW b \in Bucket \cup {NoBucket}, NEW t \in Int, NEW d \in Nat
    PROVE  Level(b, t - d) <= Level(b, t) /\ Lag(b, t - d) >= Lag(b, t)
<1>1. CASE b = NoBucket
  BY <1>1 DEF Level, Refilled, Lag
<1>2. CASE b \in Bucket
  <2>1. b # NoBucket /\ b.updated_at \in Int /\ b.tokens \in 0..Capacity
    BY <1>2 DEF Bucket
  <2>2. Elapsed(b, t) \in Nat /\ Elapsed(b, t - d) \in Nat
        /\ Elapsed(b, t - d) <= Elapsed(b, t)
    BY <2>1 DEF Elapsed
  <2>3. Refill * Elapsed(b, t - d) <= Refill * Elapsed(b, t)
    BY <2>2
  <2>4. Refill * Elapsed(b, t - d) \in Nat /\ Refill * Elapsed(b, t) \in Nat
    BY <2>2
  <2>5. Level(b, t - d) <= Level(b, t)
    BY <2>1, <2>3, <2>4 DEF Level, Refilled, Smaller
  <2>6. QED
    BY <2>1, <2>5 DEF Lag
<1>3. QED
  BY <1>1, <1>2

\* The advertised wait is a number of ticks.
LEMMA RetryAfterType ==
    ASSUME NEW b \in Bucket \cup {NoBucket}, NEW t \in Int
    PROVE  RetryAfter(b, t) \in Int
<1> DEFINE n == CallCost - Refilled(b, t).tokens
           d == Refill * Grain
<1>1. n \in Int
  BY RefilledType DEF Bucket
<1>2. Refill # 0 => d \in Nat \ {0}
  BY DEF Bucket
<1>3. Refill # 0 => n \div d \in Int /\ n % d \in Int
  BY <1>1, <1>2
<1>4. Refill # 0 => RoundedQuotient(n, d) \in Int
  BY <1>3 DEF RoundedQuotient
<1>5. ASSUME NEW q \in Int PROVE q * Grain \in Int
  OBVIOUS
<1>6. QED
  BY <1>4, <1>5 DEF RetryAfter

\* Rounding to the nearest loses less than one quotient.
LEMMA RoundedLoses ==
    ASSUME NEW n \in Nat, NEW d \in Nat \ {0}
    PROVE  RoundedQuotient(n, d) \in Nat /\ n <= (RoundedQuotient(n, d) + 1) * d
<1> DEFINE q == n \div d
           r == n % d
<1>1. n = d * q + r /\ r \in 0..(d - 1) /\ q \in Nat
  OBVIOUS
<1>2. RoundedQuotient(n, d) \in {q, q + 1}
  BY DEF RoundedQuotient
<1> HIDE DEF q, r
<1>3. (q + 1) * d = d * q + d /\ (q + 2) * d = d * q + d + d /\ d * q \in Nat
  BY <1>1
<1>4. (q + 1) + 1 = q + 2
  BY <1>1
<1>5. n <= (q + 1) * d /\ n <= (q + 2) * d
  BY <1>1, <1>3
<1> QED BY <1>1, <1>2, <1>4, <1>5

\* What a refused call lacks is refilled during the advertised wait and one
\* more grain.
LEMMA RetryAfterRefills ==
    ASSUME NEW b \in Bucket \cup {NoBucket}, NEW t \in Int, ~Grants(b, t), Refill # 0
    PROVE  /\ RetryAfter(b, t) \in Nat
           /\ CallCost <= Level(b, t) + Refill * (RetryAfter(b, t) + Grain)
<1> DEFINE n == CallCost - Level(b, t)
           d == Refill * Grain
           q == RoundedQuotient(n, d)
<1>1. Level(b, t) \in 0..Capacity /\ n \in Nat
  BY LevelType DEF Grants, Level
<1>2. d \in Nat \ {0}
  OBVIOUS
<1>3. q \in Nat /\ n <= (q + 1) * d
  BY <1>1, <1>2, RoundedLoses
<1>4. RetryAfter(b, t) = q * Grain
  BY DEF RetryAfter, Level
<1> HIDE DEF q
<1>5. q * Grain \in Nat
  BY <1>3
<1>6. (q + 1) * d = Refill * (q * Grain + Grain)
  BY <1>3
<1> HIDE DEF d
<1>7. Refill * (q * Grain + Grain) \in Nat
  BY <1>5
<1> QED BY <1>1, <1>3, <1>4, <1>5, <1>6, <1>7

-----------------------------------------------------------------------------
\* The methods of a breaker.

USE BreakerAssumption

\* The methods keep a breaker well-formed.
LEMMA BreakerSteps ==
    ASSUME NEW b \in BreakerRecord, NEW t \in Int
    PROVE  /\ MaybeHalfOpen(b, t) \in BreakerRecord
           /\ RecordSuccess(b) \in BreakerRecord
           /\ RecordFailure(b, t) \in BreakerRecord
<1>1. MaybeHalfOpen(b, t) \in BreakerRecord
  BY DEF MaybeHalfOpen, BreakerRecord, BreakerState
<1>2. RecordSuccess(b) \in BreakerRecord
  BY DEF RecordSuccess, NewBreaker, BreakerRecord, BreakerState
<1>3. FailuresAfter(b) \in 0..FailureThreshold
  BY DEF FailuresAfter, BreakerRecord
<1>4. RecordFailure(b, t) \in BreakerRecord
  BY <1>3 DEF RecordFailure, BreakerRecord, BreakerState
<1>5. QED
  BY <1>1, <1>2, <1>4

\* A closed breaker lets every call through and is not changed by asking it.
LEMMA ClosedAllows ==
    ASSUME NEW b \in BreakerRecord, NEW t \in Int, b.state = "closed"
    PROVE  Allows(b, t) /\ MaybeHalfOpen(b, t) = b
BY DEF Allows, MaybeHalfOpen, CooledDown

\* The fields of a breaker agree at time t.
Explained(b, t) ==
    IF b.state = "closed"
    THEN b.failures < FailureThreshold /\ b.opened_at = Never
    ELSE b.failures = FailureThreshold /\ b.opened_at \in 0..t

\* The methods, and the passing of time, keep the fields in agreement.
LEMMA ExplainedSteps ==
    ASSUME NEW b \in BreakerRecord, NEW t \in Nat, Explained(b, t)
    PROVE  /\ Explained(MaybeHalfOpen(b, t), t)
           /\ Explained(RecordSuccess(b), t)
           /\ Explained(RecordFailure(b, t), t)
           /\ Explained(b, t + 1)
<1> USE DEF Explained, BreakerRecord, BreakerState
<1>1. Explained(MaybeHalfOpen(b, t), t)
  BY DEF MaybeHalfOpen, CooledDown
<1>2. Explained(RecordSuccess(b), t)
  BY DEF RecordSuccess, NewBreaker
<1>3. Explained(RecordFailure(b, t), t)
  BY DEF RecordFailure, FailuresAfter
<1>4. Explained(b, t + 1)
  OBVIOUS
<1>5. QED
  BY <1>1, <1>2, <1>3, <1>4
=============================================================================
