---------------------------- MODULE TokenBucket ----------------------------
(***************************************************************************)
(* The arithmetic of one token bucket of                                   *)
(* infrastructure/gateway/rate_limiter.py: what `acquire` does to the      *)
(* bucket of its key, and the wait `_retry_after` advertises.              *)
(*                                                                         *)
(* The code counts tokens and seconds in floats.  Here both are integers:  *)
(* a tick is the unit of time, and tokens are counted in units small       *)
(* enough that one tick refills a whole number (Refill) of them.  Float    *)
(* rounding inside the refill is abstracted; the rounding the code asks    *)
(* for itself, round(..., 3) in _retry_after, is kept: Grain is the        *)
(* number of ticks in one millisecond.                                     *)
(***************************************************************************)
EXTENDS Integers

CONSTANTS
    Capacity,   \* _capacity, in units
    Refill,     \* _refill_per_second, in units per tick
    CallCost,   \* the cost of one call (one token), in units
    Grain,      \* ticks in the millisecond the advertised wait is rounded to
    NoBucket    \* the key has no entry in _buckets

Bucket == [tokens : 0..Capacity, updated_at : Int]

ASSUME BucketAssumption ==
    /\ Capacity \in Nat
    /\ Refill \in Nat
    /\ CallCost \in 1..Capacity
    /\ Grain \in Nat \ {0}
    /\ NoBucket \notin Bucket

Smaller(a, b) == IF a <= b THEN a ELSE b

\* max(0.0, now - bucket.updated_at): a clock that stepped back adds nothing.
Elapsed(b, t) == IF t >= b.updated_at THEN t - b.updated_at ELSE 0

\* Mutant of Refilled: the min with _capacity is forgotten.
RefilledUncapped(b, t) ==
    IF b = NoBucket
    THEN [tokens |-> Capacity, updated_at |-> t]
    ELSE [tokens |-> b.tokens + Refill * Elapsed(b, t), updated_at |-> t]

\* A new bucket starts full, an old one is topped up lazily.
\* updated_at moves to t even when the clock has stepped back.
Refilled(b, t) ==
    IF b = NoBucket
    THEN [tokens |-> Capacity, updated_at |-> t]
    ELSE [tokens |-> Smaller(Capacity, b.tokens + Refill * Elapsed(b, t)),
          updated_at |-> t]

Grants(b, t) == Refilled(b, t).tokens >= CallCost

\* Mutant of Acquired: the guard before the subtraction is forgotten.
AcquiredUnguarded(b, t) ==
    [tokens |-> Refilled(b, t).tokens - CallCost, updated_at |-> t]

\* Mutant of Acquired: a refusal stores the refilled tokens, not the time.
AcquiredStaleTime(b, t) ==
    IF Grants(b, t)
    THEN [tokens |-> Refilled(b, t).tokens - CallCost, updated_at |-> t]
    ELSE [tokens |-> Refilled(b, t).tokens,
          updated_at |-> IF b = NoBucket THEN t ELSE b.updated_at]

\* The bucket that acquire leaves behind, whether it grants or raises.
Acquired(b, t) ==
    IF Grants(b, t)
    THEN [tokens |-> Refilled(b, t).tokens - CallCost, updated_at |-> t]
    ELSE Refilled(b, t)

\* Python's round(): to the nearest integer, ties to the even one.
RoundedQuotient(n, d) ==
    LET q == n \div d
        r == n % d
    IN  IF 2 * r < d \/ (2 * r = d /\ q % 2 = 0) THEN q ELSE q + 1

\* Mutant of RetryAfter: the rate per minute is taken for one per second.
RetryAfterPerMinute(b, t) ==
    IF Refill = 0
    THEN 0
    ELSE RoundedQuotient(CallCost - Refilled(b, t).tokens, 60 * Refill * Grain) * Grain

\* _retry_after, in ticks, for a request that Refilled(b, t) cannot serve.
RetryAfter(b, t) ==
    IF Refill = 0
    THEN 0
    ELSE RoundedQuotient(CallCost - Refilled(b, t).tokens, Refill * Grain) * Grain

\* What the bucket is worth at t.  Not in the code: the quantity a lazy
\* bucket stands for, used by the properties and the refinement.
Level(b, t) == Refilled(b, t).tokens

\* How far the last update of a bucket is ahead of a clock set back to t.
Lag(b, t) == IF b # NoBucket /\ b.updated_at > t THEN b.updated_at - t ELSE 0
============================================================================
