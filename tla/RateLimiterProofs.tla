------------------------- MODULE RateLimiterProofs -------------------------
(***************************************************************************)
(* Proofs about RateLimiter for every capacity, rate, set of tenants and   *)
(* sequence of calls, ticks and clock adjustments.                         *)
(***************************************************************************)
EXTENDS RateLimiter, GatewayLemmas

USE BucketAssumption, LimiterAssumption

----------------------------------------------------------------------------
\* Buckets stay between empty and full, whatever is asked of them and
\* whatever the clock does.
THEOREM TypeCorrect == Spec => []TypeOK
<1>1. Init => TypeOK
  BY DEF Init, TypeOK, Verdicts
<1>2. TypeOK /\ [Next]_vars => TypeOK'
  <2> SUFFICES ASSUME TypeOK, [Next]_vars
               PROVE  TypeOK'
    OBVIOUS
  <2> USE DEF TypeOK, Verdicts
  <2>0. now \in Int /\ \A k \in Keys : buckets[k] \in Bucket \cup {NoBucket}
    OBVIOUS
  <2>1. ASSUME NEW k \in Keys, Grant(k)
        PROVE  TypeOK'
    <3>1. Acquired(buckets[k], now) \in Bucket
      BY <2>0, AcquiredType
    <3>2. buckets' \in [Keys -> Bucket \cup {NoBucket}]
      BY <2>1, <3>1 DEF Grant
    <3>3. window' \in [key : Keys, opened : 0..ticks, granted : Nat]
      BY <2>1 DEF Grant
    <3>4. QED
      BY <2>1, <3>2, <3>3 DEF Grant
  <2>2. ASSUME NEW k \in Keys, Reject(k)
        PROVE  TypeOK'
    <3>1. Acquired(buckets[k], now) \in Bucket
      BY <2>0, AcquiredType
    <3>2. buckets' \in [Keys -> Bucket \cup {NoBucket}]
      BY <2>2, <3>1 DEF Reject
    <3>3. RetryAfter(buckets[k], now) \in Int
      BY <2>0, RetryAfterType
    <3>4. QED
      BY <2>2, <3>2, <3>3 DEF Reject
  <2>3. ASSUME NEW k \in Keys, OpenWindow(k)
        PROVE  TypeOK'
    BY <2>3 DEF OpenWindow
  <2>4. CASE Tick
    BY <2>4 DEF Tick
  <2>5. ASSUME NEW d \in 1..MaxBack, StepBack(d)
        PROVE  TypeOK'
    BY <2>5 DEF StepBack
  <2>6. CASE UNCHANGED vars
    BY <2>6 DEF vars
  <2>7. QED
    BY <2>1, <2>2, <2>3, <2>4, <2>5, <2>6 DEF Next
<1>3. QED
  BY <1>1, <1>2, PTL DEF Spec

\* In any window, under any clock, a key gets at most a full bucket plus what
\* the forward movement of the clock refills.
THEOREM RateBounded == Spec => []WindowBound
<1>1. Init => WindowBound
  BY DEF Init, WindowBound, Level, Refilled
<1>2. TypeOK /\ WindowBound /\ [Next]_vars => WindowBound'
  <2> SUFFICES ASSUME TypeOK, WindowBound, [Next]_vars
               PROVE  WindowBound'
    OBVIOUS
  <2> DEFINE w == window.key
             b == buckets[w]
             allowance == Refill * (ticks - window.opened)
  <2>1. /\ w \in Keys /\ b \in Bucket \cup {NoBucket} /\ now \in Int
        /\ window.granted \in Nat /\ ticks - window.opened \in Nat
    BY DEF TypeOK
  <2>2. Level(b, now) \in 0..Capacity
    BY <2>1, LevelType
  <2>3. allowance \in Nat /\ Refill * ((ticks - window.opened) + 1) = allowance + Refill
    BY <2>1, RateTimesTime
  <2>4. window.granted + Level(b, now) <= Capacity + allowance
    BY DEF WindowBound
  <2>5. ASSUME NEW k \in Keys, Grant(k) \/ Reject(k)
        PROVE  WindowBound'
    <3>1. window'.key = w /\ window'.opened = window.opened /\ ticks' = ticks /\ now' = now
      BY <2>5 DEF Grant, Reject, TypeOK
    <3>2. CASE k # w
      <4>1. buckets'[w] = b /\ window'.granted = window.granted
        BY <2>1, <2>5, <3>2 DEF Grant, Reject, TypeOK
      <4>2. QED
        BY <2>4, <3>1, <4>1 DEF WindowBound
    <3>3. CASE k = w
      <4>1. buckets'[w] = Acquired(b, now)
        BY <2>1, <2>5, <3>3 DEF Grant, Reject, TypeOK
      <4>2. /\ Acquired(b, now) \in Bucket /\ Acquired(b, now).updated_at = now
            /\ Acquired(b, now).tokens = IF Grants(b, now) THEN Level(b, now) - CallCost
                                                          ELSE Level(b, now)
        BY <2>1, AcquiredType
      <4>3. Level(Acquired(b, now), now) = Acquired(b, now).tokens
        BY <4>2, LevelAtUpdate
      <4>4. window'.granted = IF Grants(b, now) THEN window.granted + CallCost
                                                ELSE window.granted
        BY <2>5, <3>3 DEF Grant, Reject, TypeOK
      <4>5. window'.granted + Level(buckets'[w], now) = window.granted + Level(b, now)
        BY <2>1, <2>2, <4>1, <4>2, <4>3, <4>4
      <4>6. QED
        BY <2>4, <3>1, <4>5 DEF WindowBound
    <3>4. QED
      BY <3>2, <3>3
  <2>6. ASSUME NEW k \in Keys, OpenWindow(k)
        PROVE  WindowBound'
    <3>1. buckets'[k] \in Bucket \cup {NoBucket} /\ now' \in Int
      BY <2>6 DEF OpenWindow, TypeOK
    <3>2. Level(buckets'[k], now') \in 0..Capacity
      BY <3>1, LevelType
    <3>3. /\ window'.key = k /\ window'.granted = 0
          /\ Refill * (ticks' - window'.opened) = 0
      BY <2>6 DEF OpenWindow, TypeOK
    <3>4. QED
      BY <3>2, <3>3 DEF WindowBound
  <2>7. CASE Tick
    <3>1. /\ window' = window /\ buckets' = buckets
          /\ now' = now + 1 /\ ticks' = ticks + 1
      BY <2>7 DEF Tick
    <3>2. Level(b, now + 1) <= Level(b, now) + Refill
      <4>1. Level(b, now + 1) \in 0..Capacity
        BY <2>1, LevelType
      <4>2. QED
        BY <2>1, <2>2, <4>1, LevelAfterTick DEF Smaller
    <3>3. Level(b, now + 1) \in Int
      BY <2>1, LevelType
    <3>4. ticks' - window'.opened = (ticks - window.opened) + 1
      BY <3>1, <2>1 DEF TypeOK
    <3>5. QED
      BY <2>1, <2>2, <2>3, <2>4, <3>1, <3>2, <3>3, <3>4 DEF WindowBound
  <2>8. ASSUME NEW d \in 1..MaxBack, StepBack(d)
        PROVE  WindowBound'
    <3>1. window' = window /\ buckets' = buckets /\ now' = now - d /\ ticks' = ticks
      BY <2>8 DEF StepBack
    <3>2. Level(b, now - d) <= Level(b, now) /\ Level(b, now - d) \in Int
      <4>1. d \in Nat /\ now - d \in Int
        BY <2>1
      <4>2. Level(b, now - d) \in 0..Capacity
        BY <2>1, <4>1, LevelType
      <4>3. Level(b, now - d) <= Level(b, now)
        BY <2>1, <4>1, LevelAfterStepBack
      <4>4. QED
        BY <4>2, <4>3
    <3>3. QED
      BY <2>1, <2>2, <2>3, <2>4, <3>1, <3>2 DEF WindowBound
  <2>9. CASE UNCHANGED vars
    BY <2>9 DEF vars, WindowBound
  <2>10. QED
    BY <2>5, <2>6, <2>7, <2>8, <2>9 DEF Next
<1>3. QED
  BY <1>1, <1>2, TypeCorrect, PTL DEF Spec

\* What was promised: at the advertised time and a grain more, the bucket as it
\* was left by the last refusal is worth a call.
PromiseInv ==
    (promise.due # -1 /\ Refill # 0) =>
        LET b == buckets[promise.key]
        IN  /\ b \in Bucket /\ b.updated_at <= now
            /\ promise.due + Grain >= b.updated_at
            /\ CallCost <= b.tokens + Refill * (promise.due + Grain - b.updated_at)

LEMMA PromiseKept ==
    ASSUME NEW b \in Bucket, NEW t \in Int, NEW u \in Int,
           b.updated_at <= u, u <= t, CallCost <= b.tokens + Refill * (u - b.updated_at)
    PROVE  Grants(b, t)
<1>1. b # NoBucket /\ b.tokens \in 0..Capacity /\ b.updated_at \in Int
  BY DEF Bucket
<1>2. Elapsed(b, t) \in Nat /\ u - b.updated_at \in Nat /\ u - b.updated_at <= Elapsed(b, t)
  BY <1>1 DEF Elapsed
<1>3. /\ Refill * (u - b.updated_at) \in Nat /\ Refill * Elapsed(b, t) \in Nat
      /\ Refill * (u - b.updated_at) <= Refill * Elapsed(b, t)
  BY <1>2
<1> QED BY <1>1, <1>3 DEF Grants, Refilled, Smaller

\* A caller that waits as long as it was told, and a millisecond more, is served
\* unless others of its tenant came first (rate_limiter.py:62-67).
THEOREM RetryAfterIsEnough == Spec => []RetryAfterWithinGrain
<1>1. Init => PromiseInv
  BY DEF Init, PromiseInv
<1>2. TypeOK /\ PromiseInv /\ [Next]_vars => PromiseInv'
  <2> SUFFICES ASSUME TypeOK, PromiseInv, [Next]_vars
               PROVE  PromiseInv'
    OBVIOUS
  <2>0. /\ now \in Int /\ promise.key \in Keys /\ promise.due \in Int
        /\ \A k \in Keys : buckets[k] \in Bucket \cup {NoBucket}
    BY DEF TypeOK
  <2>1. ASSUME NEW k \in Keys, Grant(k)
        PROVE  PromiseInv'
    <3>1. now' = now /\ promise'.key = promise.key
          /\ promise'.due = IF promise.key = k THEN -1 ELSE promise.due
      BY <2>1 DEF Grant, TypeOK
    <3>2. promise.key # k => buckets'[promise.key] = buckets[promise.key]
      BY <2>0, <2>1 DEF Grant, TypeOK
    <3>3. QED
      BY <3>1, <3>2 DEF PromiseInv
  <2>2. ASSUME NEW k \in Keys, Reject(k), Refill # 0
        PROVE  PromiseInv'
    <3> DEFINE b == buckets[k]
               wait == RetryAfter(b, now)
    <3>1. /\ ~Grants(b, now) /\ now' = now /\ promise'.key = k /\ promise'.due = now + wait
          /\ buckets'[k] = Acquired(b, now)
      BY <2>0, <2>2 DEF Reject, TypeOK
    <3>2. /\ Acquired(b, now) \in Bucket /\ Acquired(b, now).updated_at = now
          /\ Acquired(b, now).tokens = Level(b, now)
      BY <2>0, <3>1, AcquiredType
    <3>3. wait \in Nat /\ CallCost <= Level(b, now) + Refill * (wait + Grain)
      BY <2>0, <2>2, <3>1, RetryAfterRefills
    <3> HIDE DEF wait
    <3>4. now + wait + Grain - now = wait + Grain /\ now + wait + Grain >= now
      BY <2>0, <3>3
    <3>5. QED
      BY <2>0, <3>1, <3>2, <3>3, <3>4 DEF PromiseInv
  <2>3. ASSUME NEW k \in Keys, OpenWindow(k)
        PROVE  PromiseInv'
    BY <2>3 DEF OpenWindow, PromiseInv
  <2>4. CASE Tick
    <3>1. now' = now + 1 /\ buckets' = buckets /\ promise' = promise
      BY <2>4 DEF Tick
    <3>2. QED
      BY <2>0, <3>1 DEF PromiseInv, Bucket
  <2>5. ASSUME NEW d \in 1..MaxBack, StepBack(d)
        PROVE  PromiseInv'
    <3>1. promise'.due = -1
      BY <2>5 DEF StepBack, TypeOK
    <3>2. QED
      BY <3>1 DEF PromiseInv
  <2>6. CASE UNCHANGED vars
    BY <2>6 DEF vars, PromiseInv
  <2>7. CASE Refill = 0
    BY <2>7 DEF PromiseInv
  <2>8. QED
    BY <2>1, <2>2, <2>3, <2>4, <2>5, <2>6, <2>7 DEF Next
<1>3. TypeOK /\ PromiseInv => RetryAfterWithinGrain
  <2> SUFFICES ASSUME TypeOK, PromiseInv, promise.due # -1, Refill > 0,
                      now >= promise.due + Grain
               PROVE  Grants(buckets[promise.key], now)
    BY DEF RetryAfterWithinGrain
  <2>1. now \in Int /\ promise.due \in Int /\ promise.due + Grain \in Int
    BY DEF TypeOK
  <2> DEFINE b == buckets[promise.key]
             u == promise.due + Grain
  <2>2. /\ b \in Bucket /\ b.updated_at <= now /\ u >= b.updated_at
        /\ CallCost <= b.tokens + Refill * (u - b.updated_at)
    <3>1. Refill # 0
      OBVIOUS
    <3>2. b \in Bucket
      BY <3>1, Zenon DEF PromiseInv
    <3>3. b.updated_at \in Int /\ b.tokens \in Int
      BY <3>2 DEF Bucket
    <3>4. QED
      BY <2>1, <3>1, <3>2, <3>3 DEF PromiseInv
  <2>3. u \in Int /\ u <= now
    BY <2>1
  <2> HIDE DEF b, u
  <2>4. Grants(b, now)
    BY <2>1, <2>2, <2>3, PromiseKept DEF Bucket
  <2>5. QED
    BY <2>4 DEF b
<1>4. QED
  BY <1>1, <1>2, <1>3, TypeCorrect, PTL DEF Spec

\* The lazy buckets implement the eager bucket of the docstring.
THEOREM LazyImplementsEager == Spec => ImplementsEagerBucket
<1> DEFINE level == [k \in Keys |-> Level(buckets[k], now)]
           lag == [k \in Keys |-> Lag(buckets[k], now)]
<1>1. Init => Eager!Init
  BY DEF Init, Eager!Init, Verdicts, Level, Lag, Refilled
<1>2. TypeOK /\ [Next]_vars => [Eager!Next]_Eager!vars
  <2> SUFFICES ASSUME TypeOK, [Next]_vars
               PROVE  Eager!Next \/ UNCHANGED Eager!vars
    OBVIOUS
  <2>1. \A k \in Keys : /\ buckets[k] \in Bucket \cup {NoBucket}
                        /\ Level(buckets[k], now) \in 0..Capacity
                        /\ Lag(buckets[k], now) \in Nat
    BY LevelType DEF TypeOK, Lag, Bucket
  <2>2. now \in Int
    BY DEF TypeOK
  <2>3. ASSUME NEW k \in Keys, Grant(k) \/ Reject(k)
        PROVE  /\ level' = IF Grants(buckets[k], now)
                           THEN [level EXCEPT ![k] = @ - CallCost] ELSE level
               /\ lag' = [lag EXCEPT ![k] = 0]
    <3>1. buckets' = [buckets EXCEPT ![k] = Acquired(@, now)] /\ now' = now
      BY <2>3 DEF Grant, Reject
    <3>2. /\ Acquired(buckets[k], now) \in Bucket
          /\ Acquired(buckets[k], now).updated_at = now
          /\ Acquired(buckets[k], now).tokens =
                IF Grants(buckets[k], now) THEN Level(buckets[k], now) - CallCost
                                           ELSE Level(buckets[k], now)
      BY <2>1, <2>2, AcquiredType
    <3>3. Level(Acquired(buckets[k], now), now) = Acquired(buckets[k], now).tokens
      BY <3>2, LevelAtUpdate
    <3>4. Lag(Acquired(buckets[k], now), now) = 0
      BY <3>2, <2>2 DEF Lag
    <3>5. buckets'[k] = Acquired(buckets[k], now)
          /\ \A j \in Keys \ {k} : buckets'[j] = buckets[j]
      BY <3>1 DEF TypeOK
    <3>6. level'[k] = IF Grants(buckets[k], now) THEN level[k] - CallCost ELSE level[k]
      BY <3>1, <3>2, <3>3, <3>5
    <3>7. lag'[k] = 0 /\ \A j \in Keys \ {k} : level'[j] = level[j] /\ lag'[j] = lag[j]
      BY <3>1, <3>4, <3>5
    <3>8. level' \in [Keys -> Int] /\ lag' \in [Keys -> Nat]
          /\ DOMAIN level = Keys /\ DOMAIN lag = Keys
      <4>1. \A j \in Keys : level'[j] \in Int /\ lag'[j] \in Nat
        BY <2>1, <3>6, <3>7
      <4>2. QED
        BY <4>1
    <3>9. QED
      BY <3>6, <3>7, <3>8
  <2>4. ASSUME NEW k \in Keys, Grant(k)
        PROVE  Eager!Serve(k)
    BY <2>3, <2>4 DEF Grant, Grants, Level, Eager!Serve
  <2>5. ASSUME NEW k \in Keys, Reject(k)
        PROVE  Eager!Refuse(k)
    <3>1. Level(buckets[k], now) < CallCost
      BY <2>1, <2>5 DEF Reject, Grants, Level
    <3>2. QED
      BY <2>3, <2>5, <3>1 DEF Reject, Eager!Refuse
  <2>6. ASSUME NEW k \in Keys, OpenWindow(k)
        PROVE  UNCHANGED Eager!vars
    BY <2>6 DEF OpenWindow, Eager!vars
  <2>7. CASE Tick
    <3>1. buckets' = buckets /\ now' = now + 1 /\ verdict' = verdict
      BY <2>7 DEF Tick
    <3>2. \A k \in Keys :
             /\ level'[k] = IF lag[k] = 0 THEN Smaller(Capacity, level[k] + Refill)
                                         ELSE level[k]
             /\ lag'[k] = IF lag[k] = 0 THEN 0 ELSE lag[k] - 1
      BY <2>1, <2>2, <3>1, LevelAfterTick
    <3>3. Eager!TopUp
      BY <3>1, <3>2 DEF Eager!TopUp, Eager!ToppedUp, Smaller
    <3>4. QED
      BY <3>3 DEF Eager!Next
  <2>8. ASSUME NEW d \in 1..MaxBack, StepBack(d)
        PROVE  Eager!SetBack
    <3>1. buckets' = buckets /\ now' = now - d /\ verdict' = verdict
      BY <2>8 DEF StepBack
    <3>2. \A k \in Keys : /\ level'[k] <= level[k] /\ lag'[k] >= lag[k]
                          /\ level'[k] \in 0..Capacity /\ lag'[k] \in Nat
      <4>1. ASSUME NEW k \in Keys
            PROVE  Level(buckets[k], now - d) \in 0..Capacity
                   /\ Lag(buckets[k], now - d) \in Nat
        <5>1. now - d \in Int
          BY <2>2
        <5>2. QED
          BY <2>1, <5>1, LevelType DEF Lag, Bucket
      <4>2. ASSUME NEW k \in Keys
            PROVE  /\ Level(buckets[k], now - d) <= Level(buckets[k], now)
                   /\ Lag(buckets[k], now - d) >= Lag(buckets[k], now)
        <5>1. d \in Nat
          OBVIOUS
        <5>2. QED
          BY <2>1, <2>2, <5>1, LevelAfterStepBack
      <4>3. QED
        BY <3>1, <4>1, <4>2
    <3>3. QED
      BY <3>1, <3>2 DEF Eager!SetBack
  <2>9. CASE UNCHANGED vars
    BY <2>9 DEF vars, Eager!vars
  <2>10. QED
    BY <2>4, <2>5, <2>6, <2>7, <2>8, <2>9 DEF Next, Eager!Next
<1>3. QED
  BY <1>1, <1>2, TypeCorrect, PTL DEF Spec, ImplementsEagerBucket, Eager!Spec
============================================================================
