---------------------------- MODULE RateLimiter ----------------------------
(***************************************************************************)
(* InMemoryRateLimiter (infrastructure/gateway/rate_limiter.py): a         *)
(* dictionary of lazily refilled token buckets, one per tenant, driven by  *)
(* the wall clock the composition root injects.  acquire has no await      *)
(* inside, so on the one event loop it is a single step.                   *)
(*                                                                         *)
(* The wall clock normally ticks forward; an adjustment of the host clock  *)
(* may also step it back, by at most MaxBack ticks at a time.  MaxTicks    *)
(* bounds how often the clock ticks.                                       *)
(***************************************************************************)
EXTENDS TokenBucket

CONSTANTS Keys, MaxTicks, MaxBack

ASSUME LimiterAssumption == MaxTicks \in Nat /\ MaxBack \in Nat

VARIABLES
    buckets,    \* _buckets: key -> bucket, or NoBucket before its first call
    now,        \* the reading of the injected clock
    verdict,    \* outcome of the last acquire: the key, and granted or refused
    \* History, read by no action:
    ticks,      \* forward movement of the clock since the start
    window,     \* an observer's window: its key, the tick it opened, units granted
    promise     \* the key last refused and when it was told to come back (or -1)

vars == <<buckets, now, verdict, ticks, window, promise>>

Verdicts == [key : Keys, served : BOOLEAN]

Init ==
    /\ buckets = [k \in Keys |-> NoBucket]
    /\ now = 0
    /\ verdict \in Verdicts
    /\ ticks = 0
    /\ window \in [key : Keys, opened : {0}, granted : {0}]
    /\ promise \in [key : Keys, due : {-1}]

\* acquire(k) that returns.
Grant(k) ==
    /\ Grants(buckets[k], now)
    /\ buckets' = [buckets EXCEPT ![k] = Acquired(@, now)]
    /\ verdict' = [key |-> k, served |-> TRUE]
    /\ window' = [window EXCEPT !.granted = IF window.key = k THEN @ + CallCost ELSE @]
    /\ promise' = [promise EXCEPT !.due = IF promise.key = k THEN -1 ELSE @]
    /\ UNCHANGED <<now, ticks>>

\* acquire(k) that raises RateLimitError with retry_after_seconds.
Reject(k) ==
    /\ ~Grants(buckets[k], now)
    /\ buckets' = [buckets EXCEPT ![k] = Acquired(@, now)]
    /\ verdict' = [key |-> k, served |-> FALSE]
    /\ promise' = [key |-> k, due |-> now + RetryAfter(buckets[k], now)]
    /\ UNCHANGED <<now, ticks, window>>

Tick ==
    /\ ticks < MaxTicks
    /\ now' = now + 1
    /\ ticks' = ticks + 1
    /\ UNCHANGED <<buckets, verdict, window, promise>>

\* The host clock is set back by d; advertised waits no longer mean anything.
StepBack(d) ==
    /\ d <= now
    /\ now' = now - d
    /\ promise' = [promise EXCEPT !.due = -1]
    /\ UNCHANGED <<buckets, verdict, ticks, window>>

\* The observer starts measuring key k at this moment.
OpenWindow(k) ==
    /\ window' = [key |-> k, opened |-> ticks, granted |-> 0]
    /\ UNCHANGED <<buckets, now, verdict, ticks, promise>>

Next ==
    \/ \E k \in Keys : Grant(k) \/ Reject(k) \/ OpenWindow(k)
    \/ Tick
    \/ \E d \in 1..MaxBack : StepBack(d)

Spec == Init /\ [][Next]_vars

----------------------------------------------------------------------------
\* Types: every stored bucket holds between 0 and Capacity units (acquire
\* never leaves a bucket overdrawn or overfull).
TypeOK ==
    /\ buckets \in [Keys -> Bucket \cup {NoBucket}]
    /\ now \in 0..ticks
    /\ verdict \in Verdicts
    /\ ticks \in 0..MaxTicks
    /\ window \in [key : Keys, opened : 0..ticks, granted : Nat]
    /\ promise \in [key : Keys, due : Int]

\* However the lazy refills, refusals and clock adjustments interleave, in
\* any window of time a key is granted at most one full bucket plus what the
\* forward movement of the clock refills ("allows short bursts (up to
\* capacity) while bounding the sustained rate", rate_limiter.py:4-6), and
\* whatever is left in the bucket comes out of the same allowance.
WindowBound ==
    window.granted + Level(buckets[window.key], now)
        <= Capacity + Refill * (ticks - window.opened)

\* The advertised wait is short by less than the grain it is rounded to: a
\* caller that waits retry_after and one more millisecond is served, unless
\* other calls of the tenant took the tokens in between.
RetryAfterWithinGrain ==
    (promise.due # -1 /\ Refill > 0 /\ now >= promise.due + Grain)
        => Grants(buckets[promise.key], now)

\* The lazy buckets answer exactly as the bucket of the docstring, which
\* refills at every tick and which a clock set back can only make poorer.
Eager == INSTANCE EagerBucket
            WITH level <- [k \in Keys |-> Level(buckets[k], now)],
                 lag <- [k \in Keys |-> Lag(buckets[k], now)]
ImplementsEagerBucket == Eager!Spec

============================================================================
