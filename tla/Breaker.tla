------------------------------ MODULE Breaker ------------------------------
(***************************************************************************)
(* The data and the four methods of CircuitBreaker                         *)
(* (application/gateway/circuit_breaker.py) as operators on one breaker    *)
(* record.  t is what the injected clock reads at the call.                *)
(*                                                                         *)
(* The failure counter saturates at FailureThreshold: the code only ever   *)
(* compares it with the threshold or resets it.                            *)
(***************************************************************************)
EXTENDS Integers

CONSTANTS
    FailureThreshold,   \* _failure_threshold
    ResetTicks,         \* _reset_seconds
    Never               \* _opened_at is None

ASSUME BreakerAssumption ==
    /\ FailureThreshold \in Nat \ {0}
    /\ ResetTicks \in Nat \ {0}
    /\ Never \notin Int

BreakerState == {"closed", "open", "half_open"}

BreakerRecord == [state : BreakerState,
                  failures : 0..FailureThreshold,
                  opened_at : Int \cup {Never}]

NewBreaker == [state |-> "closed", failures |-> 0, opened_at |-> Never]

\* Mutant of CooledDown: the cool-down is taken to be over one tick early.
CooledDownEarly(b, t) ==
    b.state = "open" /\ b.opened_at # Never /\ t - b.opened_at >= ResetTicks - 1

\* The condition under which _maybe_half_open moves an open breaker on.
CooledDown(b, t) ==
    b.state = "open" /\ b.opened_at # Never /\ t - b.opened_at >= ResetTicks

MaybeHalfOpen(b, t) ==
    IF CooledDown(b, t) THEN [b EXCEPT !.state = "half_open"] ELSE b

\* allow(): its answer, and the breaker it leaves behind, MaybeHalfOpen(b, t).
Allows(b, t) == MaybeHalfOpen(b, t).state # "open"

\* Mutant of RecordSuccess: the failure counter survives a success.
RecordSuccessKeepsCount(b) == [NewBreaker EXCEPT !.failures = b.failures]

\* record_success() forgets everything, whatever state the breaker is in.
RecordSuccess(b) == NewBreaker

FailuresAfter(b) ==
    IF b.failures = FailureThreshold THEN b.failures ELSE b.failures + 1

\* Mutant of RecordFailure: the moment of opening is not noted.
RecordFailureUntimed(b, t) ==
    IF FailuresAfter(b) = FailureThreshold
    THEN [state |-> "open", failures |-> FailuresAfter(b), opened_at |-> b.opened_at]
    ELSE [b EXCEPT !.failures = FailuresAfter(b)]

\* Mutant of RecordFailure: the breaker opens one failure early.
RecordFailureEarly(b, t) ==
    IF FailuresAfter(b) >= FailureThreshold - 1
    THEN [state |-> "open", failures |-> FailuresAfter(b), opened_at |-> t]
    ELSE [b EXCEPT !.failures = FailuresAfter(b)]

\* record_failure(): (re)opens the breaker, and restarts the cool-down, at
\* every failure from the threshold on.
RecordFailure(b, t) ==
    IF FailuresAfter(b) = FailureThreshold
    THEN [state |-> "open", failures |-> FailuresAfter(b), opened_at |-> t]
    ELSE [b EXCEPT !.failures = FailuresAfter(b)]
============================================================================
