--------------------------- MODULE CircuitBreaker ---------------------------
(***************************************************************************)
(* One provider's CircuitBreaker under the gateway's requests.  A call     *)
(* here is one retry cycle of AIGateway.generate: it asks allow(), awaits  *)
(* the provider, and reports record_success or record_failure once, or     *)
(* nothing when its task is cancelled meanwhile (ai_gateway.py:150-177).   *)
(* Any number of calls up to `width` are between their allow() and their   *)
(* report at the same time.                                                *)
(*                                                                         *)
(* Time is kept relative to the present: the clock always reads 0 and a    *)
(* tick moves opened_at one tick into the past, no further than the cool-  *)
(* down, beyond which its age makes no difference.  So time is unbounded   *)
(* although the state is finite.                                           *)
(***************************************************************************)
EXTENDS Breaker, FiniteSets

CONSTANT Calls

ASSUME CallsAssumption == IsFiniteSet(Calls) /\ Calls # {}

VARIABLES
    breaker,    \* the provider's breaker
    flight,     \* the calls admitted and not yet reported
    trials,     \* history: those of them admitted while half-open
    width       \* how many calls the clients of this behaviour run at once

vars == <<breaker, flight, trials, width>>

Present == 0

Init ==
    /\ breaker = NewBreaker
    /\ flight = {}
    /\ trials = {}
    /\ width \in 1..Cardinality(Calls)

\* allow() answers yes.  (When it answers no, nothing changes.)
Admit(c) ==
    /\ c \notin flight
    /\ Cardinality(flight) < width
    /\ Allows(breaker, Present)
    /\ breaker' = MaybeHalfOpen(breaker, Present)
    /\ flight' = flight \cup {c}
    /\ trials' = IF breaker'.state = "half_open" THEN trials \cup {c} ELSE trials
    /\ UNCHANGED width

\* Mutant of Land: the report of a trial call is not accounted for.
LandKeepsTrial(c) ==
    /\ c \in flight
    /\ flight' = flight \ {c}
    /\ UNCHANGED <<trials, width>>

Land(c) ==
    /\ c \in flight
    /\ flight' = flight \ {c}
    /\ trials' = trials \ {c}
    /\ UNCHANGED width

Succeed(c) == Land(c) /\ breaker' = RecordSuccess(breaker)

Fail(c) == Land(c) /\ breaker' = RecordFailure(breaker, Present)

\* The request's task is cancelled, or an exception that is no ProviderError
\* passes through generate: neither method is called.
Cancel(c) == Land(c) /\ UNCHANGED breaker

Aged(t) == IF t = Never \/ t = -ResetTicks THEN t ELSE t - 1

Tick ==
    /\ breaker' = [breaker EXCEPT !.opened_at = Aged(@)]
    /\ UNCHANGED <<flight, trials, width>>

Next ==
    \/ \E c \in Calls : Admit(c) \/ Succeed(c) \/ Fail(c) \/ Cancel(c)
    \/ Tick

\* Time passes, a call ends (asyncio.wait_for and a bounded number of retries
\* see to that), and requests keep arriving.
Fairness ==
    /\ WF_vars(Tick)
    /\ WF_vars(\E c \in Calls : Admit(c))
    /\ \A c \in Calls : WF_vars(Succeed(c) \/ Fail(c) \/ Cancel(c))

Spec == Init /\ [][Next]_vars

FairSpec == Spec /\ Fairness

-----------------------------------------------------------------------------
TypeOK ==
    /\ breaker \in BreakerRecord
    /\ flight \in SUBSET Calls
    /\ trials \in SUBSET flight
    /\ width \in 1..Cardinality(Calls)
    /\ Cardinality(flight) <= width

\* The three fields agree in every interleaving of late reports: a closed
\* breaker is below its threshold, and one that is not has reached it and
\* knows when (an open breaker without opened_at would never let go again).
StateExplained ==
    IF breaker.state = "closed"
    THEN breaker.failures < FailureThreshold /\ breaker.opened_at = Never
    ELSE breaker.failures = FailureThreshold /\ breaker.opened_at # Never

\* The breaker is half-open only if the last failure that (re)opened it lies
\* a full cool-down back, however late that failure was reported.
CoolDownServed ==
    breaker.state = "half_open" => Present - breaker.opened_at >= ResetTicks

\* With one request at a time the breaker moves exactly as the diagram of
\* its docstring allows.
Diagram == INSTANCE BreakerDiagram
              WITH state <- breaker.state,
                   streak <- breaker.failures,
                   busy <- flight # {}
SerialFollowsDiagram == [][width = 1 => [Diagram!Next]_Diagram!vars]_vars

\* An open breaker lets go: late failures push its cool-down back, but as it
\* admits nothing they come to an end.
OpenEnds == breaker.state = "open" ~> breaker.state # "open"

\* circuit_breaker.py:32 says of HALF_OPEN "probing: one trial call allowed".
OneTrialCall == Cardinality(trials) <= 1
=============================================================================
