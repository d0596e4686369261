\* Three requests, up to three at once; two failures open the breaker, for
\* three ticks.  Time is unbounded.
SPECIFICATION Spec
CONSTANTS
    Calls = {c1, c2, c3}
    FailureThreshold = 2
    ResetTicks = 3
    Never = Never
INVARIANT OneTrialCall
