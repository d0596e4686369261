--------------------------- MODULE BreakerDiagram ---------------------------
(***************************************************************************)
(* The state diagram that opens circuit_breaker.py, for a provider called  *)
(* by one request at a time.  When a cool-down is over is left open.       *)
(***************************************************************************)
EXTENDS Naturals

CONSTANT FailureThreshold

VARIABLES
    state,      \* "closed", "open" or "half_open"
    streak,     \* failures in a row while closed
    busy        \* a call is at the provider

vars == <<state, streak, busy>>

Init == state = "closed" /\ streak = 0 /\ busy = FALSE

\* CLOSED lets a call through; OPEN, cooled down, becomes HALF_OPEN with its
\* trial call; HALF_OPEN whose trial was lost admits another.
Call ==
    /\ ~busy
    /\ state' = IF state = "closed" THEN "closed" ELSE "half_open"
    /\ busy' = TRUE
    /\ UNCHANGED streak

Succeed ==
    /\ busy
    /\ state' = "closed"
    /\ streak' = 0
    /\ busy' = FALSE

FailClosed ==
    /\ busy
    /\ state = "closed"
    /\ streak' = streak + 1
    /\ state' = IF streak' = FailureThreshold THEN "open" ELSE "closed"
    /\ busy' = FALSE

FailTrial ==
    /\ busy
    /\ state = "half_open"
    /\ state' = "open"
    /\ busy' = FALSE
    /\ UNCHANGED streak

\* The caller went away before the call ended.
Lose ==
    /\ busy
    /\ busy' = FALSE
    /\ UNCHANGED <<state, streak>>

Next == Call \/ Succeed \/ FailClosed \/ FailTrial \/ Lose

Spec == Init /\ [][Next]_vars
=============================================================================
