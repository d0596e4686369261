------------------------------ MODULE Exchange ------------------------------
(***************************************************************************)
(* What the HTTP layer promises, with everything else left out: a request  *)
(* that has come in is answered at most once, the counter of its route and *)
(* status goes up in the step that answers it, and only what waits for an  *)
(* outsider without a limit may wait for ever.                             *)
(***************************************************************************)
EXTENDS Naturals, Bags

CONSTANTS Requests, Statuses, Routes, None,
    RawPath,    \* what is counted instead of a route
    Unrouted    \* the statuses given before a request is routed

VARIABLES
    answer,     \* Absent, Waiting, Held up by an outsider, or the status
    route,      \* of a request that is under way
    counted     \* http_requests_total

vars == <<answer, route, counted>>

Absent == 0
Waiting == 1
Held == 2

Label(r, status) == IF status \in Unrouted THEN RawPath ELSE route[r]

Init ==
    /\ answer = [r \in Requests |-> Absent]
    /\ route = [r \in Requests |-> None]
    /\ counted = EmptyBag

Receive(r) ==
    /\ answer[r] = Absent
    /\ \E a \in {Waiting, Held} : answer' = [answer EXCEPT ![r] = a]
    /\ \E rt \in Routes : route' = [route EXCEPT ![r] = rt]
    /\ UNCHANGED counted

\* It gets to wait for something else.
Turn(r) ==
    /\ answer[r] \in {Waiting, Held}
    /\ \E a \in {Waiting, Held} : answer' = [answer EXCEPT ![r] = a]
    /\ UNCHANGED <<route, counted>>

Respond(r) ==
    /\ answer[r] \in {Waiting, Held}
    /\ \E status \in Statuses :
          /\ answer' = [answer EXCEPT ![r] = status]
          /\ route' = [route EXCEPT ![r] = None]
          /\ counted' = counted (+) SetToBag({<<Label(r, status), status>>})

Next == \E r \in Requests : Receive(r) \/ Turn(r) \/ Respond(r)

\* Whatever has come in is answered, or held up: nothing is left just waiting.
Answered == \A r \in Requests : []<>(answer[r] # Waiting)

Spec == Init /\ [][Next]_vars /\ Answered
=============================================================================
