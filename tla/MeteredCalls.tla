---------------------------- MODULE MeteredCalls ----------------------------
(***************************************************************************)
(* What the gateway promises about money, with everything else left out:   *)
(* a call runs only if its tenant had budget left when it began, ends at   *)
(* most once, and costs its own tenant something only when it ends.        *)
(***************************************************************************)
EXTENDS Naturals

CONSTANTS
    Calls,
    Tenants,
    Unmetered,  \* tenants whose calls are not held to a budget
    Budget,     \* 0 means no limit
    MaxCost,
    Nobody

VARIABLES
    status,     \* "new", "running" or "done"
    owner,      \* the tenant a call belongs to, once it has come in
    spent       \* what each tenant has been charged

vars == <<status, owner, spent>>

Init ==
    /\ status = [c \in Calls |-> "new"]
    /\ owner = [c \in Calls |-> Nobody]
    /\ spent = [t \in Tenants |-> 0]

HasBudget(t) == t \in Unmetered \/ Budget = 0 \/ spent[t] < Budget

Begin(c, t) ==
    /\ status[c] = "new"
    /\ HasBudget(t)
    /\ status' = [status EXCEPT ![c] = "running"]
    /\ owner' = [owner EXCEPT ![c] = t]
    /\ UNCHANGED spent

\* Refused, or served without asking a provider.
Dispose(c, t) ==
    /\ status[c] = "new"
    /\ status' = [status EXCEPT ![c] = "done"]
    /\ owner' = [owner EXCEPT ![c] = t]
    /\ UNCHANGED spent

Charge(c, cost) ==
    /\ status[c] = "running"
    /\ status' = [status EXCEPT ![c] = "done"]
    /\ spent' = [spent EXCEPT ![owner[c]] = @ + cost]
    /\ UNCHANGED owner

Drop(c) ==
    /\ status[c] = "running"
    /\ status' = [status EXCEPT ![c] = "done"]
    /\ UNCHANGED <<owner, spent>>

Next ==
    \E c \in Calls :
        \/ \E t \in Tenants : Begin(c, t) \/ Dispose(c, t)
        \/ \E cost \in 0..MaxCost : Charge(c, cost)
        \/ Drop(c)

Spec == Init /\ [][Next]_vars
=============================================================================
