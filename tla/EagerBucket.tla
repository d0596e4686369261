---------------------------- MODULE EagerBucket ----------------------------
(***************************************************************************)
(* The token bucket as rate_limiter.py describes it in its docstring: a    *)
(* bucket per key that holds up to Capacity units, gains Refill units at   *)
(* every tick, and serves a call exactly when it can pay for it.  There is *)
(* no timestamp and no lazy arithmetic here.                               *)
(*                                                                         *)
(* When the host clock is set back, no bucket gains anything, and one that *)
(* was topped up "in the future" waits for the clock to catch up, or for   *)
(* its next call, whichever comes first.                                   *)
(***************************************************************************)
EXTENDS Integers

CONSTANTS Keys, Capacity, Refill, CallCost

VARIABLES
    level,      \* level[k]: units in the bucket of k
    lag,        \* lag[k]: ticks the bucket of k is ahead of the clock
    verdict     \* the last answer given: which key, and was it served

vars == <<level, lag, verdict>>

Init ==
    /\ level = [k \in Keys |-> Capacity]
    /\ lag = [k \in Keys |-> 0]
    /\ verdict \in [key : Keys, served : BOOLEAN]

Serve(k) ==
    /\ level[k] >= CallCost
    /\ level' = [level EXCEPT ![k] = @ - CallCost]
    /\ lag' = [lag EXCEPT ![k] = 0]
    /\ verdict' = [key |-> k, served |-> TRUE]

Refuse(k) ==
    /\ level[k] < CallCost
    /\ lag' = [lag EXCEPT ![k] = 0]
    /\ verdict' = [key |-> k, served |-> FALSE]
    /\ UNCHANGED level

ToppedUp(k) == IF Capacity <= level[k] + Refill THEN Capacity ELSE level[k] + Refill

TopUp ==
    /\ level' = [k \in Keys |-> IF lag[k] = 0 THEN ToppedUp(k) ELSE level[k]]
    /\ lag' = [k \in Keys |-> IF lag[k] = 0 THEN 0 ELSE lag[k] - 1]
    /\ UNCHANGED verdict

SetBack ==
    /\ level' \in [Keys -> 0..Capacity]
    /\ lag' \in [Keys -> Nat]
    /\ \A k \in Keys : level'[k] <= level[k] /\ lag'[k] >= lag[k]
    /\ UNCHANGED verdict

Next ==
    \/ TopUp
    \/ SetBack
    \/ \E k \in Keys : Serve(k) \/ Refuse(k)

Spec == Init /\ [][Next]_vars
============================================================================
