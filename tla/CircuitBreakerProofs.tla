------------------------ MODULE CircuitBreakerProofs ------------------------
(***************************************************************************)
(* Proofs about CircuitBreaker for every threshold, cool-down and set of   *)
(* concurrent calls.                                                       *)
(***************************************************************************)
EXTENDS CircuitBreaker, GatewayLemmas, FiniteSetTheorems

USE BreakerAssumption, CallsAssumption

\* The breaker's fields agree, and it was opened no more than a cool-down ago
\* (further back its age is not kept).
BreakerInv ==
    /\ StateExplained
    /\ breaker.opened_at # Never => breaker.opened_at \in (-ResetTicks)..0
    /\ CoolDownServed

\* A lone request finds no breaker that opened behind its back.
SerialInv == (width = 1 /\ flight # {}) => breaker.state # "open"

IInv == TypeOK /\ BreakerInv /\ SerialInv

-----------------------------------------------------------------------------
LEMMA FlightFinite ==
    ASSUME NEW S \in SUBSET Calls
    PROVE  IsFiniteSet(S) /\ Cardinality(S) \in Nat
BY FS_Subset, FS_CardinalityType

\* Admitting one call where there is room keeps the calls within the width.
LEMMA FlightAfterAdmit ==
    ASSUME NEW S \in SUBSET Calls, NEW c \in Calls, c \notin S
    PROVE  Cardinality(S \cup {c}) = Cardinality(S) + 1
BY FlightFinite, FS_AddElement

LEMMA FlightAfterLand ==
    ASSUME NEW S \in SUBSET Calls, NEW c \in S
    PROVE  Cardinality(S \ {c}) = Cardinality(S) - 1
BY FlightFinite, FS_RemoveElement

-----------------------------------------------------------------------------
LEMMA InitIInv == Init => IInv
<1> SUFFICES ASSUME Init PROVE IInv
  OBVIOUS
<1>1. Cardinality({}) = 0
  BY FS_EmptySet
<1>2. Cardinality(Calls) \in Nat
  BY FS_CardinalityType
<1>3. TypeOK
  BY <1>1, <1>2 DEF Init, TypeOK, NewBreaker, BreakerRecord, BreakerState
<1>4. QED
  BY <1>3 DEF Init, IInv, BreakerInv, SerialInv, StateExplained, CoolDownServed, NewBreaker

LEMMA NextIInv == IInv /\ [Next]_vars => IInv'
<1> SUFFICES ASSUME IInv, [Next]_vars
             PROVE  IInv'
  OBVIOUS
<1> USE DEF IInv
<1>0. /\ breaker \in BreakerRecord /\ flight \in SUBSET Calls /\ Present \in Int
      /\ Cardinality(flight) \in Nat /\ Cardinality(Calls) \in Nat /\ width \in Nat
  BY FlightFinite DEF TypeOK, Present
<1>1. ASSUME NEW c \in Calls, Admit(c)
      PROVE  IInv'
  <2>1. MaybeHalfOpen(breaker, Present) \in BreakerRecord
    BY <1>0, BreakerSteps
  <2>2. Cardinality(flight \cup {c}) <= width
    BY <1>0, <1>1, FlightAfterAdmit DEF Admit
  <2>3. TypeOK'
    BY <1>1, <2>1, <2>2 DEF Admit, TypeOK
  <2>4. BreakerInv'
    BY <1>0, <1>1 DEF Admit, BreakerInv, StateExplained, CoolDownServed, MaybeHalfOpen,
                      CooledDown, Present, BreakerRecord, BreakerState
  <2>5. breaker'.state # "open"
    BY <1>1 DEF Admit, Allows
  <2>6. QED
    BY <2>3, <2>4, <2>5 DEF SerialInv
<1>2. ASSUME NEW c \in Calls, Land(c)
      PROVE  /\ flight' = flight \ {c} /\ trials' = trials \ {c} /\ width' = width
             /\ breaker' \in BreakerRecord => TypeOK'
             /\ width = 1 => flight' = {}
  <2>1. /\ c \in flight /\ flight' = flight \ {c} /\ trials' = trials \ {c}
        /\ width' = width
    BY <1>2 DEF Land
  <2>2. Cardinality(flight \ {c}) = Cardinality(flight) - 1
    BY <1>0, <2>1, FlightAfterLand
  <2>3. breaker' \in BreakerRecord => TypeOK'
    BY <1>0, <2>1, <2>2 DEF TypeOK
  <2>4. ASSUME width = 1 PROVE flight' = {}
    <3>1. Cardinality(flight') = 0 \/ Cardinality(flight') < 0
      BY <1>0, <2>1, <2>2, <2>4 DEF TypeOK
    <3>2. flight' \in SUBSET Calls
      BY <1>0, <2>1
    <3>3. Cardinality(flight') \in Nat /\ IsFiniteSet(flight')
      BY <3>2, FlightFinite
    <3>4. QED
      BY <3>1, <3>3, FS_EmptySet
  <2>5. QED
    BY <2>1, <2>3, <2>4
<1>3. ASSUME NEW c \in Calls, Succeed(c)
      PROVE  IInv'
  <2>1. Land(c) /\ breaker' = RecordSuccess(breaker)
    BY <1>3 DEF Succeed
  <2>2. TypeOK'
    BY <1>0, <1>2, <2>1, BreakerSteps
  <2>3. BreakerInv' /\ SerialInv'
    BY <2>1 DEF BreakerInv, SerialInv, StateExplained, CoolDownServed, RecordSuccess,
                NewBreaker
  <2>4. QED
    BY <2>2, <2>3
<1>4. ASSUME NEW c \in Calls, Fail(c)
      PROVE  IInv'
  <2>1. Land(c) /\ breaker' = RecordFailure(breaker, Present)
    BY <1>4 DEF Fail
  <2>2. TypeOK'
    BY <1>0, <1>2, <2>1, BreakerSteps
  <2>3. BreakerInv'
    BY <1>0, <2>1 DEF BreakerInv, StateExplained, CoolDownServed, RecordFailure,
                      FailuresAfter, Present, BreakerRecord, BreakerState
  <2>4. SerialInv'
    BY <1>2, <2>1 DEF SerialInv
  <2>5. QED
    BY <2>2, <2>3, <2>4
<1>5. ASSUME NEW c \in Calls, Cancel(c)
      PROVE  IInv'
  <2>1. Land(c) /\ breaker' = breaker
    BY <1>5 DEF Cancel
  <2>2. TypeOK' /\ (width' = 1 => flight' = {})
    BY <1>0, <1>2, <2>1
  <2>3. QED
    BY <2>1, <2>2 DEF BreakerInv, SerialInv, StateExplained, CoolDownServed, Present
<1>6. CASE Tick
  <2>1. /\ breaker' = [breaker EXCEPT !.opened_at = Aged(@)]
        /\ UNCHANGED <<flight, trials, width>>
    BY <1>6 DEF Tick
  <2>2. /\ breaker.opened_at = Never => Aged(breaker.opened_at) = Never
        /\ breaker.opened_at # Never =>
              /\ Aged(breaker.opened_at) \in (-ResetTicks)..0
              /\ Aged(breaker.opened_at) <= breaker.opened_at
    BY <1>0 DEF Aged, BreakerInv, BreakerRecord
  <2>3. TypeOK'
    BY <1>0, <2>1, <2>2 DEF TypeOK, BreakerRecord
  <2>4. BreakerInv'
    BY <1>0, <2>1, <2>2 DEF BreakerInv, StateExplained, CoolDownServed, BreakerRecord, Present
  <2>5. SerialInv'
    BY <1>0, <2>1 DEF SerialInv, BreakerRecord
  <2>6. QED
    BY <2>3, <2>4, <2>5
<1>7. CASE UNCHANGED vars
  BY <1>7 DEF vars, TypeOK, BreakerInv, SerialInv, StateExplained, CoolDownServed, Present
<1>8. QED
  BY <1>1, <1>3, <1>4, <1>5, <1>6, <1>7 DEF Next

LEMMA Inductive == Spec => []IInv
BY InitIInv, NextIInv, PTL DEF Spec

\* The breaker's record, the calls in flight and the trials among them keep
\* their types, and no more calls are in flight than the width admits.
THEOREM TypeCorrect == Spec => []TypeOK
<1>1. IInv => TypeOK
  BY DEF IInv
<1>2. QED
  BY <1>1, Inductive, PTL

\* Late reports, cancellations and cool-downs never bring the three fields out
\* of agreement (circuit_breaker.py:65-76).
THEOREM FieldsAgree == Spec => []StateExplained
<1>1. IInv => StateExplained
  BY DEF IInv, BreakerInv
<1>2. QED
  BY <1>1, Inductive, PTL

\* A half-open breaker has always served its cool-down, counted from the last
\* failure that opened it (circuit_breaker.py:78-83).
THEOREM CoolDownIsServed == Spec => []CoolDownServed
<1>1. IInv => CoolDownServed
  BY DEF IInv, BreakerInv
<1>2. QED
  BY <1>1, Inductive, PTL

\* A breaker asked by one request at a time moves as its diagram says.
THEOREM SerialDiagram == Spec => SerialFollowsDiagram
<1>1. IInv /\ [Next]_vars => [width = 1 => [Diagram!Next]_Diagram!vars]_vars
  <2> SUFFICES ASSUME IInv, Next, width = 1
               PROVE  Diagram!Next \/ UNCHANGED Diagram!vars
    OBVIOUS
  <2>0. /\ breaker \in BreakerRecord /\ flight \in SUBSET Calls
        /\ StateExplained /\ IsFiniteSet(flight) /\ Cardinality(flight) \in Nat
        /\ Cardinality(flight) <= 1
    BY FlightFinite DEF IInv, TypeOK, BreakerInv
  <2>1. ASSUME NEW c \in Calls, Admit(c)
        PROVE  Diagram!Call
    <3>1. flight = {} /\ flight' # {}
      BY <2>0, <2>1, FS_EmptySet DEF Admit
    <3>2. breaker'.failures = breaker.failures
      BY <2>0, <2>1 DEF Admit, MaybeHalfOpen, BreakerRecord
    <3>3. breaker'.state = IF breaker.state = "closed" THEN "closed" ELSE "half_open"
      BY <2>0, <2>1 DEF Admit, MaybeHalfOpen, Allows, CooledDown, BreakerRecord, BreakerState
    <3>4. QED
      BY <3>1, <3>2, <3>3 DEF Diagram!Call
  <2>2. ASSUME NEW c \in Calls, Land(c)
        PROVE  flight # {} /\ flight' = {} /\ breaker.state # "open"
    <3>1. c \in flight /\ flight' = flight \ {c}
      BY <2>2 DEF Land
    <3>2. Cardinality(flight') = Cardinality(flight) - 1 /\ flight' \in SUBSET Calls
      BY <2>0, <3>1, FlightAfterLand
    <3>3. IsFiniteSet(flight') /\ Cardinality(flight') = 0
      BY <2>0, <3>2, FlightFinite
    <3>4. QED
      BY <3>1, <3>3, FS_EmptySet DEF IInv, SerialInv
  <2>3. ASSUME NEW c \in Calls, Succeed(c)
        PROVE  Diagram!Succeed
    BY <2>2, <2>3 DEF Succeed, Diagram!Succeed, RecordSuccess, NewBreaker
  <2>4. ASSUME NEW c \in Calls, Fail(c)
        PROVE  Diagram!FailClosed \/ Diagram!FailTrial
    <3>1. flight # {} /\ flight' = {} /\ breaker.state \in {"closed", "half_open"}
      BY <2>0, <2>2, <2>4 DEF Fail, BreakerRecord, BreakerState
    <3>2. breaker' = RecordFailure(breaker, Present)
      BY <2>4 DEF Fail
    <3>3. CASE breaker.state = "closed"
      BY <2>0, <3>1, <3>2, <3>3 DEF RecordFailure, FailuresAfter, StateExplained,
                                    BreakerRecord, Diagram!FailClosed
    <3>4. CASE breaker.state = "half_open"
      BY <2>0, <3>1, <3>2, <3>4 DEF RecordFailure, FailuresAfter, StateExplained,
                                    BreakerRecord, Diagram!FailTrial
    <3>5. QED
      BY <3>1, <3>3, <3>4
  <2>5. ASSUME NEW c \in Calls, Cancel(c)
        PROVE  Diagram!Lose
    BY <2>2, <2>5 DEF Cancel, Diagram!Lose
  <2>6. CASE Tick
    <3>1. /\ breaker'.state = breaker.state /\ breaker'.failures = breaker.failures
          /\ flight' = flight
      BY <2>0, <2>6 DEF Tick, BreakerRecord
    <3>2. QED
      BY <3>1 DEF Diagram!vars
  <2>7. QED
    BY <2>1, <2>3, <2>4, <2>5, <2>6 DEF Next, Diagram!Next
<1>2. QED
  BY <1>1, Inductive, PTL DEF Spec, SerialFollowsDiagram
=============================================================================
