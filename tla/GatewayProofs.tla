--------------------------- MODULE GatewayProofs ---------------------------
(***************************************************************************)
(* Proofs about Gateway for every set of calls, tenants, routes and        *)
(* providers, every budget, TTL and number of retries.                     *)
(*                                                                         *)
(* Almost everything that matters about a call can be said of its own      *)
(* record (CallInv): every action changes the record of one call, so the   *)
(* proof shows for each action that the new record is a good one.  What    *)
(* relates calls to the shared state is said by EntriesInv (the cache),    *)
(* ReliableClosed (the breakers) and BudgetInv (the ledger).               *)
(*                                                                         *)
(* For the money, the actions are first sorted into the five kinds of step *)
(* of OneCallMoves (StepKinds); the bound on the overshoot and the         *)
(* refinement of MeteredCalls then look at the kinds only.                 *)
(***************************************************************************)
EXTENDS Gateway, GatewayLemmas, FiniteSetTheorems, WellFoundedInduction

\* A running chat call stands at a configured candidate of its plan, and all
\* the candidates it has passed have failed or were unusable.
OnPlan(s) ==
    LET plan == PlanFor(s.request.task)
    IN  /\ s.position \in 1..Len(plan)
        /\ plan[s.position] \in Configured
        /\ \A i \in 1..(s.position - 1) : plan[i] \notin Configured \cap Reliable

Active(s) == s.phase \in {"calling", "sleeping", "yielded"}

CallInv(s) ==
    /\ s \in CallState
    /\ s.phase # "new" => s.request \in Requests
    /\ s.phase # "done" => s.outcome = "none"
    /\ (Active(s) /\ s.request.op # "embed") => OnPlan(s)
    /\ s.outcome \in {"answered", "cached"} =>
          /\ s.answer = IdentityOf(s.request)
          /\ s.outcome = "cached" => s.age < TTL
    /\ (s.outcome = "failed" /\ s.request.op # "embed") =>
          \A i \in 1..Len(PlanFor(s.request.task)) :
              PlanFor(s.request.task)[i] \notin Configured \cap Reliable

\* An entry was produced for the key it is stored under, and expires TTL
\* ticks later.
EntriesInv ==
    \A k \in Identity :
        entries[k] # NoEntry =>
            /\ entries[k].answers = k
            /\ entries[k].stored_at <= now
            /\ entries[k].expires_at = entries[k].stored_at + TTL

\* The breaker of a provider that never fails never opens.
ReliableClosed(brs) ==
    \A p \in Configured \cap Reliable : brs[p].state = "closed"

\* The calls in progress have their cost set aside.
BudgetInv ==
    Budget > 0 =>
        \A t \in Tenants \ {Platform} :
            spent[t] + MaxCost * Cardinality(InProgress(t)) <= Budget - 1 + MaxCost * peak[t]

CallsInv == \A c \in Calls : CallInv(call[c])

IInv ==
    /\ TypeOK
    /\ CallsInv
    /\ EntriesInv
    /\ ReliableClosed(breakers)

-----------------------------------------------------------------------------
\* Data.

LEMMA RequestFacts ==
    ASSUME NEW r \in Requests
    PROVE  /\ r \in Request /\ r # NoRequest
           /\ r.tenant \in Tenants /\ r.task \in Tasks /\ r.op \in Operations
           /\ r.op = "embed" <=> r.tenant = Platform
           /\ IdentityOf(r) \in Identity /\ CacheKey(r) = IdentityOf(r)
           /\ PlanFor(r.task) \in Seq(Providers)
           /\ Len(PlanFor(r.task)) \in Nat
<1>1. r \in Request /\ r # NoRequest /\ (r.op = "embed" <=> r.tenant = Platform)
  BY GatewayAssumption
<1>2. /\ r.tenant \in Tenants /\ r.task \in Tasks /\ r.op \in Operations
      /\ r.content \in Contents
  BY <1>1 DEF Request
<1>3. IdentityOf(r) \in Identity /\ CacheKey(r) = IdentityOf(r)
  BY <1>2 DEF IdentityOf, Identity, CacheKey
<1>4. PlanFor(r.task) \in Seq(Providers)
  BY <1>2, GatewayAssumption DEF PlanFor
<1>5. QED
  BY <1>1, <1>2, <1>3, <1>4

\* The call as it comes in.
LEMMA FreshCall ==
    ASSUME NEW r \in Requests
    PROVE  LET s == [NewCall EXCEPT !.request = r]
           IN  /\ s \in CallState /\ s.request = r /\ s.outcome = "none"
               /\ s.position = 0
<1>1. 0 \in 0..MaxRetries /\ 0 \in 0..MaxCost
  BY GatewayAssumption
<1>2. QED
  BY <1>1 DEF NewCall, CallState, Phases, Outcomes

\* How a call ends.
LEMMA FinishedCall ==
    ASSUME NEW s \in CallState, NEW why \in Outcomes
    PROVE  LET f == Finished(s, why)
           IN  /\ f \in CallState /\ f.request = s.request /\ f.phase = "done"
               /\ f.outcome = why /\ f.answer = s.answer
BY DEF Finished, CallState, Phases

LEMMA AnsweredCall ==
    ASSUME NEW s \in CallState, s.request \in Requests
    PROVE  LET f == [Finished(s, "answered") EXCEPT !.answer = IdentityOf(s.request)]
           IN  CallInv(f) /\ f.request = s.request /\ f.phase = "done"
               /\ f.outcome = "answered"
<1> DEFINE f == [Finished(s, "answered") EXCEPT !.answer = IdentityOf(s.request)]
<1>1. IdentityOf(s.request) \in Identity
  BY RequestFacts
<1>2. f \in CallState
  BY <1>1 DEF Finished, CallState, Phases, Outcomes
<1>3. /\ f.request = s.request /\ f.phase = "done" /\ f.outcome = "answered"
      /\ f.answer = IdentityOf(s.request)
  BY DEF Finished, CallState
<1>4. QED
  BY <1>2, <1>3 DEF CallInv, Active

\* A call that ends without an answer, and not because its candidates failed.
LEMMA DroppedCall ==
    ASSUME NEW s \in CallState, s.request \in Requests,
           NEW why \in Outcomes \ {"answered", "cached", "failed"}
    PROVE  CallInv(Finished(s, why))
<1>1. /\ Finished(s, why) \in CallState /\ Finished(s, why).request = s.request
      /\ Finished(s, why).phase = "done" /\ Finished(s, why).outcome = why
  BY FinishedCall
<1>2. QED
  BY <1>1 DEF CallInv, Active

\* A call that goes to candidate i.
LEMMA PlacedCall ==
    ASSUME NEW s \in CallState, NEW i \in Nat
    PROVE  LET p == Placed(s, i)
           IN  /\ p \in CallState /\ p.request = s.request /\ p.phase = "calling"
               /\ p.outcome = s.outcome /\ p.position = i
               /\ p.answer = s.answer /\ p.age = s.age
<1>1. 0 \in 0..MaxRetries /\ 0 \in 0..MaxCost
  BY GatewayAssumption
<1>2. [s.tries EXCEPT ![i] = 1] \in [Places -> Nat]
  BY DEF CallState
<1>3. QED
  BY <1>1, <1>2 DEF Placed, CallState, Phases

-----------------------------------------------------------------------------
\* The candidate loop, entered at `from` by a call that has found all earlier
\* candidates of its plan wanting, puts the call on its plan or ends it, and
\* ends it as failed only if no candidate is both configured and reliable.
LEMMA SeekStep ==
    ASSUME NEW c \in Calls, NEW s \in CallState, NEW from \in Nat \ {0},
           NEW brs \in [Configured -> BreakerRecord],
           now \in Int, call \in [Calls -> CallState],
           s.request \in Requests, s.request.op # "embed",
           s.outcome = "none",
           ReliableClosed(brs),
           \A i \in 1..(from - 1) :
               PlanFor(s.request.task)[i] \notin Configured \cap Reliable,
           Seek(c, s, from, brs)
    PROVE  /\ breakers' \in [Configured -> BreakerRecord]
           /\ ReliableClosed(breakers')
           /\ \E n \in CallState :
                 /\ call' = [call EXCEPT ![c] = n]
                 /\ CallInv(n)
                 /\ n.request = s.request
                 /\ \/ n.phase = "calling" /\ n.outcome = "none"
                    \/ n.phase = "done" /\ n.outcome = "failed"
<1> DEFINE plan == PlanFor(s.request.task)
           open == Candidates(plan, from, brs)
<1>1. Len(plan) \in Nat
  BY RequestFacts
<1>2. \A i \in from..Len(plan) : plan[i] \in Configured \cap Reliable => i \in open
  <2> SUFFICES ASSUME NEW i \in from..Len(plan), plan[i] \in Configured \cap Reliable
               PROVE  i \in open
    OBVIOUS
  <2>1. brs[plan[i]] \in BreakerRecord /\ brs[plan[i]].state = "closed"
    BY DEF ReliableClosed
  <2>2. QED
    BY <2>1, ClosedAllows DEF Candidates
<1>3. CASE open = {} /\ call' = [call EXCEPT ![c] = Finished(s, "failed")] /\ breakers' = brs
  <2> DEFINE f == Finished(s, "failed")
  <2>1. /\ f \in CallState /\ f.request = s.request /\ f.phase = "done"
        /\ f.outcome = "failed"
    BY FinishedCall DEF Outcomes
  <2>2. \A i \in 1..Len(plan) : plan[i] \notin Configured \cap Reliable
    <3>1. \A i \in from..Len(plan) : plan[i] \notin Configured \cap Reliable
      BY <1>2, <1>3
    <3>2. \A i \in 1..Len(plan) : i \in 1..(from - 1) \/ i \in from..Len(plan)
      BY <1>1
    <3>3. QED
      BY <3>1, <3>2
  <2>3. CallInv(f)
    BY <2>1, <2>2 DEF CallInv, Active
  <2>4. QED
    BY <1>3, <2>1, <2>3
<1>4. ASSUME NEW i \in open,
             \A j \in open : i <= j,
             call' = [call EXCEPT ![c] = Placed(s, i)],
             breakers' = [brs EXCEPT ![plan[i]] = MaybeHalfOpen(@, now)]
      PROVE  /\ breakers' \in [Configured -> BreakerRecord]
             /\ ReliableClosed(breakers')
             /\ \E n \in CallState :
                   /\ call' = [call EXCEPT ![c] = n]
                   /\ CallInv(n)
                   /\ n.request = s.request
                   /\ n.phase = "calling" /\ n.outcome = "none"
  <2> DEFINE n == Placed(s, i)
  <2>1. i \in from..Len(plan) /\ plan[i] \in Configured /\ i \in Nat
    BY <1>1 DEF Candidates
  <2>2. /\ n \in CallState /\ n.request = s.request /\ n.phase = "calling"
        /\ n.outcome = "none" /\ n.position = i
    BY <2>1, PlacedCall
  <2>3. \A j \in 1..(i - 1) : plan[j] \notin Configured \cap Reliable
    <3> SUFFICES ASSUME NEW j \in 1..(i - 1)
                 PROVE  plan[j] \notin Configured \cap Reliable
      OBVIOUS
    <3>1. CASE j \in 1..(from - 1)
      BY <3>1
    <3>2. CASE j \in from..Len(plan)
      <4>1. j \notin open
        BY <1>4, <2>1
      <4>2. QED
        BY <1>2, <3>2, <4>1
    <3>3. QED
      BY <1>1, <2>1, <3>1, <3>2
  <2>4. OnPlan(n)
    BY <1>1, <2>1, <2>2, <2>3 DEF OnPlan
  <2>5. CallInv(n)
    BY <2>2, <2>4 DEF CallInv
  <2>6. MaybeHalfOpen(brs[plan[i]], now) \in BreakerRecord
    BY <2>1, BreakerSteps
  <2>7. breakers' \in [Configured -> BreakerRecord]
    BY <1>4, <2>1, <2>6
  <2>8. ReliableClosed(breakers')
    <3> SUFFICES ASSUME NEW p \in Configured \cap Reliable
                 PROVE  breakers'[p].state = "closed"
      BY DEF ReliableClosed
    <3>1. brs[p] \in BreakerRecord /\ brs[p].state = "closed"
      BY DEF ReliableClosed
    <3>2. MaybeHalfOpen(brs[p], now) = brs[p]
      BY <3>1, ClosedAllows
    <3>3. QED
      BY <1>4, <2>1, <3>1, <3>2
  <2>9. QED
    BY <1>4, <2>2, <2>5, <2>7, <2>8
<1>5. QED
  BY <1>3, <1>4 DEF Seek

-----------------------------------------------------------------------------
\* The inductive invariant.

LEMMA InitIInv == Init => IInv
<1> SUFFICES ASSUME Init PROVE IInv
  OBVIOUS
<1>1. NewBreaker \in BreakerRecord /\ NewBreaker.state = "closed"
  BY BreakerAssumption DEF NewBreaker, BreakerRecord, BreakerState
<1>2. NewCall \in CallState /\ CallInv(NewCall)
  BY GatewayAssumption DEF NewCall, CallState, Phases, Outcomes, CallInv, Active
<1>3. TypeOK
  BY <1>1, <1>2, GatewayAssumption DEF Init, TypeOK
<1>4. CallsInv /\ EntriesInv /\ ReliableClosed(breakers)
  BY <1>1, <1>2 DEF Init, CallsInv, EntriesInv, ReliableClosed
<1>5. QED
  BY <1>3, <1>4 DEF IInv

LEMMA CallUpdate ==
    ASSUME call \in [Calls -> CallState], CallsInv,
           NEW c \in Calls, NEW n \in CallState, CallInv(n),
           call' = [call EXCEPT ![c] = n]
    PROVE  call' \in [Calls -> CallState] /\ CallsInv'
BY DEF CallsInv

\* What every arrival does to the buckets.
LEMMA ArrivesStep ==
    ASSUME TypeOK, NEW c \in Calls, NEW r \in Requests, Arrives(c, r)
    PROVE  /\ buckets' \in [Tenants -> Bucket \cup {NoBucket}]
           /\ now' = now /\ now \in Int /\ call[c].phase = "new"
<1>1. now \in Int /\ r.tenant \in Tenants /\ buckets \in [Tenants -> Bucket \cup {NoBucket}]
  BY RequestFacts, GatewayAssumption DEF TypeOK
<1>2. Acquired(buckets[r.tenant], now) \in Bucket
  BY <1>1, AcquiredType
<1>3. QED
  BY <1>1, <1>2 DEF Arrives

LEMMA TurnAwayStep ==
    ASSUME IInv, NEW c \in Calls, NEW r \in Requests,
           NEW why \in Outcomes \ {"answered", "cached", "failed"},
           TurnAway(c, r, why)
    PROVE  IInv'
<1> DEFINE s == [NewCall EXCEPT !.request = r]
           n == Finished(s, why)
<1> USE DEF IInv
<1>1. s \in CallState /\ s.request = r
  BY FreshCall
<1>2. n \in CallState /\ CallInv(n)
  BY <1>1, DroppedCall, FinishedCall
<1>3. /\ Arrives(c, r)
      /\ call' = [call EXCEPT ![c] = n]
      /\ UNCHANGED <<breakers, entries, events, spent, peak>>
  BY DEF TurnAway
<1>4. call' \in [Calls -> CallState] /\ CallsInv'
  BY <1>2, <1>3, CallUpdate DEF TypeOK
<1>5. now' = now /\ buckets' \in [Tenants -> Bucket \cup {NoBucket}]
  BY <1>3, ArrivesStep
<1>6. TypeOK'
  BY <1>3, <1>4, <1>5 DEF TypeOK
<1>7. EntriesInv' /\ ReliableClosed(breakers)'
  BY <1>3, <1>5 DEF EntriesInv, ReliableClosed
<1>8. QED
  BY <1>4, <1>6, <1>7

LEMMA ServeCachedStep ==
    ASSUME IInv, NEW c \in Calls, NEW r \in Requests, ServeCached(c, r)
    PROVE  IInv'
<1> DEFINE s == [NewCall EXCEPT !.request = r]
           k == IdentityOf(r)
           e == entries[k]
           f == Finished(s, "cached")
           n == [f EXCEPT !.answer = e.answers, !.age = now - e.stored_at]
           v == [call |-> c, tenant |-> r.tenant, cost |-> 0, cached |-> TRUE]
<1> USE DEF IInv
<1>1. k \in Identity /\ CacheKey(r) = k /\ r.tenant \in Tenants
  BY RequestFacts
<1>2. /\ Arrives(c, r) /\ Hit(r)
      /\ call' = [call EXCEPT ![c] = n]
      /\ events' = events \cup {v}
      /\ UNCHANGED <<breakers, entries, spent, peak>>
  BY <1>1 DEF ServeCached
<1>3. /\ e \in Entry /\ e.answers = k /\ now < e.expires_at
      /\ e.stored_at <= now /\ e.expires_at = e.stored_at + TTL
  BY <1>1, <1>2 DEF Hit, Fresh, EntriesInv, TypeOK
<1>4. /\ now - e.stored_at \in Nat /\ now - e.stored_at < TTL
  BY <1>3, GatewayAssumption DEF Entry, TypeOK
<1>5. /\ f \in CallState /\ f.request = r /\ f.phase = "done" /\ f.outcome = "cached"
  <2>1. s \in CallState /\ s.request = r /\ "cached" \in Outcomes
    BY FreshCall DEF Outcomes
  <2>2. QED
    BY <2>1, FinishedCall
<1>6. /\ n \in CallState /\ n.request = r /\ n.phase = "done" /\ n.outcome = "cached"
      /\ n.answer = k /\ n.age = now - e.stored_at
  <2>1. e.answers \in Identity \cup {NoRequest}
    BY <1>1, <1>3
  <2>2. QED
    BY <1>3, <1>4, <1>5, <2>1 DEF CallState
<1>7. CallInv(n)
  BY <1>4, <1>6 DEF CallInv, Active
<1>8. call' \in [Calls -> CallState] /\ CallsInv'
  BY <1>2, <1>6, <1>7, CallUpdate DEF TypeOK
<1>9. v \in Event
  BY <1>1, GatewayAssumption DEF Event
<1>10. now' = now /\ buckets' \in [Tenants -> Bucket \cup {NoBucket}]
  BY <1>2, ArrivesStep
<1>11. TypeOK'
  BY <1>2, <1>8, <1>9, <1>10 DEF TypeOK
<1>12. EntriesInv' /\ ReliableClosed(breakers)'
  BY <1>2, <1>10 DEF EntriesInv, ReliableClosed
<1>13. QED
  BY <1>8, <1>11, <1>12

\* Where StartChat leaves the call.
LEMMA StartSeek ==
    ASSUME IInv, NEW c \in Calls, NEW r \in Requests, StartChat(c, r)
    PROVE  /\ breakers' \in [Configured -> BreakerRecord]
           /\ ReliableClosed(breakers')
           /\ \E n \in CallState :
                 /\ call' = [call EXCEPT ![c] = n]
                 /\ CallInv(n)
                 /\ n.request = r
                 /\ n.phase \in {"calling", "done"}
<1> DEFINE s == [NewCall EXCEPT !.request = r]
<1>1. s \in CallState /\ s.request = r /\ s.outcome = "none"
  BY FreshCall
<1>2. Seek(c, s, 1, breakers) /\ r.op # "embed"
  BY DEF StartChat
<1>3. breakers \in [Configured -> BreakerRecord] /\ call \in [Calls -> CallState]
      /\ now \in Int
  BY GatewayAssumption DEF IInv, TypeOK
<1>4. \A i \in 1..(1 - 1) : PlanFor(s.request.task)[i] \notin Configured \cap Reliable
  OBVIOUS
<1>5. /\ s.request \in Requests /\ s.request.op # "embed" /\ 1 \in Nat \ {0}
      /\ ReliableClosed(breakers)
  BY <1>1, <1>2 DEF IInv
<1> HIDE DEF s
<1>6. /\ breakers' \in [Configured -> BreakerRecord]
      /\ ReliableClosed(breakers')
      /\ \E n \in CallState :
            /\ call' = [call EXCEPT ![c] = n]
            /\ CallInv(n)
            /\ n.request = s.request
            /\ \/ n.phase = "calling" /\ n.outcome = "none"
               \/ n.phase = "done" /\ n.outcome = "failed"
  BY <1>1, <1>2, <1>3, <1>4, <1>5, SeekStep
<1>7. QED
  BY <1>1, <1>6

LEMMA StartChatStep ==
    ASSUME IInv, NEW c \in Calls, NEW r \in Requests, StartChat(c, r)
    PROVE  IInv'
<1> DEFINE k == CacheKey(r)
<1> USE DEF IInv
<1>1. /\ Arrives(c, r)
      /\ entries' = IF LooksUp(r) THEN AfterGet(k) ELSE entries
      /\ peak' = [peak EXCEPT ![r.tenant] =
                    Larger(@, Cardinality(InProgress(r.tenant) \cup {c}))]
      /\ UNCHANGED <<events, spent>>
  BY DEF StartChat
<1>2. /\ now' = now /\ now \in Int
      /\ buckets' \in [Tenants -> Bucket \cup {NoBucket}]
  BY <1>1, ArrivesStep
<1>3. PICK n \in CallState :
        /\ call' = [call EXCEPT ![c] = n] /\ CallInv(n)
        /\ breakers' \in [Configured -> BreakerRecord] /\ ReliableClosed(breakers')
  BY StartSeek
<1>4. call' \in [Calls -> CallState] /\ CallsInv'
  BY <1>3, CallUpdate DEF TypeOK
<1>5. /\ entries' \in [Identity -> Entry \cup {NoEntry}]
      /\ \A i \in Identity : entries'[i] # NoEntry => entries'[i] = entries[i]
  BY <1>1 DEF AfterGet, TypeOK
<1>6. peak' \in [Tenants -> Nat]
  <2>1. IsFiniteSet(InProgress(r.tenant) \cup {c})
    BY FS_Subset, GatewayAssumption DEF InProgress
  <2>2. Cardinality(InProgress(r.tenant) \cup {c}) \in Nat
    BY <2>1, FS_CardinalityType
  <2>3. QED
    BY <1>1, <2>2 DEF Larger, TypeOK
<1>7. TypeOK'
  BY <1>1, <1>2, <1>3, <1>4, <1>5, <1>6 DEF TypeOK
<1>8. EntriesInv'
  BY <1>2, <1>5 DEF EntriesInv
<1>9. ReliableClosed(breakers)'
  BY <1>3 DEF ReliableClosed
<1>10. QED
  BY <1>4, <1>7, <1>8, <1>9

LEMMA StartEmbedStep ==
    ASSUME IInv, NEW c \in Calls, NEW r \in Requests, StartEmbed(c, r)
    PROVE  IInv'
<1> DEFINE n == [NewCall EXCEPT !.request = r, !.phase = "calling"]
<1> USE DEF IInv
<1>1. n \in CallState /\ n.request = r /\ n.outcome = "none"
  <2>1. 0 \in 0..MaxRetries /\ 0 \in 0..MaxCost
    BY GatewayAssumption
  <2>2. QED
    BY <2>1 DEF NewCall, CallState, Phases, Outcomes
<1>2. /\ Arrives(c, r) /\ r.op = "embed"
      /\ call' = [call EXCEPT ![c] = n]
      /\ UNCHANGED <<breakers, entries, events, spent, peak>>
  BY DEF StartEmbed
<1>3. CallInv(n)
  BY <1>1, <1>2 DEF CallInv
<1>4. call' \in [Calls -> CallState] /\ CallsInv'
  BY <1>1, <1>2, <1>3, CallUpdate DEF TypeOK
<1>5. now' = now /\ buckets' \in [Tenants -> Bucket \cup {NoBucket}]
  BY <1>2, ArrivesStep
<1>6. TypeOK'
  BY <1>2, <1>4, <1>5 DEF TypeOK
<1>7. EntriesInv' /\ ReliableClosed(breakers)'
  BY <1>2, <1>5 DEF EntriesInv, ReliableClosed
<1>8. QED
  BY <1>4, <1>6, <1>7

LEMMA ArriveStep ==
    ASSUME IInv, NEW c \in Calls, NEW r \in Requests, Arrive(c, r)
    PROVE  IInv'
<1>1. /\ RefuseRate(c, r) => TurnAway(c, r, "rate_limited")
      /\ RefuseBudget(c, r) => TurnAway(c, r, "over_budget")
      /\ RefuseUnsafe(c, r) => TurnAway(c, r, "unsafe")
      /\ RefuseRoute(c, r) => TurnAway(c, r, "no_model")
  BY DEF RefuseRate, RefuseBudget, RefuseUnsafe, RefuseRoute
<1>2. {"rate_limited", "over_budget", "unsafe", "no_model"}
        \subseteq Outcomes \ {"answered", "cached", "failed"}
  BY DEF Outcomes
<1>3. QED
  BY <1>1, <1>2, TurnAwayStep, ServeCachedStep, StartChatStep, StartEmbedStep DEF Arrive

-----------------------------------------------------------------------------
\* A step of one call, with whatever it does to breakers, cache and ledger.
LEMMA CallStep ==
    ASSUME IInv, NEW c \in Calls, NEW n \in CallState, CallInv(n),
           call' = [call EXCEPT ![c] = n],
           breakers' \in [Configured -> BreakerRecord], ReliableClosed(breakers'),
           entries' \in [Identity -> Entry \cup {NoEntry}], EntriesInv',
           events' \in SUBSET Event, spent' \in [Tenants -> Nat],
           UNCHANGED <<now, buckets, peak>>
    PROVE  IInv'
<1>1. call' \in [Calls -> CallState] /\ CallsInv'
  BY CallUpdate DEF IInv, TypeOK
<1>2. TypeOK'
  BY <1>1 DEF IInv, TypeOK
<1>3. ReliableClosed(breakers)'
  BY DEF ReliableClosed
<1>4. QED
  BY <1>1, <1>2, <1>3 DEF IInv

\* A step that changes nothing but one call.
LEMMA LocalStep ==
    ASSUME IInv, NEW c \in Calls, NEW n \in CallState, CallInv(n),
           call' = [call EXCEPT ![c] = n],
           UNCHANGED <<now, buckets, breakers, entries, events, spent, peak>>
    PROVE  IInv'
<1>1. /\ breakers' \in [Configured -> BreakerRecord] /\ ReliableClosed(breakers')
      /\ entries' \in [Identity -> Entry \cup {NoEntry}]
      /\ events' \in SUBSET Event /\ spent' \in [Tenants -> Nat]
  BY DEF IInv, TypeOK, ReliableClosed
<1>2. EntriesInv'
  BY DEF IInv, EntriesInv
<1>3. QED
  BY <1>1, <1>2, CallStep

LEMMA RunningCall ==
    ASSUME IInv, NEW c \in Calls, Running(c)
    PROVE  /\ call[c] \in CallState /\ CallInv(call[c])
           /\ call[c].request \in Requests /\ call[c].outcome = "none"
           /\ call[c].request.op # "embed" => OnPlan(call[c])
           /\ call[c].attempt \in 0..MaxRetries
<1>1. call[c] \in CallState /\ CallInv(call[c])
  BY DEF IInv, CallsInv, CallInv
<1>2. QED
  BY <1>1 DEF Running, CallInv, Active, CallState

\* A chat call in progress stands at a provider that has a breaker.
LEMMA CurrentProvider ==
    ASSUME IInv, NEW c \in Calls, Running(c), call[c].request.op # "embed"
    PROVE  /\ ProviderOf(c) \in Configured
           /\ call[c].position \in Nat \ {0}
           /\ \A i \in 1..((call[c].position + 1) - 1) :
                 \/ PlanFor(call[c].request.task)[i] \notin Configured \cap Reliable
                 \/ i = call[c].position
BY RunningCall DEF OnPlan, ProviderOf, PlanOf

\* Whoever answers, the ledger stays well-formed.
LEMMA BookStep ==
    ASSUME IInv, NEW c \in Calls, call[c].request \in Requests,
           NEW cost \in 0..MaxCost, Book(c, cost)
    PROVE  events' \in SUBSET Event /\ spent' \in [Tenants -> Nat]
<1> DEFINE t == call[c].request.tenant
           v == [call |-> c, tenant |-> t, cost |-> cost, cached |-> FALSE]
<1>1. t \in Tenants
  BY RequestFacts
<1>2. v \in Event
  BY <1>1 DEF Event
<1>3. spent \in [Tenants -> Nat] /\ spent[t] + cost \in Nat
  BY <1>1, GatewayAssumption DEF IInv, TypeOK
<1>4. QED
  BY <1>2, <1>3 DEF Book, IInv, TypeOK

\* A success closes the breaker of the provider that had it.
LEMMA SuccessStep ==
    ASSUME IInv, NEW c \in Calls, Running(c), call[c].request.op # "embed",
           breakers' = [breakers EXCEPT ![ProviderOf(c)] = RecordSuccess(@)]
    PROVE  breakers' \in [Configured -> BreakerRecord] /\ ReliableClosed(breakers')
<1>1. breakers \in [Configured -> BreakerRecord] /\ ProviderOf(c) \in Configured
  BY CurrentProvider DEF IInv, TypeOK
<1>2. /\ RecordSuccess(breakers[ProviderOf(c)]) \in BreakerRecord
      /\ RecordSuccess(breakers[ProviderOf(c)]).state = "closed"
  BY <1>1, BreakerAssumption
     DEF RecordSuccess, NewBreaker, BreakerRecord, BreakerState
<1>3. QED
  BY <1>1, <1>2 DEF ReliableClosed, IInv

\* A failure leaves the breakers of reliable providers alone.
LEMMA FailedStep ==
    ASSUME IInv, NEW c \in Calls, Running(c), call[c].request.op # "embed", MayFail(c)
    PROVE  Failed(c) \in [Configured -> BreakerRecord] /\ ReliableClosed(Failed(c))
<1>1. /\ breakers \in [Configured -> BreakerRecord] /\ ProviderOf(c) \in Configured
      /\ ProviderOf(c) \notin Reliable
  BY CurrentProvider DEF IInv, TypeOK, MayFail
<1>2. now \in Int
  BY GatewayAssumption DEF IInv, TypeOK
<1>3. RecordFailure(breakers[ProviderOf(c)], now) \in BreakerRecord
  BY <1>1, <1>2, BreakerSteps
<1>4. QED
  BY <1>1, <1>3 DEF Failed, ReliableClosed, IInv

-----------------------------------------------------------------------------
LEMMA AnswerStep ==
    ASSUME IInv, NEW c \in Calls, NEW cost \in 0..MaxCost, Answer(c, cost)
    PROVE  IInv'
<1> DEFINE r == call[c].request
           k == IdentityOf(r)
           n == [Finished(call[c], "answered") EXCEPT !.answer = k]
<1>1. Running(c) /\ r.op # "embed"
  BY DEF Answer, Awaits, Running
<1>2. call[c] \in CallState /\ r \in Requests
  BY <1>1, RunningCall
<1>3. n \in CallState /\ CallInv(n)
  BY <1>2, AnsweredCall DEF CallInv
<1>4. k \in Identity /\ CacheKey(r) = k
  BY <1>2, RequestFacts
<1>5. /\ breakers' = [breakers EXCEPT ![ProviderOf(c)] = RecordSuccess(@)]
      /\ Book(c, cost)
      /\ entries' = IF r.cacheable THEN AfterSet(k, k) ELSE entries
      /\ call' = [call EXCEPT ![c] = n]
      /\ UNCHANGED <<now, buckets, peak>>
  BY <1>4 DEF Answer
<1>6. breakers' \in [Configured -> BreakerRecord] /\ ReliableClosed(breakers')
  BY <1>1, <1>5, SuccessStep
<1>7. events' \in SUBSET Event /\ spent' \in [Tenants -> Nat]
  BY <1>2, <1>5, BookStep
<1>8. entries' \in [Identity -> Entry \cup {NoEntry}] /\ EntriesInv'
  <2> DEFINE e == [answers |-> k, stored_at |-> now, expires_at |-> now + TTL]
  <2>1. entries \in [Identity -> Entry \cup {NoEntry}] /\ EntriesInv /\ now' = now
        /\ now \in 0..MaxTime
    BY <1>5 DEF IInv, TypeOK
  <2>2. e \in Entry
    BY <1>4, <2>1, GatewayAssumption DEF Entry
  <2>3. CASE entries' = entries
    BY <2>1, <2>3 DEF EntriesInv
  <2>4. CASE entries' = [entries EXCEPT ![k] = e]
    <3>1. entries' \in [Identity -> Entry \cup {NoEntry}]
      BY <1>4, <2>1, <2>2, <2>4
    <3>2. ASSUME NEW i \in Identity, entries'[i] # NoEntry
          PROVE  /\ entries'[i].answers = i
                 /\ entries'[i].stored_at <= now'
                 /\ entries'[i].expires_at = entries'[i].stored_at + TTL
      <4>1. CASE i = k
        BY <1>4, <2>1, <2>4, <4>1, GatewayAssumption
      <4>2. CASE i # k
        BY <2>1, <2>4, <3>2, <4>2 DEF EntriesInv
      <4>3. QED
        BY <4>1, <4>2
    <3>3. QED
      BY <3>1, <3>2 DEF EntriesInv
  <2>5. QED
    BY <1>5, <2>3, <2>4 DEF AfterSet
<1>9. QED
  BY <1>3, <1>5, <1>6, <1>7, <1>8, CallStep

LEMMA AnswerEmbedStep ==
    ASSUME IInv, NEW c \in Calls, NEW cost \in 0..MaxCost, AnswerEmbed(c, cost)
    PROVE  IInv'
<1> DEFINE n == [Finished(call[c], "answered") EXCEPT !.answer = IdentityOf(call[c].request)]
<1>1. call[c] \in CallState /\ call[c].request \in Requests
  BY RunningCall DEF AnswerEmbed, Awaits, Running
<1>2. n \in CallState /\ CallInv(n)
  BY <1>1, AnsweredCall DEF CallInv
<1>3. /\ Book(c, cost)
      /\ call' = [call EXCEPT ![c] = n]
      /\ UNCHANGED <<now, buckets, breakers, entries, peak>>
  BY DEF AnswerEmbed
<1>4. events' \in SUBSET Event /\ spent' \in [Tenants -> Nat]
  BY <1>1, <1>3, BookStep
<1>5. /\ breakers' \in [Configured -> BreakerRecord] /\ ReliableClosed(breakers')
      /\ entries' \in [Identity -> Entry \cup {NoEntry}] /\ EntriesInv'
  BY <1>3 DEF IInv, TypeOK, ReliableClosed, EntriesInv
<1>6. QED
  BY <1>2, <1>3, <1>4, <1>5, CallStep

LEMMA EndStreamStep ==
    ASSUME IInv, NEW c \in Calls, EndStream(c)
    PROVE  IInv'
<1> DEFINE n == [Finished(call[c], "answered") EXCEPT !.answer = IdentityOf(call[c].request)]
<1>1. Running(c) /\ call[c].request.op # "embed"
  BY DEF EndStream, Awaits, Running
<1>2. call[c] \in CallState /\ call[c].request \in Requests /\ call[c].usage \in 0..MaxCost
  BY <1>1, RunningCall DEF CallState
<1>3. n \in CallState /\ CallInv(n)
  BY <1>2, AnsweredCall DEF CallInv
<1>4. /\ breakers' = [breakers EXCEPT ![ProviderOf(c)] = RecordSuccess(@)]
      /\ Book(c, call[c].usage)
      /\ call' = [call EXCEPT ![c] = n]
      /\ UNCHANGED <<now, buckets, entries, peak>>
  BY DEF EndStream
<1>5. breakers' \in [Configured -> BreakerRecord] /\ ReliableClosed(breakers')
  BY <1>1, <1>4, SuccessStep
<1>6. events' \in SUBSET Event /\ spent' \in [Tenants -> Nat]
  BY <1>2, <1>4, BookStep
<1>7. entries' \in [Identity -> Entry \cup {NoEntry}] /\ EntriesInv'
  BY <1>4 DEF IInv, TypeOK, EntriesInv
<1>8. QED
  BY <1>3, <1>4, <1>5, <1>6, <1>7, CallStep

\* GiveUp and SwitchStream: the breaker is charged and the loop goes on.
LEMMA MoveOnSeek ==
    ASSUME IInv, NEW c \in Calls, Running(c), call[c].request.op # "embed", MayFail(c),
           Seek(c, call[c], call[c].position + 1, Failed(c))
    PROVE  /\ breakers' \in [Configured -> BreakerRecord]
           /\ ReliableClosed(breakers')
           /\ \E n \in CallState :
                 /\ call' = [call EXCEPT ![c] = n]
                 /\ CallInv(n)
                 /\ n.request = call[c].request
                 /\ n.phase \in {"calling", "done"}
<1> DEFINE s == call[c]
           from == s.position + 1
<1>1. s \in CallState /\ s.request \in Requests /\ s.outcome = "none"
  BY RunningCall
<1>2. Failed(c) \in [Configured -> BreakerRecord] /\ ReliableClosed(Failed(c))
  BY FailedStep
<1>3. now \in Int /\ call \in [Calls -> CallState]
  BY GatewayAssumption DEF IInv, TypeOK
<1>4. from \in Nat \ {0}
  BY CurrentProvider
<1>5. \A i \in 1..(from - 1) : PlanFor(s.request.task)[i] \notin Configured \cap Reliable
  <2>1. PlanFor(s.request.task)[s.position] \notin Reliable
    BY DEF MayFail, ProviderOf, PlanOf
  <2>2. QED
    BY <2>1, CurrentProvider
<1> HIDE DEF from
<1>6. Seek(c, s, from, Failed(c))
  BY DEF from
<1>7. QED
  BY <1>1, <1>2, <1>3, <1>4, <1>5, <1>6, SeekStep

LEMMA MoveOnStep ==
    ASSUME IInv, NEW c \in Calls, Running(c), call[c].request.op # "embed", MayFail(c),
           Seek(c, call[c], call[c].position + 1, Failed(c)),
           UNCHANGED <<now, buckets, entries, events, spent, peak>>
    PROVE  IInv'
<1>1. PICK n \in CallState :
        /\ call' = [call EXCEPT ![c] = n] /\ CallInv(n)
        /\ breakers' \in [Configured -> BreakerRecord] /\ ReliableClosed(breakers')
  BY MoveOnSeek
<1>2. /\ entries' \in [Identity -> Entry \cup {NoEntry}] /\ EntriesInv'
      /\ events' \in SUBSET Event /\ spent' \in [Tenants -> Nat]
  BY DEF IInv, TypeOK, EntriesInv
<1>3. QED
  BY <1>1, <1>2, CallStep

\* A call that goes on where it is keeps what CallInv says of it.
LEMMA SameCandidate ==
    ASSUME NEW s \in CallState, NEW n \in CallState, CallInv(s), Active(s), Active(n),
           n.request = s.request, n.position = s.position, n.outcome = s.outcome
    PROVE  CallInv(n)
BY DEF CallInv, Active, OnPlan

\* Retry, Wake, Chunk and Resume.
LEMMA OnwardMoves ==
    ASSUME IInv, NEW c \in Calls,
           Retry(c) \/ Wake(c) \/ Resume(c) \/ \E u \in 0..MaxCost : Chunk(c, u)
    PROVE  /\ Running(c) /\ Active(call[c])
           /\ UNCHANGED <<now, buckets, breakers, entries, events, spent, peak>>
           /\ \E n \in CallState :
                 /\ call' = [call EXCEPT ![c] = n] /\ Active(n)
                 /\ n.request = call[c].request /\ n.position = call[c].position
                 /\ n.outcome = call[c].outcome
<1> DEFINE s == call[c]
<1>1. Running(c) /\ Active(s)
  BY DEF Retry, Wake, Resume, Chunk, Awaits, Running, Active
<1>2. s \in CallState /\ CallInv(s)
  BY <1>1, RunningCall
<1>3. UNCHANGED <<now, buckets, breakers, entries, events, spent, peak>>
  BY DEF Retry, Wake, Resume, Chunk
<1>4. \E n \in CallState :
        /\ call' = [call EXCEPT ![c] = n] /\ Active(n)
        /\ n.request = s.request /\ n.position = s.position /\ n.outcome = s.outcome
  <2>1. CASE Retry(c)
    <3> DEFINE n == [s EXCEPT !.phase = "sleeping", !.attempt = @ + 1]
    <3>1. call' = [call EXCEPT ![c] = n] /\ s.attempt < MaxRetries
      BY <2>1 DEF Retry
    <3>2. s.attempt + 1 \in 0..MaxRetries
      BY <1>2, <3>1, GatewayAssumption DEF CallState
    <3>3. n \in CallState
      BY <1>2, <3>2 DEF CallState, Phases
    <3>4. QED
      BY <1>2, <3>1, <3>3 DEF CallState, Active
  <2>2. CASE Wake(c)
    <3> DEFINE tries == OneMoreTry(s.tries, s.position)
               n == [s EXCEPT !.phase = "calling", !.tries = tries]
    <3>1. call' = [call EXCEPT ![c] = n]
      BY <2>2 DEF Wake
    <3>2. tries \in [Places -> Nat]
      BY <1>2 DEF CallState, OneMoreTry
    <3> HIDE DEF tries
    <3>3. n \in CallState
      BY <1>2, <3>2 DEF CallState, Phases
    <3>4. QED
      BY <1>2, <3>1, <3>3 DEF CallState, Active
  <2>3. CASE Resume(c)
    <3> DEFINE n == [s EXCEPT !.phase = "calling"]
    <3>1. call' = [call EXCEPT ![c] = n]
      BY <2>3 DEF Resume
    <3>2. n \in CallState
      BY <1>2 DEF CallState, Phases
    <3>3. QED
      BY <1>2, <3>1, <3>2 DEF CallState, Active
  <2>4. ASSUME NEW u \in 0..MaxCost, Chunk(c, u)
        PROVE  \E n \in CallState :
                  /\ call' = [call EXCEPT ![c] = n] /\ Active(n)
                  /\ n.request = s.request /\ n.position = s.position
                  /\ n.outcome = s.outcome
    <3> DEFINE n == [s EXCEPT !.phase = "yielded", !.emitted = TRUE, !.usage = u]
    <3>1. call' = [call EXCEPT ![c] = n]
      BY <2>4 DEF Chunk
    <3>2. n \in CallState
      BY <1>2 DEF CallState, Phases
    <3>3. QED
      BY <1>2, <3>1, <3>2 DEF CallState, Active
  <2>5. QED
    BY <2>1, <2>2, <2>3, <2>4
<1>5. QED
  BY <1>1, <1>3, <1>4

LEMMA OnwardStep ==
    ASSUME IInv, NEW c \in Calls,
           Retry(c) \/ Wake(c) \/ Resume(c) \/ \E u \in 0..MaxCost : Chunk(c, u)
    PROVE  IInv'
BY OnwardMoves, RunningCall, SameCandidate, LocalStep

\* GiveUpEmbed, BreakStream and Abort.
LEMMA StopStep ==
    ASSUME IInv, NEW c \in Calls, GiveUpEmbed(c) \/ BreakStream(c) \/ Abort(c)
    PROVE  IInv'
<1> DEFINE s == call[c]
<1>1. Running(c)
  BY DEF GiveUpEmbed, BreakStream, Abort, Awaits, Running
<1>2. s \in CallState /\ s.request \in Requests
  BY <1>1, RunningCall
<1>3. CASE GiveUpEmbed(c)
  <2> DEFINE n == Finished(s, "failed")
  <2>1. n \in CallState /\ n.request = s.request /\ n.phase = "done" /\ n.outcome = "failed"
    BY <1>2, FinishedCall DEF Outcomes
  <2>2. CallInv(n)
    BY <1>2, <1>3, <2>1 DEF GiveUpEmbed, Awaits, CallInv, Active
  <2>3. QED
    BY <1>3, <2>1, <2>2, LocalStep DEF GiveUpEmbed
<1>4. CASE BreakStream(c)
  <2> DEFINE n == Finished(s, "broken")
  <2>1. "broken" \in Outcomes \ {"answered", "cached", "failed"}
    BY DEF Outcomes
  <2>2. n \in CallState /\ CallInv(n)
    BY <1>2, <2>1, DroppedCall, FinishedCall
  <2>3. s.request.op # "embed" /\ MayFail(c) /\ breakers' = Failed(c)
    BY <1>4 DEF BreakStream, Awaits
  <2>4. breakers' \in [Configured -> BreakerRecord] /\ ReliableClosed(breakers')
    BY <1>1, <2>3, FailedStep
  <2>5. /\ call' = [call EXCEPT ![c] = n]
        /\ UNCHANGED <<now, buckets, entries, events, spent, peak>>
    BY <1>4 DEF BreakStream
  <2>6. /\ entries' \in [Identity -> Entry \cup {NoEntry}] /\ EntriesInv'
        /\ events' \in SUBSET Event /\ spent' \in [Tenants -> Nat]
    BY <2>5 DEF IInv, TypeOK, EntriesInv
  <2>7. QED
    BY <2>2, <2>4, <2>5, <2>6, CallStep
<1>5. CASE Abort(c)
  <2> DEFINE n == Finished(s, "aborted")
  <2>1. "aborted" \in Outcomes \ {"answered", "cached", "failed"}
    BY DEF Outcomes
  <2>2. n \in CallState /\ CallInv(n)
    BY <1>2, <2>1, DroppedCall, FinishedCall
  <2>3. QED
    BY <1>5, <2>2, LocalStep DEF Abort
<1>6. QED
  BY <1>3, <1>4, <1>5

LEMMA NextIInv == IInv /\ [Next]_vars => IInv'
<1> SUFFICES ASSUME IInv, [Next]_vars
             PROVE  IInv'
  OBVIOUS
<1>1. ASSUME NEW c \in Calls, NEW r \in Requests, Arrive(c, r)
      PROVE  IInv'
  BY <1>1, ArriveStep
<1>2. ASSUME NEW c \in Calls, Resolve(c)
      PROVE  IInv'
  <2>1. GiveUp(c) => IInv'
    BY MoveOnStep DEF GiveUp, Awaits, Running
  <2>2. QED
    BY <1>2, <2>1, AnswerStep, AnswerEmbedStep, OnwardStep, StopStep DEF Resolve
<1>3. ASSUME NEW c \in Calls, Stream(c)
      PROVE  IInv'
  <2>1. SwitchStream(c) => IInv'
    BY MoveOnStep DEF SwitchStream, Awaits, Running
  <2>2. QED
    BY <1>3, <2>1, EndStreamStep, OnwardStep, StopStep DEF Stream
<1>4. ASSUME NEW c \in Calls, Wake(c) \/ Abort(c)
      PROVE  IInv'
  BY <1>4, OnwardStep, StopStep
<1>5. CASE Tick
  <2>1. /\ now < MaxTime /\ now' = now + 1
        /\ UNCHANGED <<buckets, breakers, entries, events, spent, call, peak>>
    BY <1>5 DEF Tick
  <2>2. now \in Int /\ now' \in 0..MaxTime
    BY <2>1, GatewayAssumption DEF IInv, TypeOK
  <2>3. TypeOK'
    BY <2>1, <2>2 DEF IInv, TypeOK
  <2>4. CallsInv' /\ ReliableClosed(breakers)'
    BY <2>1 DEF IInv, CallsInv, ReliableClosed
  <2>5. EntriesInv'
    <3> SUFFICES ASSUME NEW k \in Identity, entries[k] # NoEntry
                 PROVE  entries[k].answers = k /\ entries[k].stored_at <= now + 1
                        /\ entries[k].expires_at = entries[k].stored_at + TTL
      BY <2>1 DEF EntriesInv
    <3>1. entries[k] \in Entry /\ entries[k].stored_at <= now
      BY DEF IInv, TypeOK, EntriesInv
    <3>2. entries[k].stored_at \in Int
      BY <3>1, GatewayAssumption DEF Entry
    <3>3. QED
      BY <2>2, <3>1, <3>2 DEF IInv, EntriesInv
  <2>6. QED
    BY <2>3, <2>4, <2>5 DEF IInv
<1>6. CASE UNCHANGED vars
  BY <1>6 DEF vars, IInv, TypeOK, CallsInv, EntriesInv, ReliableClosed
<1>7. QED
  BY <1>1, <1>2, <1>3, <1>4, <1>5, <1>6 DEF Next

LEMMA Inductive == Spec => []IInv
BY InitIInv, NextIInv, PTL DEF Spec

-----------------------------------------------------------------------------
\* Everything has its type; in particular no call is retried beyond its
\* retries, and nothing is stored "in the future".
THEOREM TypeCorrect == Spec => []TypeOK
BY Inductive, PTL DEF IInv

\* A call is answered with what was produced for its own tenant, task and
\* content, and never with an expired entry.
THEOREM AnswersAreOwn == Spec => []AnswersMatchRequests
<1>1. IInv => AnswersMatchRequests
  BY DEF IInv, CallsInv, CallInv, AnswersMatchRequests
<1>2. QED
  BY <1>1, Inductive, PTL

\* A call that has a reliable configured candidate is never told that all its
\* candidates failed, whatever the other providers and calls do.
THEOREM FallbackReached == Spec => []ReliableFallbackSuffices
<1>1. IInv => ReliableFallbackSuffices
  BY DEF IInv, CallsInv, CallInv, ReliableFallbackSuffices, PlanOf
<1>2. QED
  BY <1>1, Inductive, PTL

-----------------------------------------------------------------------------
\* Retries and fallback.  What TriesInv says of a call is checked of the
\* record it is in; that a sleeper has one provider call less behind it than
\* the attempt it will make, and that only chat calls without a stream sleep,
\* is what makes RetriesBeforeFallback survive the next Wake.

Allowed(s) == IF s.request.op = "stream" THEN 1 ELSE MaxRetries + 1

TriesInv(s) ==
    /\ s.position \in Places \cup {0}
    /\ s.phase = "sleeping" => s.request.op # "stream"
    /\ s.phase = "yielded" => s.request.op = "stream"
    /\ \A i \in Places : i > s.position => s.tries[i] = 0
    /\ s.position > 0 =>
          /\ \A i \in Places : i < s.position => s.tries[i] \in {0, Allowed(s)}
          /\ s.tries[s.position] \in 1..Allowed(s)
          /\ s.phase = "calling" => s.tries[s.position] = s.attempt + 1
          /\ s.phase = "sleeping" => s.tries[s.position] = s.attempt
          /\ s.request.op = "stream" => s.attempt = 0
          /\ s.outcome = "failed" => s.tries[s.position] = Allowed(s)

AllTries == \A c \in Calls : TriesInv(call[c])

LEMMA PlacesFacts ==
    /\ Places \subseteq Nat \ {0}
    /\ \A r \in Requests : 1..Len(PlanFor(r.task)) \subseteq Places
    /\ \A i \in Places : \A j \in 1..i : j \in Places
<1>1. \A k \in Tasks : Routes[k] \in Seq(Providers) /\ Len(Routes[k]) \in Nat
  BY GatewayAssumption
<1>2. \A r \in Requests : \E k \in Tasks : PlanFor(r.task) = Routes[k]
  BY RequestFacts, GatewayAssumption DEF PlanFor
<1>3. QED
  BY <1>1, <1>2 DEF Places

\* A call that ends keeps its tries; only "failed" has something to show.
LEMMA FinishedTries ==
    ASSUME NEW s \in CallState, NEW n \in CallState, TriesInv(s),
           n.request = s.request, n.position = s.position, n.tries = s.tries,
           n.attempt = s.attempt, n.phase = "done",
           n.outcome = "failed" /\ s.position > 0 => s.tries[s.position] = Allowed(s)
    PROVE  TriesInv(n)
BY DEF TriesInv, Allowed

LEMMA FinishedKeeps ==
    ASSUME NEW s \in CallState, NEW why
    PROVE  LET f == Finished(s, why)
           IN  /\ f.request = s.request /\ f.position = s.position /\ f.tries = s.tries
               /\ f.attempt = s.attempt /\ f.phase = "done" /\ f.outcome = why
               /\ \A a : LET g == [f EXCEPT !.answer = a]
                         IN  /\ g.request = s.request /\ g.position = s.position
                             /\ g.tries = s.tries /\ g.attempt = s.attempt
                             /\ g.phase = "done" /\ g.outcome = why
BY DEF Finished, CallState

\* The candidate loop: whoever gets to it has used up its tries.
LEMMA SeekTries ==
    ASSUME NEW c \in Calls, NEW s \in CallState, NEW from \in Nat \ {0}, NEW brs,
           s.request \in Requests, s.outcome = "none", TriesInv(s), from > s.position,
           s.position > 0 => s.tries[s.position] = Allowed(s),
           s.request.op = "stream" => s.attempt = 0,
           Seek(c, s, from, brs)
    PROVE  \E n \in CallState : call' = [call EXCEPT ![c] = n] /\ TriesInv(n)
<1> DEFINE plan == PlanFor(s.request.task)
           open == Candidates(plan, from, brs)
<1>1. CASE call' = [call EXCEPT ![c] = Finished(s, "failed")]
  <2>1. Finished(s, "failed") \in CallState
    BY FinishedCall DEF Outcomes
  <2>2. TriesInv(Finished(s, "failed"))
    BY <2>1, FinishedKeeps, FinishedTries
  <2>3. QED
    BY <1>1, <2>1, <2>2
<1>2. ASSUME NEW i \in open, call' = [call EXCEPT ![c] = Placed(s, i)]
      PROVE  \E n \in CallState : call' = [call EXCEPT ![c] = n] /\ TriesInv(n)
  <2> DEFINE n == Placed(s, i)
  <2>1. Len(plan) \in Nat
    BY RequestFacts
  <2>2. i \in from..Len(plan) /\ i \in 1..Len(plan) /\ i \in Nat
    BY <2>1 DEF Candidates
  <2>3. i \in Places /\ i > s.position /\ s.position \in Nat
    BY <2>2, PlacesFacts DEF CallState
  <2>4. n \in CallState
    BY <2>2, PlacedCall
  <2>5. /\ n.request = s.request /\ n.phase = "calling" /\ n.position = i
        /\ n.outcome = "none" /\ n.attempt = 0
        /\ n.tries = [s.tries EXCEPT ![i] = 1]
    BY DEF Placed, CallState
  <2>6. s.tries \in [Places -> Nat] /\ Places \subseteq Nat /\ MaxRetries \in Nat
    BY PlacesFacts, GatewayAssumption DEF CallState
  <2>7. n.tries[i] = 1 /\ \A j \in Places : j # i => n.tries[j] = s.tries[j]
    BY <2>3, <2>5, <2>6
  <2>8. Allowed(n) = Allowed(s) /\ 1 \in 1..Allowed(s)
    BY <2>5, <2>6 DEF Allowed
  <2>9. \A j \in Places : j > i => n.tries[j] = 0
    BY <2>3, <2>6, <2>7 DEF TriesInv
  <2>10. \A j \in Places : j < i => n.tries[j] \in {0, Allowed(n)}
    <3> SUFFICES ASSUME NEW j \in Places, j < i
                 PROVE  s.tries[j] \in {0, Allowed(s)}
      BY <2>6, <2>7, <2>8
    <3>1. CASE j > s.position
      BY <3>1 DEF TriesInv
    <3>2. CASE j = s.position
      BY <2>6, <3>2, PlacesFacts
    <3>3. CASE j < s.position
      <4>1. s.position > 0
        BY <2>3, <2>6, <3>3, PlacesFacts
      <4>2. QED
        BY <3>3, <4>1 DEF TriesInv
    <3>4. QED
      BY <2>3, <2>6, <3>1, <3>2, <3>3
  <2>11. TriesInv(n)
    BY <2>3, <2>5, <2>7, <2>8, <2>9, <2>10 DEF TriesInv
  <2>12. QED
    BY <1>2, <2>4, <2>11
<1>3. QED
  BY <1>1, <1>2 DEF Seek

LEMMA FreshTries ==
    ASSUME NEW r \in Requests
    PROVE  LET s == [NewCall EXCEPT !.request = r]
           IN  /\ TriesInv(s) /\ s.position = 0 /\ s.attempt = 0
               /\ TriesInv([s EXCEPT !.phase = "calling"])
               /\ [NewCall EXCEPT !.request = r, !.phase = "calling"]
                     = [s EXCEPT !.phase = "calling"]
BY PlacesFacts DEF NewCall, TriesInv

LEMMA ArriveTries ==
    ASSUME IInv, NEW c \in Calls, NEW r \in Requests, Arrive(c, r)
    PROVE  \E n : call' = [call EXCEPT ![c] = n] /\ TriesInv(n)
<1> DEFINE s == [NewCall EXCEPT !.request = r]
<1>1. s \in CallState /\ s.request = r /\ s.outcome = "none"
  BY FreshCall
<1>2. TriesInv(s) /\ s.position = 0 /\ s.attempt = 0
  BY FreshTries
<1>3. ASSUME NEW why, TurnAway(c, r, why)
      PROVE  \E n : call' = [call EXCEPT ![c] = n] /\ TriesInv(n)
  <2>1. call' = [call EXCEPT ![c] = Finished(s, why)]
    BY <1>3 DEF TurnAway
  <2> HIDE DEF s
  <2>2. TriesInv(Finished(s, why))
    BY <1>1, <1>2, FinishedKeeps DEF TriesInv
  <2>3. QED
    BY <2>1, <2>2
<1>4. CASE ServeCached(c, r)
  <2> DEFINE e == entries[CacheKey(r)]
             f == Finished(s, "cached")
             n == [f EXCEPT !.answer = e.answers, !.age = now - e.stored_at]
  <2>1. call' = [call EXCEPT ![c] = n]
    BY <1>4 DEF ServeCached
  <2>2. /\ n.request = s.request /\ n.position = s.position /\ n.tries = s.tries
        /\ n.phase = "done" /\ n.outcome = "cached"
    BY <1>1 DEF Finished, CallState
  <2>3. TriesInv(n)
    BY <1>1, <1>2, <2>2 DEF TriesInv
  <2>4. QED
    BY <2>1, <2>3
<1>5. CASE StartChat(c, r)
  <2>1. Seek(c, s, 1, breakers)
    BY <1>5 DEF StartChat
  <2> HIDE DEF s
  <2>2. QED
    BY <1>1, <1>2, <2>1, SeekTries
<1>6. CASE StartEmbed(c, r)
  BY <1>6, FreshTries DEF StartEmbed
<1>7. QED
  BY <1>3, <1>4, <1>5, <1>6 DEF Arrive, RefuseRate, RefuseBudget, RefuseUnsafe, RefuseRoute

\* GiveUp and SwitchStream.
LEMMA MoveOnTries ==
    ASSUME IInv, AllTries, NEW c \in Calls, GiveUp(c) \/ SwitchStream(c)
    PROVE  \E n : call' = [call EXCEPT ![c] = n] /\ TriesInv(n)
<1> DEFINE s == call[c]
           from == s.position + 1
<1>1. /\ Running(c) /\ s.phase = "calling" /\ s.request.op # "embed"
      /\ Seek(c, s, from, Failed(c))
      /\ s.request.op # "stream" => s.attempt = MaxRetries
  BY DEF GiveUp, SwitchStream, Awaits, Running
<1>2. s \in CallState /\ s.request \in Requests /\ s.outcome = "none" /\ TriesInv(s)
  BY <1>1, RunningCall DEF AllTries
<1>3. s.position \in Nat \ {0}
  BY <1>1, CurrentProvider
<1>4. /\ s.tries[s.position] = Allowed(s)
      /\ s.request.op = "stream" => s.attempt = 0
  BY <1>1, <1>2, <1>3 DEF TriesInv, Allowed
<1>5. from \in Nat \ {0} /\ from > s.position
  BY <1>3
<1> HIDE DEF from
<1>6. QED
  BY <1>1, <1>2, <1>4, <1>5, SeekTries

\* Retry, Wake, Chunk and Resume.
LEMMA OnwardTries ==
    ASSUME IInv, AllTries, NEW c \in Calls,
           Retry(c) \/ Wake(c) \/ Resume(c) \/ \E u \in 0..MaxCost : Chunk(c, u)
    PROVE  \E n : call' = [call EXCEPT ![c] = n] /\ TriesInv(n)
<1> DEFINE s == call[c]
<1>1. /\ s \in CallState /\ TriesInv(s) /\ s.request.op \in Operations
      /\ s.attempt \in 0..MaxRetries /\ MaxRetries \in Nat
      /\ s.tries \in [Places -> Nat] /\ s.outcome = "none"
  BY OnwardMoves, RunningCall, RequestFacts, GatewayAssumption DEF AllTries, CallState
<1>2. /\ Places \subseteq Nat \ {0}
  BY PlacesFacts
<1>3. CASE Retry(c)
  <2> DEFINE n == [s EXCEPT !.phase = "sleeping", !.attempt = @ + 1]
  <2>1. /\ call' = [call EXCEPT ![c] = n] /\ s.phase = "calling"
        /\ s.request.op # "stream"
    BY <1>3 DEF Retry, Awaits
  <2>2. /\ n.request = s.request /\ n.position = s.position /\ n.tries = s.tries
        /\ n.phase = "sleeping" /\ n.attempt = s.attempt + 1 /\ n.outcome = s.outcome
    BY <1>1 DEF CallState
  <2>3. TriesInv(n)
    BY <1>1, <2>1, <2>2 DEF TriesInv, Allowed
  <2>4. QED
    BY <2>1, <2>3
<1>4. CASE Wake(c)
  <2> DEFINE tries == OneMoreTry(s.tries, s.position)
             n == [s EXCEPT !.phase = "calling", !.tries = tries]
  <2>1. call' = [call EXCEPT ![c] = n] /\ s.phase = "sleeping"
    BY <1>4 DEF Wake
  <2>2. /\ n.request = s.request /\ n.position = s.position /\ n.tries = tries
        /\ n.phase = "calling" /\ n.attempt = s.attempt /\ n.outcome = s.outcome
    BY <1>1 DEF CallState
  <2>3. /\ \A i \in Places : i # s.position => tries[i] = s.tries[i]
        /\ s.position \in Places => tries[s.position] = s.tries[s.position] + 1
    BY <1>1 DEF OneMoreTry
  <2> HIDE DEF tries
  <2>4. s.position \in Places \cup {0} /\ s.request.op # "stream"
    BY <1>1, <2>1 DEF TriesInv
  <2>5. \A i \in Places : i > n.position => n.tries[i] = 0
    BY <1>1, <1>2, <2>2, <2>3, <2>4 DEF TriesInv
  <2>6. ASSUME s.position > 0
        PROVE  /\ \A i \in Places : i < n.position => n.tries[i] \in {0, Allowed(n)}
               /\ n.tries[n.position] = n.attempt + 1
               /\ n.tries[n.position] \in 1..Allowed(n)
    <3>1. s.position \in Places /\ s.tries[s.position] = s.attempt
      BY <1>1, <2>1, <2>4, <2>6 DEF TriesInv
    <3>2. n.tries[n.position] = s.attempt + 1
      BY <2>2, <2>3, <3>1
    <3>3. Allowed(n) = MaxRetries + 1 /\ Allowed(s) = MaxRetries + 1
      BY <2>2, <2>4 DEF Allowed
    <3>4. \A i \in Places : i < n.position => n.tries[i] \in {0, Allowed(n)}
      BY <1>1, <1>2, <2>2, <2>3, <2>6, <3>1, <3>3 DEF TriesInv
    <3>5. QED
      BY <1>1, <2>2, <3>2, <3>3, <3>4
  <2>7. TriesInv(n)
    BY <1>1, <2>2, <2>4, <2>5, <2>6 DEF TriesInv
  <2>8. QED
    BY <2>1, <2>7
<1>5. CASE Resume(c)
  <2> DEFINE n == [s EXCEPT !.phase = "calling"]
  <2>1. call' = [call EXCEPT ![c] = n] /\ s.phase = "yielded"
    BY <1>5 DEF Resume
  <2>2. /\ n.request = s.request /\ n.position = s.position /\ n.tries = s.tries
        /\ n.phase = "calling" /\ n.attempt = s.attempt /\ n.outcome = s.outcome
    BY <1>1 DEF CallState
  <2>3. TriesInv(n)
    BY <1>1, <2>1, <2>2 DEF TriesInv, Allowed
  <2>4. QED
    BY <2>1, <2>3
<1>6. ASSUME NEW u \in 0..MaxCost, Chunk(c, u)
      PROVE  \E n : call' = [call EXCEPT ![c] = n] /\ TriesInv(n)
  <2> DEFINE n == [s EXCEPT !.phase = "yielded", !.emitted = TRUE, !.usage = u]
  <2>1. call' = [call EXCEPT ![c] = n] /\ s.request.op = "stream"
    BY <1>6 DEF Chunk, Awaits
  <2>2. /\ n.request = s.request /\ n.position = s.position /\ n.tries = s.tries
        /\ n.phase = "yielded" /\ n.attempt = s.attempt /\ n.outcome = s.outcome
    BY <1>1 DEF CallState
  <2>3. TriesInv(n)
    BY <1>1, <2>1, <2>2 DEF TriesInv, Allowed
  <2>4. QED
    BY <2>1, <2>3
<1>7. QED
  BY <1>3, <1>4, <1>5, <1>6

\* The actions that end a call.
LEMMA EndTries ==
    ASSUME IInv, AllTries, NEW c \in Calls,
           \/ \E cost \in 0..MaxCost : Answer(c, cost) \/ AnswerEmbed(c, cost)
           \/ EndStream(c) \/ GiveUpEmbed(c) \/ BreakStream(c) \/ Abort(c)
    PROVE  \E n : call' = [call EXCEPT ![c] = n] /\ TriesInv(n)
<1> DEFINE s == call[c]
<1>1. Running(c)
  BY DEF Answer, AnswerEmbed, EndStream, GiveUpEmbed, BreakStream, Abort, Awaits, Running
<1>2. s \in CallState /\ TriesInv(s)
  BY <1>1, RunningCall DEF AllTries
<1>3. CASE \/ \E cost \in 0..MaxCost : Answer(c, cost) \/ AnswerEmbed(c, cost)
           \/ EndStream(c)
  <2> DEFINE n == [Finished(s, "answered") EXCEPT !.answer = IdentityOf(s.request)]
  <2>1. call' = [call EXCEPT ![c] = n]
    BY <1>3 DEF Answer, AnswerEmbed, EndStream
  <2>2. TriesInv(n)
    BY <1>2, FinishedKeeps DEF TriesInv, Allowed
  <2>3. QED
    BY <2>1, <2>2
<1>4. ASSUME NEW why \in {"broken", "aborted"}, call' = [call EXCEPT ![c] = Finished(s, why)]
      PROVE  \E n : call' = [call EXCEPT ![c] = n] /\ TriesInv(n)
  <2>1. TriesInv(Finished(s, why))
    BY <1>2, FinishedKeeps DEF TriesInv, Allowed
  <2>2. QED
    BY <1>4, <2>1
<1>5. CASE GiveUpEmbed(c)
  <2>1. call' = [call EXCEPT ![c] = Finished(s, "failed")]
    BY <1>5 DEF GiveUpEmbed
  <2>2. /\ s.phase = "calling" /\ s.attempt = MaxRetries /\ s.request.op = "embed"
    BY <1>5 DEF GiveUpEmbed, Awaits
  <2>3. TriesInv(Finished(s, "failed"))
    BY <1>2, <2>2, FinishedKeeps DEF TriesInv, Allowed
  <2>4. QED
    BY <2>1, <2>3
<1>6. QED
  BY <1>3, <1>4, <1>5 DEF BreakStream, Abort

\* A call moves on only from a candidate it has tried as often as it may, and
\* has all its tries again wherever it arrives.
THEOREM RetriesComeFirst == Spec => []RetriesBeforeFallback
<1>1. Init => AllTries
  BY PlacesFacts DEF Init, AllTries, TriesInv, NewCall
<1>2. IInv /\ AllTries /\ [Next]_vars => AllTries'
  <2> SUFFICES ASSUME IInv, AllTries, [Next]_vars
               PROVE  AllTries'
    OBVIOUS
  <2>1. \/ \E c \in Calls : \E n : call' = [call EXCEPT ![c] = n] /\ TriesInv(n)
        \/ call' = call
    BY ArriveTries, MoveOnTries, OnwardTries, EndTries
       DEF Next, Resolve, Stream, Tick, vars
  <2>2. call \in [Calls -> CallState]
    BY DEF IInv, TypeOK
  <2>3. QED
    BY <2>1, <2>2 DEF AllTries
<1>3. IInv /\ AllTries => RetriesBeforeFallback
  <2> SUFFICES ASSUME IInv, AllTries, NEW c \in Calls, call[c].position > 0
               PROVE  LET s == call[c]
                          allowed == Allowed(s)
                      IN  /\ \A i \in 1..(s.position - 1) : s.tries[i] \in {0, allowed}
                          /\ s.tries[s.position] \in 1..allowed
                          /\ s.phase = "calling" => s.tries[s.position] = s.attempt + 1
                          /\ s.outcome = "failed" => s.tries[s.position] = allowed
                          /\ \A i \in Places : i > s.position => s.tries[i] = 0
    BY DEF RetriesBeforeFallback, Allowed
  <2>1. TriesInv(call[c]) /\ call[c].position \in Places
    BY DEF AllTries, TriesInv
  <2>2. \A i \in 1..(call[c].position - 1) : i \in Places /\ i < call[c].position
    <3>1. call[c].position \in Nat /\ \A j \in 1..call[c].position : j \in Places
      BY <2>1, PlacesFacts
    <3>2. QED
      BY <3>1
  <2>3. QED
    BY <2>1, <2>2 DEF TriesInv
<1>4. QED
  BY <1>1, <1>2, <1>3, Inductive, PTL DEF Spec

-----------------------------------------------------------------------------
\* Sums over finite sets.  MapThenSumSet is a recursive function on the subsets
\* of its set, so what it returns is proved by induction over finite sets.  The
\* induction is by least counterexample: of the subsets that fail a claim, one
\* has no smaller one among them.
LEMMA LeastSubset ==
    ASSUME NEW S, IsFiniteSet(S), NEW B, B \subseteq SUBSET S, B # {}
    PROVE  \E T \in B : \A U \in SUBSET T : U # T => U \notin B
<1> DEFINE R == StrictSubsetOrdering(S)
<1>1. IsWellFoundedOn(R, SUBSET S)
  BY FS_StrictSubsetOrderingWellFounded, FS_FiniteSubsetsOfFinite
<1>2. \E T \in B : \A U \in B : ~(<<U, T>> \in R)
  <2> HIDE DEF R
  <2>1. QED
    BY <1>1, WFMin
<1>3. PICK T \in B : \A U \in B : ~(<<U, T>> \in R)
  BY <1>2
<1>4. ASSUME NEW U \in SUBSET T, U # T, U \in B
      PROVE  FALSE
  <2>1. <<U, T>> \in (SUBSET S) \X (SUBSET S)
    BY <1>3, <1>4
  <2>2. <<U, T>> \in R
    BY <2>1, <1>4 DEF StrictSubsetOrdering
  <2>3. QED
    BY <1>3, <1>4, <2>2
<1>5. QED
  BY <1>3, <1>4

\* The cost of a set of events, as TotalsMatchEvents writes it.
Total(S) == MapThenSumSet(LAMBDA e : e.cost, S)

Pick(s) == CHOOSE x \in s : TRUE

\* f is the recursive function behind Total(S).
SumsUp(f, S) ==
    f = [s \in SUBSET S |-> IF s = {} THEN 0 ELSE Pick(s).cost + f[s \ {Pick(s)}]]

LEMMA PickIn ==
    ASSUME NEW s, s # {}
    PROVE  Pick(s) \in s
BY DEF Pick

LEMMA TotalIs ==
    ASSUME NEW S
    PROVE  Total(S) = (CHOOSE f : SumsUp(f, S))[S]
BY DEF Total, SumsUp, Pick, MapThenSumSet, MapThenFoldSet

\* Two such functions agree wherever both are defined ...
LEMMA SumsAgree ==
    ASSUME NEW A, NEW B, NEW f, NEW g, SumsUp(f, A), SumsUp(g, B),
           NEW S, IsFiniteSet(S), S \subseteq A, S \subseteq B
    PROVE  f[S] = g[S]
<1> SUFFICES ASSUME f[S] # g[S]
             PROVE  FALSE
  OBVIOUS
<1> DEFINE Bad == {s \in SUBSET S : f[s] # g[s]}
<1>1. PICK s \in Bad : \A u \in SUBSET s : u # s => u \notin Bad
  <2>1. S \in Bad
    OBVIOUS
  <2> HIDE DEF Bad
  <2>2. Bad \subseteq SUBSET S
    BY DEF Bad
  <2>3. QED
    BY <2>1, <2>2, LeastSubset
<1>2. s \in SUBSET A /\ s \in SUBSET B
  OBVIOUS
<1> DEFINE r == s \ {Pick(s)}
<1>3. /\ f[s] = IF s = {} THEN 0 ELSE Pick(s).cost + f[r]
      /\ g[s] = IF s = {} THEN 0 ELSE Pick(s).cost + g[r]
  BY <1>2 DEF SumsUp
<1>4. CASE s = {}
  BY <1>1, <1>3, <1>4
<1>5. CASE s # {}
  <2>1. f[r] = g[r]
    BY <1>1, <1>5, PickIn
  <2>2. QED
    BY <1>1, <1>3, <1>5, <2>1
<1>6. QED
  BY <1>4, <1>5

\* ... and there is one for every finite set.
LEMMA SumsExist ==
    ASSUME NEW S, IsFiniteSet(S)
    PROVE  \E f : SumsUp(f, S)
<1> SUFFICES ASSUME ~\E f : SumsUp(f, S)
             PROVE  FALSE
  OBVIOUS
<1> DEFINE Bad == {s \in SUBSET S : ~\E f : SumsUp(f, s)}
<1>1. PICK s \in Bad : \A u \in SUBSET s : u # s => u \notin Bad
  <2>1. S \in Bad
    OBVIOUS
  <2> HIDE DEF Bad
  <2>2. Bad \subseteq SUBSET S
    BY DEF Bad
  <2>3. QED
    BY <2>1, <2>2, LeastSubset
<1>2. \A u \in SUBSET s : u # s => SumsUp(CHOOSE f : SumsUp(f, u), u)
  BY <1>1
<1>3. IsFiniteSet(s) /\ \A u \in SUBSET s : IsFiniteSet(u)
  BY <1>1, FS_Subset
<1> DEFINE g == [u \in SUBSET s |-> IF u = {} THEN 0
                                    ELSE Pick(u).cost + Total(u \ {Pick(u)})]
<1>4. ASSUME NEW u \in SUBSET s, u # s
      PROVE  g[u] = Total(u)
  <2> DEFINE h == CHOOSE f : SumsUp(f, u)
             r == u \ {Pick(u)}
  <2>1. SumsUp(h, u) /\ Total(u) = h[u]
    BY <1>2, <1>4, TotalIs
  <2>2. h[u] = IF u = {} THEN 0 ELSE Pick(u).cost + h[r]
    <3> HIDE DEF h
    <3>1. QED
      BY <2>1 DEF SumsUp
  <2>3. CASE u = {}
    BY <2>1, <2>2, <2>3
  <2>4. CASE u # {}
    <3>1. r \in SUBSET s /\ r # s /\ r \subseteq u
      BY <1>4
    <3> DEFINE k == CHOOSE f : SumsUp(f, r)
    <3>2. SumsUp(k, r) /\ Total(r) = k[r]
      BY <1>2, <3>1, TotalIs
    <3>3. h[r] = k[r]
      <4> HIDE DEF h, k, r
      <4>1. IsFiniteSet(r)
        BY <1>3, <3>1
      <4>2. QED
        BY <2>1, <3>1, <3>2, <4>1, SumsAgree
    <3>4. QED
      BY <2>1, <2>2, <2>4, <3>2, <3>3
  <2>5. QED
    BY <2>3, <2>4
<1>5. SumsUp(g, s)
  <2>1. \A u \in SUBSET s : u # {} => g[u \ {Pick(u)}] = Total(u \ {Pick(u)})
    <3> SUFFICES ASSUME NEW u \in SUBSET s, u # {}
                 PROVE  g[u \ {Pick(u)}] = Total(u \ {Pick(u)})
      OBVIOUS
    <3>1. u \ {Pick(u)} \in SUBSET s /\ u \ {Pick(u)} # s
      BY PickIn
    <3> HIDE DEF g
    <3>2. QED
      BY <3>1, <1>4
  <2>2. g = [u \in SUBSET s |-> IF u = {} THEN 0 ELSE Pick(u).cost + g[u \ {Pick(u)}]]
    BY <2>1
  <2>3. QED
    BY <2>2 DEF SumsUp
<1>6. QED
  BY <1>1, <1>5

\* So Total obeys its recursion.
LEMMA TotalStep ==
    /\ Total({}) = 0
    /\ \A S : IsFiniteSet(S) /\ S # {} =>
          Total(S) = Pick(S).cost + Total(S \ {Pick(S)})
<1>1. ASSUME NEW S, IsFiniteSet(S)
      PROVE  Total(S) = IF S = {} THEN 0 ELSE Pick(S).cost + Total(S \ {Pick(S)})
  <2> DEFINE r == S \ {Pick(S)}
             f == CHOOSE f : SumsUp(f, S)
             g == CHOOSE g : SumsUp(g, r)
  <2>1. SumsUp(f, S) /\ Total(S) = f[S]
    BY <1>1, SumsExist, TotalIs
  <2>2. IsFiniteSet(r)
    BY <1>1, FS_Subset
  <2>3. SumsUp(g, r) /\ Total(r) = g[r]
    <3> HIDE DEF r
    <3>1. QED
      BY <2>2, SumsExist, TotalIs
  <2> HIDE DEF f, g
  <2>4. f[S] = IF S = {} THEN 0 ELSE Pick(S).cost + f[r]
    BY <2>1 DEF SumsUp
  <2>5. f[r] = g[r]
    <3>1. r \subseteq S
      OBVIOUS
    <3> HIDE DEF r
    <3>2. QED
      BY <2>1, <2>2, <2>3, <3>1, SumsAgree
  <2>6. QED
    BY <2>1, <2>3, <2>4, <2>5
<1>2. Total({}) = 0
  BY <1>1, FS_EmptySet
<1>3. QED
  BY <1>1, <1>2

\* Any event may be taken out first, not only the chosen one.
LEMMA TotalWithout ==
    ASSUME NEW S, IsFiniteSet(S), \A e \in S : e.cost \in Nat
    PROVE  /\ Total(S) \in Nat
           /\ \A e \in S : Total(S) = e.cost + Total(S \ {e})
<1> DEFINE Fine(s) == /\ Total(s) \in Nat
                      /\ \A e \in s : Total(s) = e.cost + Total(s \ {e})
           Bad == {s \in SUBSET S : ~Fine(s)}
<1> SUFFICES ASSUME ~Fine(S)
             PROVE  FALSE
  OBVIOUS
<1>1. PICK s \in Bad : \A u \in SUBSET s : u # s => u \notin Bad
  <2> HIDE DEF Fine
  <2>1. S \in Bad
    OBVIOUS
  <2>2. Bad \subseteq SUBSET S
    OBVIOUS
  <2> HIDE DEF Bad
  <2>3. QED
    BY <2>1, <2>2, LeastSubset
<1>2. \A u \in SUBSET s : u # s => Fine(u)
  BY <1>1
<1>3. IsFiniteSet(s) /\ \A u \in SUBSET s : IsFiniteSet(u)
  BY <1>1, FS_Subset
<1>4. CASE s = {}
  BY <1>1, <1>4, TotalStep
<1>5. CASE s # {}
  <2> DEFINE x == Pick(s)
             r == s \ {x}
  <2>1. x \in s /\ x.cost \in Nat
    BY <1>5, PickIn
  <2>2. Total(s) = x.cost + Total(r)
    BY <1>3, <1>5, TotalStep
  <2>3. Fine(r)
    <3>1. r \in SUBSET s /\ r # s
      BY <2>1
    <3> HIDE DEF Fine, r
    <3>2. QED
      BY <1>2, <3>1
  <2>4. Total(s) \in Nat
    BY <2>1, <2>2, <2>3
  <2>5. ASSUME NEW e \in s
        PROVE  Total(s) = e.cost + Total(s \ {e})
    <3>1. CASE e = x
      BY <2>2, <3>1
    <3>2. CASE e # x
      <4> DEFINE q == s \ {e}
      <4>1. Total(r) = e.cost + Total(r \ {e})
        BY <2>3, <2>5, <3>2
      <4>2. Fine(q)
        <5>1. q \in SUBSET s /\ q # s
          BY <2>5
        <5> HIDE DEF Fine, q
        <5>2. QED
          BY <1>2, <5>1
      <4>3. Total(q) = x.cost + Total(q \ {x})
        BY <4>2, <2>1, <3>2
      <4>4. q \ {x} = r \ {e}
        OBVIOUS
      <4>5. Total(q \ {x}) \in Nat
        <5>1. q \ {x} \in SUBSET s /\ q \ {x} # s
          BY <2>1
        <5>2. Fine(q \ {x})
          <6> HIDE DEF Fine, q
          <6>1. QED
            BY <1>2, <5>1
        <5>3. QED
          BY <5>2
      <4>6. e.cost \in Nat
        BY <2>5
      <4> HIDE DEF q, r, x, Fine
      <4>7. Total(s) = x.cost + (e.cost + Total(q \ {x}))
        BY <2>2, <4>1, <4>4
      <4>8. Total(s) = e.cost + Total(q)
        BY <2>1, <4>3, <4>5, <4>6, <4>7
      <4>9. QED
        BY <4>8 DEF q
    <3>3. QED
      BY <3>1, <3>2
  <2>6. Fine(s)
    BY <2>4, <2>5
  <2>7. QED
    BY <1>1, <2>6
<1>6. QED
  BY <1>4, <1>5

-----------------------------------------------------------------------------
\* The usage ledger.  A step that books anything also ends the call it books,
\* which had no event before it.

Counted(s) == s.outcome \in {"answered", "cached"}

OwnEvents(c) == {e \in events : e.call = c}

EventOf(v, c, s) ==
    /\ v.call = c /\ v.tenant = s.request.tenant
    /\ v.cached <=> s.outcome = "cached"
    /\ v.cached => v.cost = 0

LedgerInv ==
    \A c \in Calls :
        IF Counted(call[c])
        THEN \E v : OwnEvents(c) = {v} /\ EventOf(v, c, call[c])
        ELSE OwnEvents(c) = {}

\* v goes on the ledger, and its cost on the total of its tenant.
Booked(v) ==
    /\ v \in Event
    /\ events' = events \cup {v}
    /\ spent' = [spent EXCEPT ![v.tenant] = @ + v.cost]

\* The two ways a step of c may treat the ledger.
Ledgers(c, n) ==
    /\ call' = [call EXCEPT ![c] = n]
    /\ call[c].outcome = "none"
    /\ \/ Counted(n) /\ \E v : Booked(v) /\ EventOf(v, c, n)
       \/ ~Counted(n) /\ UNCHANGED <<events, spent>>

\* The candidate loop answers nobody.
LEMMA SeekCounts ==
    ASSUME NEW c \in Calls, NEW s \in CallState, s.outcome = "none",
           s.request \in Requests, NEW from, NEW brs, Seek(c, s, from, brs)
    PROVE  \E n : call' = [call EXCEPT ![c] = n] /\ ~Counted(n)
<1>1. ~Counted(Finished(s, "failed"))
  BY FinishedKeeps DEF Counted
<1>2. \A i : Placed(s, i).outcome = "none"
  BY DEF Placed, CallState
<1>3. QED
  BY <1>1, <1>2 DEF Seek, Counted

LEMMA ArriveLedgers ==
    ASSUME IInv, NEW c \in Calls, NEW r \in Requests, Arrive(c, r)
    PROVE  \E n : Ledgers(c, n)
<1> DEFINE s == [NewCall EXCEPT !.request = r]
<1>1. s \in CallState /\ s.request = r /\ s.outcome = "none"
  BY FreshCall
<1>2. call[c].outcome = "none"
  <2>1. call[c].phase = "new"
    BY DEF Arrive, RefuseRate, RefuseBudget, RefuseUnsafe, RefuseRoute, TurnAway,
           ServeCached, StartChat, StartEmbed, Arrives
  <2>2. QED
    BY <2>1 DEF IInv, CallsInv, CallInv
<1>3. ASSUME NEW why \in {"rate_limited", "over_budget", "unsafe", "no_model"},
             TurnAway(c, r, why)
      PROVE  \E n : Ledgers(c, n)
  <2>1. call' = [call EXCEPT ![c] = Finished(s, why)] /\ UNCHANGED <<events, spent>>
    BY <1>3 DEF TurnAway
  <2> HIDE DEF s
  <2>2. ~Counted(Finished(s, why))
    BY <1>1, FinishedKeeps DEF Counted
  <2>3. QED
    BY <1>2, <2>1, <2>2 DEF Ledgers
<1>4. CASE ServeCached(c, r)
  <2> DEFINE e == entries[CacheKey(r)]
             f == Finished(s, "cached")
             n == [f EXCEPT !.answer = e.answers, !.age = now - e.stored_at]
             v == [call |-> c, tenant |-> r.tenant, cost |-> 0, cached |-> TRUE]
  <2>1. call' = [call EXCEPT ![c] = n] /\ events' = events \cup {v} /\ spent' = spent
    BY <1>4 DEF ServeCached
  <2>2. n.request = r /\ n.outcome = "cached"
    BY <1>1 DEF Finished, CallState
  <2>3. Counted(n) /\ EventOf(v, c, n)
    BY <2>2 DEF Counted, EventOf
  <2>4. v \in Event
    BY RequestFacts, GatewayAssumption DEF Event
  <2>5. spent = [spent EXCEPT ![v.tenant] = @ + v.cost]
    BY <2>4 DEF IInv, TypeOK, Event
  <2>6. Booked(v)
    BY <2>1, <2>4, <2>5 DEF Booked
  <2>7. QED
    BY <1>2, <2>1, <2>3, <2>6 DEF Ledgers
<1>5. CASE StartChat(c, r)
  <2>1. Seek(c, s, 1, breakers) /\ UNCHANGED <<events, spent>>
    BY <1>5 DEF StartChat
  <2> HIDE DEF s
  <2>2. QED
    BY <1>1, <1>2, <2>1, SeekCounts DEF Ledgers
<1>6. CASE StartEmbed(c, r)
  <2> DEFINE n == [NewCall EXCEPT !.request = r, !.phase = "calling"]
  <2>1. call' = [call EXCEPT ![c] = n] /\ UNCHANGED <<events, spent>>
    BY <1>6 DEF StartEmbed
  <2>2. ~Counted(n)
    BY DEF NewCall, Counted
  <2>3. QED
    BY <1>2, <2>1, <2>2 DEF Ledgers
<1>7. QED
  BY <1>3, <1>4, <1>5, <1>6 DEF Arrive, RefuseRate, RefuseBudget, RefuseUnsafe, RefuseRoute

LEMMA RunningLedgers ==
    ASSUME IInv, NEW c \in Calls, Resolve(c) \/ Wake(c) \/ Stream(c) \/ Abort(c)
    PROVE  \E n : Ledgers(c, n)
<1> DEFINE s == call[c]
<1>1. Running(c)
  BY DEF Resolve, Answer, AnswerEmbed, Retry, GiveUp, GiveUpEmbed, Wake, Stream, Chunk,
         Resume, EndStream, SwitchStream, BreakStream, Abort, Awaits, Running
<1>2. s \in CallState /\ s.outcome = "none" /\ s.request \in Requests
  BY <1>1, RunningCall
<1>3. ASSUME NEW cost \in 0..MaxCost,
             Answer(c, cost) \/ AnswerEmbed(c, cost) \/ (EndStream(c) /\ cost = s.usage)
      PROVE  \E n : Ledgers(c, n)
  <2> DEFINE n == [Finished(s, "answered") EXCEPT !.answer = IdentityOf(s.request)]
             v == [call |-> c, tenant |-> s.request.tenant, cost |-> cost, cached |-> FALSE]
  <2>1. call' = [call EXCEPT ![c] = n] /\ Book(c, cost)
    BY <1>3 DEF Answer, AnswerEmbed, EndStream
  <2>2. n.request = s.request /\ n.outcome = "answered"
    BY <1>2, FinishedKeeps
  <2>3. Counted(n) /\ EventOf(v, c, n)
    BY <2>2 DEF Counted, EventOf
  <2>4. v \in Event
    BY <1>2, RequestFacts DEF Event
  <2>5. Booked(v)
    BY <2>1, <2>4 DEF Booked, Book
  <2>6. QED
    BY <1>2, <2>1, <2>3, <2>5 DEF Ledgers
<1>4. CASE GiveUp(c) \/ SwitchStream(c)
  <2>1. Seek(c, s, s.position + 1, Failed(c)) /\ UNCHANGED <<events, spent>>
    BY <1>4 DEF GiveUp, SwitchStream
  <2>2. QED
    BY <1>2, <2>1, SeekCounts DEF Ledgers
<1>5. CASE Retry(c) \/ Wake(c) \/ Resume(c) \/ \E u \in 0..MaxCost : Chunk(c, u)
  BY <1>2, <1>5, OnwardMoves DEF Ledgers, Counted
<1>6. CASE GiveUpEmbed(c) \/ BreakStream(c) \/ Abort(c)
  <2>1. PICK why \in {"failed", "broken", "aborted"} :
          call' = [call EXCEPT ![c] = Finished(s, why)] /\ UNCHANGED <<events, spent>>
    BY <1>6 DEF GiveUpEmbed, BreakStream, Abort
  <2>2. ~Counted(Finished(s, why))
    BY <1>2, FinishedKeeps DEF Counted
  <2>3. QED
    BY <1>2, <2>1, <2>2 DEF Ledgers
<1>7. s.usage \in 0..MaxCost
  BY <1>2 DEF CallState
<1>8. QED
  BY <1>3, <1>4, <1>5, <1>6, <1>7 DEF Resolve, Stream

LEMMA LedgerInductive == Spec => []LedgerInv
<1>1. Init => LedgerInv
  BY DEF Init, LedgerInv, OwnEvents, Counted, NewCall
<1>2. IInv /\ LedgerInv /\ [Next]_vars => LedgerInv'
  <2> SUFFICES ASSUME IInv, LedgerInv, [Next]_vars
               PROVE  LedgerInv'
    OBVIOUS
  <2>1. CASE UNCHANGED <<call, events>>
    BY <2>1 DEF LedgerInv, OwnEvents, Counted, EventOf
  <2>2. ASSUME NEW c \in Calls, NEW n, Ledgers(c, n)
        PROVE  LedgerInv'
    <3> SUFFICES ASSUME NEW d \in Calls
                 PROVE  IF Counted(call'[d])
                        THEN \E v : OwnEvents(d)' = {v} /\ EventOf(v, d, call'[d])
                        ELSE OwnEvents(d)' = {}
      BY DEF LedgerInv, EventOf, Counted
    <3>1. call \in [Calls -> CallState]
      BY DEF IInv, TypeOK
    <3>2. ~Counted(call[c]) /\ OwnEvents(c) = {}
      BY <2>2 DEF Ledgers, Counted, LedgerInv
    <3>3. CASE d = c
      BY <2>2, <3>1, <3>2, <3>3 DEF Ledgers, OwnEvents, EventOf, Booked
    <3>4. CASE d # c
      <4>1. call'[d] = call[d]
        BY <2>2, <3>1, <3>4 DEF Ledgers
      <4>2. OwnEvents(d)' = OwnEvents(d)
        BY <2>2, <3>4 DEF Ledgers, OwnEvents, EventOf, Booked
      <4>3. QED
        BY <4>1, <4>2 DEF LedgerInv
    <3>5. QED
      BY <3>3, <3>4
  <2>3. QED
    BY <2>1, <2>2, ArriveLedgers, RunningLedgers DEF Next, Tick, vars
<1>3. QED
  BY <1>1, <1>2, Inductive, PTL DEF Spec

\* One event for every answered call, for its own tenant and free when it came
\* from the cache, and none for any other call.
THEOREM OneEventEach == Spec => []OneEventPerAnswer
<1>1. LedgerInv => OneEventPerAnswer
  <2> SUFFICES ASSUME LedgerInv, NEW c \in Calls
               PROVE  /\ Cardinality(OwnEvents(c)) = IF Counted(call[c]) THEN 1 ELSE 0
                      /\ \A e \in OwnEvents(c) :
                            /\ e.tenant = call[c].request.tenant
                            /\ e.cached <=> call[c].outcome = "cached"
                            /\ e.cached => e.cost = 0
    BY DEF OneEventPerAnswer, OwnEvents, Counted
  <2>1. CASE Counted(call[c])
    BY <2>1, FS_Singleton DEF LedgerInv, EventOf
  <2>2. CASE ~Counted(call[c])
    BY <2>2, FS_EmptySet DEF LedgerInv
  <2>3. QED
    BY <2>1, <2>2
<1>2. QED
  BY <1>1, LedgerInductive, PTL

\* The events of one tenant.
EventsOf(t) == {e \in events : e.tenant = t}

TotalsInv ==
    /\ IsFiniteSet(events)
    /\ \A t \in Tenants : spent[t] = Total(EventsOf(t))

\* An event that was not on the ledger adds its cost to its tenant's total and
\* leaves the totals of the others.
LEMMA BookedTotals ==
    ASSUME IInv, TotalsInv, NEW v, Booked(v), v \notin events
    PROVE  TotalsInv'
<1>1. v \in Event /\ v.tenant \in Tenants /\ v.cost \in Nat
  BY GatewayAssumption DEF Booked, Event
<1>2. IsFiniteSet(events')
  BY FS_AddElement DEF TotalsInv, Booked
<1>3. \A e \in events' : e.cost \in Nat
  BY <1>1, GatewayAssumption DEF IInv, TypeOK, Event, Booked
<1>4. ASSUME NEW t \in Tenants
      PROVE  spent'[t] = Total(EventsOf(t)')
  <2>1. IsFiniteSet(EventsOf(t)') /\ \A e \in EventsOf(t)' : e.cost \in Nat
    BY <1>2, <1>3, FS_Subset DEF EventsOf
  <2>2. spent \in [Tenants -> Nat] /\ spent[t] = Total(EventsOf(t))
    BY DEF IInv, TypeOK, TotalsInv
  <2>3. CASE t = v.tenant
    <3>1. v \in EventsOf(t)' /\ EventsOf(t)' \ {v} = EventsOf(t)
      BY <2>3 DEF EventsOf, Booked
    <3>2. Total(EventsOf(t)') = v.cost + Total(EventsOf(t))
      BY <2>1, <3>1, TotalWithout
    <3>3. spent'[t] = spent[t] + v.cost
      BY <2>2, <2>3 DEF Booked
    <3>4. QED
      BY <1>1, <2>2, <3>2, <3>3
  <2>4. CASE t # v.tenant
    <3>1. EventsOf(t)' = EventsOf(t)
      BY <2>4 DEF EventsOf, Booked
    <3>2. spent'[t] = spent[t]
      BY <2>2, <2>4 DEF Booked
    <3>3. QED
      BY <2>2, <3>1, <3>2
  <2>5. QED
    BY <2>3, <2>4
<1>5. QED
  BY <1>2, <1>4 DEF TotalsInv

\* The ledger is complete: what each call did is on it once, and the totals the
\* budget check reads are the sums of the events.
THEOREM LedgerIsComplete == Spec => []LedgerTellsAll
<1>1. Init => TotalsInv
  <2> SUFFICES ASSUME Init
               PROVE  TotalsInv
    OBVIOUS
  <2>1. events = {} /\ \A t \in Tenants : spent[t] = 0
    BY DEF Init
  <2>2. \A t : EventsOf(t) = {}
    BY <2>1 DEF EventsOf
  <2>3. QED
    BY <2>1, <2>2, TotalStep, FS_EmptySet DEF TotalsInv
<1>2. IInv /\ LedgerInv /\ TotalsInv /\ [Next]_vars => TotalsInv'
  <2> SUFFICES ASSUME IInv, LedgerInv, TotalsInv, [Next]_vars
               PROVE  TotalsInv'
    OBVIOUS
  <2>1. CASE UNCHANGED <<events, spent>>
    BY <2>1 DEF TotalsInv, EventsOf
  <2>2. ASSUME NEW c \in Calls, NEW n, Ledgers(c, n)
        PROVE  TotalsInv'
    <3>1. ASSUME NEW v, Booked(v), EventOf(v, c, n)
          PROVE  TotalsInv'
      <4>1. OwnEvents(c) = {}
        BY <2>2 DEF Ledgers, Counted, LedgerInv
      <4>2. v \notin events
        BY <3>1, <4>1 DEF OwnEvents, EventOf
      <4>3. QED
        BY <3>1, <4>2, BookedTotals
    <3>2. QED
      BY <2>1, <2>2, <3>1 DEF Ledgers
  <2>3. QED
    BY <2>1, <2>2, ArriveLedgers, RunningLedgers DEF Next, Tick, vars
<1>3. TotalsInv => TotalsMatchEvents
  BY DEF TotalsInv, TotalsMatchEvents, Total, EventsOf
<1>4. QED
  BY <1>1, <1>2, <1>3, Inductive, LedgerInductive, OneEventEach, PTL DEF Spec, LedgerTellsAll

-----------------------------------------------------------------------------
\* The breakers.

\* What a step may make of one breaker.
BreakerMoves(b, t) ==
    {b, MaybeHalfOpen(b, t), RecordSuccess(b),
     RecordFailure(b, t), MaybeHalfOpen(RecordFailure(b, t), t)}

LEMMA SeekMoves ==
    ASSUME NEW c \in Calls, NEW s, NEW from, NEW brs \in [Configured -> BreakerRecord],
           Seek(c, s, from, brs), NEW p \in Configured
    PROVE  breakers'[p] \in {brs[p], MaybeHalfOpen(brs[p], now)}
<1>1. CASE breakers' = brs
  BY <1>1
<1>2. ASSUME NEW i \in Candidates(PlanFor(s.request.task), from, brs),
             breakers' = [brs EXCEPT ![PlanFor(s.request.task)[i]] = MaybeHalfOpen(@, now)]
      PROVE  breakers'[p] \in {brs[p], MaybeHalfOpen(brs[p], now)}
  BY <1>2
<1>3. QED
  BY <1>1, <1>2 DEF Seek

LEMMA FailedMoves ==
    ASSUME IInv, NEW c \in Calls, NEW p \in Configured
    PROVE  /\ Failed(c)[p] \in {breakers[p], RecordFailure(breakers[p], now)}
           /\ Failed(c) \in [Configured -> BreakerRecord]
<1>1. breakers \in [Configured -> BreakerRecord] /\ now \in Int
  BY GatewayAssumption DEF IInv, TypeOK
<1>2. \A q \in Configured : RecordFailure(breakers[q], now) \in BreakerRecord
  BY <1>1, BreakerSteps
<1>3. QED
  BY <1>1, <1>2 DEF Failed

LEMMA NextMoves ==
    ASSUME IInv, [Next]_vars, NEW p \in Configured
    PROVE  /\ now' \in {now, now + 1}
           /\ breakers'[p] \in BreakerMoves(breakers[p], now)
           /\ now' # now => breakers'[p] = breakers[p]
<1> DEFINE Goal == now' = now /\ breakers'[p] \in BreakerMoves(breakers[p], now)
<1> USE DEF BreakerMoves
<1>0. breakers \in [Configured -> BreakerRecord]
  BY DEF IInv, TypeOK
<1>1. ASSUME NEW c \in Calls, NEW r \in Requests, Arrive(c, r)
      PROVE  Goal
  <2>1. CASE StartChat(c, r)
    BY <1>0, <2>1, SeekMoves DEF StartChat, Arrives
  <2>2. CASE ~StartChat(c, r)
    BY <1>1, <2>2 DEF Arrive, RefuseRate, RefuseBudget, RefuseUnsafe, RefuseRoute,
                      TurnAway, ServeCached, StartEmbed, Arrives
  <2>3. QED
    BY <2>1, <2>2
<1>2. ASSUME NEW c \in Calls, Resolve(c)
      PROVE  Goal
  <2>1. ASSUME NEW cost \in 0..MaxCost, Answer(c, cost) \/ AnswerEmbed(c, cost)
        PROVE  Goal
    BY <1>0, <2>1 DEF Answer, AnswerEmbed
  <2>2. CASE GiveUp(c)
    BY <2>2, SeekMoves, FailedMoves DEF GiveUp
  <2>3. CASE Retry(c) \/ GiveUpEmbed(c)
    BY <2>3 DEF Retry, GiveUpEmbed
  <2>4. QED
    BY <1>2, <2>1, <2>2, <2>3 DEF Resolve
<1>3. ASSUME NEW c \in Calls, Stream(c)
      PROVE  Goal
  <2>1. CASE SwitchStream(c)
    BY <2>1, SeekMoves, FailedMoves DEF SwitchStream
  <2>2. CASE BreakStream(c)
    BY <2>2, FailedMoves DEF BreakStream
  <2>3. CASE EndStream(c)
    BY <1>0, <2>3 DEF EndStream
  <2>4. CASE Resume(c) \/ \E u \in 0..MaxCost : Chunk(c, u)
    BY <2>4 DEF Resume, Chunk
  <2>5. QED
    BY <1>3, <2>1, <2>2, <2>3, <2>4 DEF Stream
<1>4. ASSUME NEW c \in Calls, Wake(c) \/ Abort(c)
      PROVE  Goal
  BY <1>4 DEF Wake, Abort
<1>5. QED
  BY <1>1, <1>2, <1>3, <1>4 DEF Next, Tick, vars

\* Under reports that arrive late and out of order, from any number of calls,
\* the fields of every breaker agree and no time of opening is in the future.
THEOREM BreakersAgree == Spec => []BreakersExplained
<1>1. BreakersExplained <=> \A p \in Configured : Explained(breakers[p], now)
  BY DEF BreakersExplained, Explained
<1>2. Init => BreakersExplained
  BY BreakerAssumption DEF Init, BreakersExplained, NewBreaker
<1>3. IInv /\ BreakersExplained /\ [Next]_vars => BreakersExplained'
  <2> SUFFICES ASSUME IInv, BreakersExplained, [Next]_vars, NEW p \in Configured
               PROVE  Explained(breakers'[p], now')
    BY DEF BreakersExplained, Explained
  <2>1. breakers[p] \in BreakerRecord /\ now \in Nat
    BY GatewayAssumption DEF IInv, TypeOK
  <2>2. Explained(breakers[p], now)
    BY <1>1
  <2>3. \A b \in BreakerMoves(breakers[p], now) : Explained(b, now)
    <3>1. RecordFailure(breakers[p], now) \in BreakerRecord
      BY <2>1, BreakerSteps
    <3>2. QED
      BY <2>1, <2>2, <3>1, ExplainedSteps DEF BreakerMoves
  <2>4. CASE now' = now
    BY <2>3, <2>4, NextMoves
  <2>5. CASE now' # now
    BY <2>1, <2>2, <2>5, NextMoves, ExplainedSteps
  <2>6. QED
    BY <2>4, <2>5
<1>4. QED
  BY <1>2, <1>3, Inductive, PTL DEF Spec

-----------------------------------------------------------------------------
\* Money.  All that matters of a step is which call it moves to which record,
\* what it books and what it does to the peaks; there are five kinds.

PeaksGrow == \A t \in Tenants : peak'[t] >= peak[t]

\* Refused, served from the cache, or no candidate to ask.
Disposes(c, n) ==
    /\ call[c].phase = "new" /\ n.phase = "done" /\ n.request \in Requests
    /\ spent' = spent /\ PeaksGrow

Begins(c, n) ==
    /\ call[c].phase = "new" /\ Active(n) /\ n.request \in Requests
    /\ BudgetLeft(n.request)
    /\ spent' = spent /\ PeaksGrow
    /\ n.request.op # "embed" =>
          peak'[n.request.tenant] >= Cardinality(InProgress(n.request.tenant) \cup {c})

Charges(c, n) ==
    /\ Running(c) /\ n.phase = "done" /\ n.request = call[c].request
    /\ \E cost \in 0..MaxCost : spent' = [spent EXCEPT ![n.request.tenant] = @ + cost]
    /\ peak' = peak

Drops(c, n) ==
    /\ Running(c) /\ n.phase = "done" /\ n.request = call[c].request
    /\ spent' = spent /\ peak' = peak

Stays(c, n) ==
    /\ Running(c) /\ Active(n) /\ n.request = call[c].request
    /\ spent' = spent /\ peak' = peak

OneCallMoves(c) ==
    \E n \in CallState :
        /\ call' = [call EXCEPT ![c] = n]
        /\ Disposes(c, n) \/ Begins(c, n) \/ Charges(c, n) \/ Drops(c, n) \/ Stays(c, n)

LEMMA ArriveKinds ==
    ASSUME IInv, NEW c \in Calls, NEW r \in Requests, Arrive(c, r)
    PROVE  OneCallMoves(c)
<1> DEFINE s == [NewCall EXCEPT !.request = r]
<1>1. s \in CallState /\ s.request = r
  BY FreshCall
<1>2. peak \in [Tenants -> Nat]
  BY DEF IInv, TypeOK
<1>3. ASSUME NEW why \in Outcomes, TurnAway(c, r, why)
      PROVE  OneCallMoves(c)
  <2> DEFINE n == Finished(s, why)
  <2>1. n \in CallState /\ n.request = r /\ n.phase = "done"
    BY <1>1, FinishedCall
  <2>2. /\ call' = [call EXCEPT ![c] = n] /\ call[c].phase = "new"
        /\ spent' = spent /\ peak' = peak
    BY <1>3 DEF TurnAway, Arrives
  <2>3. Disposes(c, n)
    BY <1>2, <2>1, <2>2 DEF Disposes, PeaksGrow
  <2>4. QED
    BY <2>1, <2>2, <2>3 DEF OneCallMoves
<1>4. CASE ServeCached(c, r)
  <2> DEFINE e == entries[CacheKey(r)]
             f == Finished(s, "cached")
             n == [f EXCEPT !.answer = e.answers, !.age = now - e.stored_at]
  <2>1. /\ call' = [call EXCEPT ![c] = n] /\ call[c].phase = "new"
        /\ spent' = spent /\ peak' = peak /\ Fresh(e)
    BY <1>4 DEF ServeCached, Arrives, Hit
  <2>2. f \in CallState /\ f.request = r /\ f.phase = "done"
    BY <1>1, FinishedCall DEF Outcomes
  <2>3. CacheKey(r) \in Identity /\ e \in Entry /\ e.stored_at <= now /\ now \in Int
    BY <2>1, RequestFacts, GatewayAssumption DEF IInv, TypeOK, EntriesInv, Fresh
  <2>4. now - e.stored_at \in Nat /\ e.answers \in Identity
    BY <2>3, GatewayAssumption DEF Entry
  <2>5. n \in CallState /\ n.request = r /\ n.phase = "done"
    BY <2>2, <2>4 DEF CallState
  <2>6. Disposes(c, n)
    BY <1>2, <2>1, <2>5 DEF Disposes, PeaksGrow
  <2>7. QED
    BY <2>1, <2>5, <2>6 DEF OneCallMoves
<1>5. CASE StartChat(c, r)
  <2>1. PICK n \in CallState :
          call' = [call EXCEPT ![c] = n] /\ n.request = r /\ n.phase \in {"calling", "done"}
    BY <1>5, StartSeek
  <2> DEFINE here == Cardinality(InProgress(r.tenant) \cup {c})
  <2>2. /\ call[c].phase = "new" /\ BudgetLeft(r) /\ r.op # "embed" /\ spent' = spent
        /\ peak' = [peak EXCEPT ![r.tenant] = Larger(@, here)]
    BY <1>5 DEF StartChat, Arrives, Cleared
  <2>3. here \in Nat
    <3>1. IsFiniteSet(InProgress(r.tenant) \cup {c})
      BY FS_Subset, GatewayAssumption DEF InProgress
    <3>2. QED
      BY <3>1, FS_CardinalityType
  <2>4. PeaksGrow /\ peak'[r.tenant] >= here
    <3> HIDE DEF here
    <3>1. r.tenant \in Tenants
      BY RequestFacts
    <3>2. QED
      BY <1>2, <2>2, <2>3, <3>1 DEF PeaksGrow, Larger
  <2>5. Disposes(c, n) \/ Begins(c, n)
    BY <2>1, <2>2, <2>4 DEF Disposes, Begins, Active
  <2>6. QED
    BY <2>1, <2>5 DEF OneCallMoves
<1>6. CASE StartEmbed(c, r)
  <2> DEFINE n == [NewCall EXCEPT !.request = r, !.phase = "calling"]
  <2>1. n \in CallState /\ n.request = r /\ n.phase = "calling"
    <3>1. 0 \in 0..MaxRetries /\ 0 \in 0..MaxCost
      BY GatewayAssumption
    <3>2. QED
      BY <3>1 DEF NewCall, CallState, Phases, Outcomes
  <2>2. /\ call' = [call EXCEPT ![c] = n] /\ call[c].phase = "new" /\ r.op = "embed"
        /\ BudgetLeft(r) /\ spent' = spent /\ peak' = peak
    BY <1>6 DEF StartEmbed, Arrives, Cleared
  <2>3. Begins(c, n)
    BY <1>2, <2>1, <2>2 DEF Begins, PeaksGrow, Active
  <2>4. QED
    BY <2>1, <2>2, <2>3 DEF OneCallMoves
<1>7. QED
  BY <1>3, <1>4, <1>5, <1>6
     DEF Arrive, RefuseRate, RefuseBudget, RefuseUnsafe, RefuseRoute, Outcomes

\* Answer, AnswerEmbed and EndStream.
LEMMA ChargeKinds ==
    ASSUME IInv, NEW c \in Calls, Running(c), NEW cost \in 0..MaxCost, Book(c, cost),
           call' = [call EXCEPT ![c] = [Finished(@, "answered") EXCEPT
                                           !.answer = IdentityOf(call[c].request)]],
           peak' = peak
    PROVE  OneCallMoves(c)
<1> DEFINE n == [Finished(call[c], "answered") EXCEPT !.answer = IdentityOf(call[c].request)]
<1>1. call[c] \in CallState /\ call[c].request \in Requests
  BY RunningCall
<1>2. CallInv(n) /\ n.request = call[c].request /\ n.phase = "done"
  BY <1>1, AnsweredCall
<1>3. n \in CallState /\ call' = [call EXCEPT ![c] = n]
  BY <1>2 DEF CallInv, IInv, TypeOK
<1>4. Charges(c, n)
  BY <1>2 DEF Charges, Book
<1>5. QED
  BY <1>3, <1>4 DEF OneCallMoves

\* GiveUpEmbed, BreakStream and Abort.
LEMMA DropKinds ==
    ASSUME IInv, NEW c \in Calls, Running(c), NEW why \in Outcomes,
           call' = [call EXCEPT ![c] = Finished(@, why)],
           spent' = spent, peak' = peak
    PROVE  OneCallMoves(c)
<1> DEFINE n == Finished(call[c], why)
<1>1. n \in CallState /\ n.request = call[c].request /\ n.phase = "done"
  BY RunningCall, FinishedCall
<1>2. Drops(c, n)
  BY <1>1 DEF Drops
<1>3. QED
  BY <1>1, <1>2 DEF OneCallMoves, IInv, TypeOK

\* GiveUp and SwitchStream.
LEMMA MoveOnKinds ==
    ASSUME IInv, NEW c \in Calls, Running(c), call[c].request.op # "embed", MayFail(c),
           Seek(c, call[c], call[c].position + 1, Failed(c)),
           spent' = spent, peak' = peak
    PROVE  OneCallMoves(c)
<1>1. PICK n \in CallState :
        /\ call' = [call EXCEPT ![c] = n] /\ n.request = call[c].request
        /\ n.phase \in {"calling", "done"}
  BY MoveOnSeek
<1>2. Drops(c, n) \/ Stays(c, n)
  BY <1>1 DEF Drops, Stays, Active
<1>3. QED
  BY <1>1, <1>2 DEF OneCallMoves

LEMMA OnwardKinds ==
    ASSUME IInv, NEW c \in Calls,
           Retry(c) \/ Wake(c) \/ Resume(c) \/ \E u \in 0..MaxCost : Chunk(c, u)
    PROVE  OneCallMoves(c)
BY OnwardMoves DEF OneCallMoves, Stays

LEMMA StepKinds ==
    ASSUME IInv, Next
    PROVE  \/ \E c \in Calls : OneCallMoves(c)
           \/ UNCHANGED <<call, spent, peak>>
<1>1. ASSUME NEW c \in Calls, Resolve(c)
      PROVE  OneCallMoves(c)
  <2>1. ASSUME NEW cost \in 0..MaxCost, Answer(c, cost) \/ AnswerEmbed(c, cost)
        PROVE  OneCallMoves(c)
    BY <2>1, ChargeKinds DEF Answer, AnswerEmbed, Awaits, Running
  <2>2. CASE GiveUp(c)
    BY <2>2, MoveOnKinds DEF GiveUp, Awaits, Running
  <2>3. CASE GiveUpEmbed(c)
    BY <2>3, DropKinds DEF GiveUpEmbed, Awaits, Running, Outcomes
  <2>4. QED
    BY <1>1, <2>1, <2>2, <2>3, OnwardKinds DEF Resolve
<1>2. ASSUME NEW c \in Calls, Stream(c)
      PROVE  OneCallMoves(c)
  <2>1. CASE EndStream(c)
    <3>1. Running(c)
      BY <2>1 DEF EndStream, Awaits, Running
    <3>2. call[c].usage \in 0..MaxCost
      BY <3>1, RunningCall DEF CallState
    <3>3. QED
      BY <2>1, <3>1, <3>2, ChargeKinds DEF EndStream
  <2>2. CASE SwitchStream(c)
    BY <2>2, MoveOnKinds DEF SwitchStream, Awaits, Running
  <2>3. CASE BreakStream(c)
    BY <2>3, DropKinds DEF BreakStream, Awaits, Running, Outcomes
  <2>4. QED
    BY <1>2, <2>1, <2>2, <2>3, OnwardKinds DEF Stream
<1>3. ASSUME NEW c \in Calls, Abort(c)
      PROVE  OneCallMoves(c)
  BY <1>3, DropKinds DEF Abort, Outcomes
<1>4. QED
  BY <1>1, <1>2, <1>3, ArriveKinds, OnwardKinds DEF Next, Tick

-----------------------------------------------------------------------------
\* The overshoot.

LEMMA TimesMonotonic ==
    ASSUME NEW k \in Nat, NEW a \in Nat, NEW b \in Nat, a <= b
    PROVE  k * a \in Nat /\ k * b \in Nat /\ k * a <= k * b
OBVIOUS

LEMMA InProgressFinite ==
    ASSUME NEW t
    PROVE  IsFiniteSet(InProgress(t)) /\ Cardinality(InProgress(t)) \in Nat
<1>1. IsFiniteSet(InProgress(t))
  BY FS_Subset, GatewayAssumption DEF InProgress
<1>2. QED
  BY <1>1, FS_CardinalityType

\* Only the call that moves enters or leaves the calls in progress.
LEMMA InProgressStep ==
    ASSUME IInv, NEW c \in Calls, NEW n \in CallState, NEW t,
           call' = [call EXCEPT ![c] = n]
    PROVE  InProgress(t)' = IF Active(n) /\ n.request.tenant = t
                            THEN InProgress(t) \cup {c}
                            ELSE InProgress(t) \ {c}
<1>1. call \in [Calls -> CallState]
  BY DEF IInv, TypeOK
<1>2. \A d \in Calls : call'[d] = IF d = c THEN n ELSE call[d]
  BY <1>1
<1>3. QED
  BY <1>2 DEF InProgress, Running, Active

LEMMA BudgetStep ==
    ASSUME IInv, IInv', BudgetInv, NEW c \in Calls, OneCallMoves(c)
    PROVE  BudgetInv'
<1> SUFFICES ASSUME Budget > 0, NEW t \in Tenants \ {Platform}
             PROVE  spent'[t] + MaxCost * Cardinality(InProgress(t)')
                        <= Budget - 1 + MaxCost * peak'[t]
  BY DEF BudgetInv
<1> DEFINE k  == Cardinality(InProgress(t))
           k2 == Cardinality(InProgress(t)')
<1>1. PICK n \in CallState :
        /\ call' = [call EXCEPT ![c] = n]
        /\ Disposes(c, n) \/ Begins(c, n) \/ Charges(c, n) \/ Drops(c, n) \/ Stays(c, n)
  BY DEF OneCallMoves
<1>2. /\ spent \in [Tenants -> Nat] /\ peak \in [Tenants -> Nat]
      /\ Budget \in Nat /\ MaxCost \in Nat
      /\ spent[t] + MaxCost * k <= Budget - 1 + MaxCost * peak[t]
      /\ IsFiniteSet(InProgress(t)) /\ k \in Nat
  BY InProgressFinite, GatewayAssumption DEF IInv, TypeOK, BudgetInv
<1>3. InProgress(t)' = IF Active(n) /\ n.request.tenant = t
                       THEN InProgress(t) \cup {c}
                       ELSE InProgress(t) \ {c}
  BY <1>1, InProgressStep
<1>4. c \in InProgress(t) <=> Running(c) /\ call[c].request.tenant = t
  BY DEF InProgress
<1>5. Running(c) => call[c].phase # "new"
  BY DEF Running
<1>6. /\ spent' \in [Tenants -> Nat] /\ peak' \in [Tenants -> Nat]
      /\ IsFiniteSet(InProgress(t)') /\ k2 \in Nat
  <2>1. /\ InProgress(t)' \in {InProgress(t) \cup {c}, InProgress(t) \ {c}}
    BY <1>3
  <2>2. IsFiniteSet(InProgress(t)')
    BY <1>2, <2>1, FS_AddElement, FS_RemoveElement
  <2>3. QED
    BY <2>2, FS_CardinalityType DEF IInv, TypeOK
<1>7. CASE Begins(c, n) /\ n.request.tenant = t
  <2>1. n.request \in Requests /\ n.request.op # "embed"
    BY <1>7, RequestFacts DEF Begins
  <2>2. spent'[t] = spent[t] /\ spent[t] < Budget
    BY <1>2, <1>7, <2>1 DEF Begins, BudgetLeft, OverBudget
  <2>3. peak'[t] >= k2
    BY <1>3, <1>7, <2>1 DEF Begins
  <2>4. MaxCost * k2 <= MaxCost * peak'[t] /\ MaxCost * k2 \in Nat
        /\ MaxCost * peak'[t] \in Nat
    BY <1>2, <1>6, <2>3, TimesMonotonic
  <2>5. QED
    BY <1>2, <2>2, <2>4
<1>8. CASE Charges(c, n) /\ n.request.tenant = t
  <2>1. PICK cost \in 0..MaxCost : spent' = [spent EXCEPT ![t] = @ + cost]
    BY <1>8 DEF Charges
  <2>2. spent'[t] <= spent[t] + MaxCost /\ peak' = peak
    BY <1>2, <1>8, <2>1 DEF Charges
  <2>3. c \in InProgress(t) /\ InProgress(t)' = InProgress(t) \ {c}
    BY <1>3, <1>4, <1>8 DEF Charges, Active
  <2>4. k2 = k - 1
    BY <1>2, <2>3, FS_RemoveElement
  <2>5. MaxCost * k2 \in Nat /\ MaxCost * k = MaxCost * k2 + MaxCost
    BY <1>2, <1>6, <2>4, RateTimesTime
  <2>6. MaxCost * peak[t] \in Nat
    BY <1>2, RateTimesTime
  <2>7. QED
    BY <1>2, <1>6, <2>2, <2>5, <2>6
<1>9. CASE /\ ~(Begins(c, n) /\ n.request.tenant = t)
           /\ ~(Charges(c, n) /\ n.request.tenant = t)
  <2>1. spent'[t] = spent[t] /\ peak'[t] >= peak[t]
    <3>1. peak' = peak => peak'[t] >= peak[t]
      BY <1>2
    <3>2. Charges(c, n) => spent'[t] = spent[t]
      BY <1>2, <1>9 DEF Charges
    <3>3. QED
      BY <1>1, <3>1, <3>2 DEF Disposes, Begins, Charges, Drops, Stays, PeaksGrow
  <2>2. InProgress(t)' \in {InProgress(t), InProgress(t) \ {c}}
    <3>1. Stays(c, n) /\ n.request.tenant = t => c \in InProgress(t)
      BY <1>4 DEF Stays
    <3>2. Active(n) /\ n.request.tenant = t => Stays(c, n)
      BY <1>1, <1>9 DEF Disposes, Begins, Charges, Drops, Active
    <3>3. QED
      BY <1>3, <3>1, <3>2
  <2>3. k2 <= k
    <3>1. Cardinality(InProgress(t) \ {c}) \in {k, k - 1}
      BY <1>2, FS_RemoveElement
    <3>2. k2 \in {k, k - 1}
      BY <2>2, <3>1
    <3>3. QED
      BY <1>2, <3>2
  <2>4. /\ MaxCost * k2 <= MaxCost * k /\ MaxCost * k2 \in Nat /\ MaxCost * k \in Nat
    BY <1>2, <1>6, <2>3, TimesMonotonic
  <2>5. /\ MaxCost * peak[t] <= MaxCost * peak'[t] /\ MaxCost * peak[t] \in Nat
        /\ MaxCost * peak'[t] \in Nat
    BY <1>2, <1>6, <2>1, TimesMonotonic
  <2>6. QED
    BY <1>2, <1>6, <2>1, <2>4, <2>5
<1>10. QED
  BY <1>7, <1>8, <1>9

\* A tenant overruns its budget by less than what the calls it had in progress
\* at once could cost: their cost is set aside from the moment they begin.
THEOREM OvershootIsBounded == Spec => []OvershootBounded
<1>1. Init => BudgetInv
  <2> SUFFICES ASSUME Init, Budget > 0, NEW t \in Tenants \ {Platform}
               PROVE  spent[t] + MaxCost * Cardinality(InProgress(t))
                          <= Budget - 1 + MaxCost * peak[t]
    BY DEF BudgetInv
  <2>1. InProgress(t) = {}
    BY DEF Init, InProgress, Running, NewCall
  <2>2. Cardinality(InProgress(t)) = 0 /\ spent[t] = 0 /\ peak[t] = 0
    BY <2>1, FS_EmptySet DEF Init
  <2>3. QED
    BY <2>2, GatewayAssumption
<1>2. IInv /\ IInv' /\ BudgetInv /\ [Next]_vars => BudgetInv'
  <2> SUFFICES ASSUME IInv, IInv', BudgetInv, [Next]_vars
               PROVE  BudgetInv'
    OBVIOUS
  <2>1. CASE UNCHANGED <<call, spent, peak>>
    BY <2>1 DEF BudgetInv, InProgress, Running
  <2>2. QED
    BY <2>1, StepKinds, BudgetStep DEF vars
<1>3. IInv /\ BudgetInv => OvershootBounded
  <2> SUFFICES ASSUME IInv, BudgetInv, Budget > 0, NEW t \in Tenants \ {Platform}
               PROVE  spent[t] < Budget + MaxCost * Larger(1, peak[t])
    BY DEF OvershootBounded
  <2> DEFINE k == Cardinality(InProgress(t))
  <2>1. /\ spent[t] \in Nat /\ peak[t] \in Nat /\ k \in Nat
        /\ Budget \in Nat /\ MaxCost \in Nat
        /\ spent[t] + MaxCost * k <= Budget - 1 + MaxCost * peak[t]
    BY InProgressFinite, GatewayAssumption DEF IInv, TypeOK, BudgetInv
  <2>2. Larger(1, peak[t]) \in Nat /\ peak[t] <= Larger(1, peak[t])
    BY <2>1 DEF Larger
  <2>3. /\ MaxCost * peak[t] <= MaxCost * Larger(1, peak[t]) /\ MaxCost * peak[t] \in Nat
        /\ MaxCost * Larger(1, peak[t]) \in Nat
    BY <2>1, <2>2, TimesMonotonic
  <2>4. MaxCost * k \in Nat
    BY <2>1, RateTimesTime
  <2>5. QED
    BY <2>1, <2>3, <2>4
<1>4. QED
  BY <1>1, <1>2, <1>3, Inductive, PTL DEF Spec

-----------------------------------------------------------------------------
\* The refinement of MeteredCalls.

\* What a call shows of itself to MeteredCalls.
StatusOf(s) == IF s.phase \in {"new", "done"} THEN s.phase ELSE "running"
OwnerOf(s) == IF s.request = NoRequest THEN NoRequest ELSE s.request.tenant

LEMMA Shown ==
    ASSUME NEW s \in CallState
    PROVE  /\ Active(s) <=> StatusOf(s) = "running"
           /\ s.phase = "new" <=> StatusOf(s) = "new"
           /\ s.phase = "done" <=> StatusOf(s) = "done"
           /\ s.request \in Requests => OwnerOf(s) = s.request.tenant
BY RequestFacts DEF CallState, Phases, Active, StatusOf, OwnerOf

LEMMA MeteredStep ==
    ASSUME IInv, NEW c \in Calls, OneCallMoves(c)
    PROVE  Metered!Next \/ UNCHANGED Metered!vars
<1> DEFINE status == [d \in Calls |-> StatusOf(call[d])]
           owner  == [d \in Calls |-> OwnerOf(call[d])]
<1>1. PICK n \in CallState :
        /\ call' = [call EXCEPT ![c] = n]
        /\ Disposes(c, n) \/ Begins(c, n) \/ Charges(c, n) \/ Drops(c, n) \/ Stays(c, n)
  BY DEF OneCallMoves
<1>2. /\ call \in [Calls -> CallState] /\ spent \in [Tenants -> Nat]
      /\ Platform \in Tenants
  BY GatewayAssumption DEF IInv, TypeOK
<1>3. /\ status' = [status EXCEPT ![c] = StatusOf(n)]
      /\ owner'  = [owner EXCEPT ![c] = OwnerOf(n)]
      /\ status[c] = StatusOf(call[c]) /\ owner[c] = OwnerOf(call[c])
  BY <1>1, <1>2
<1>4. Running(c) => call[c].request \in Requests /\ Active(call[c])
  BY RunningCall DEF Running, Active
<1>5. /\ n.request \in Requests /\ OwnerOf(n) = n.request.tenant
      /\ OwnerOf(n) \in Tenants
  <2>1. n.request \in Requests
    BY <1>1, <1>4 DEF Disposes, Begins, Charges, Drops, Stays
  <2>2. QED
    BY <2>1, Shown, RequestFacts
<1>6. n.request = call[c].request => OwnerOf(n) = OwnerOf(call[c])
  BY DEF OwnerOf
<1>7. n.request = call[c].request => owner' = owner
  <2>1. owner \in [Calls -> {OwnerOf(call[d]) : d \in Calls}]
    OBVIOUS
  <2>2. QED
    BY <1>3, <1>6, <2>1
<1>8. StatusOf(n) = StatusOf(call[c]) => status' = status
  <2>1. status \in [Calls -> {StatusOf(call[d]) : d \in Calls}]
    OBVIOUS
  <2>2. QED
    BY <1>3, <2>1
<1>9. /\ status = [d \in Calls |-> IF call[d].phase \in {"new", "done"}
                                    THEN call[d].phase ELSE "running"]
      /\ owner = [d \in Calls |-> IF call[d].request = NoRequest
                                   THEN NoRequest ELSE call[d].request.tenant]
  BY DEF StatusOf, OwnerOf
<1>10. CASE Disposes(c, n)
  <2>1. /\ status[c] = "new" /\ status' = [status EXCEPT ![c] = "done"]
        /\ owner' = [owner EXCEPT ![c] = OwnerOf(n)] /\ spent' = spent
    BY <1>2, <1>3, <1>10, Shown DEF Disposes
  <2>2. Metered!Dispose(c, OwnerOf(n))
    BY <1>9, <2>1 DEF Metered!Dispose, StatusOf, OwnerOf
  <2>3. QED
    BY <1>5, <2>2 DEF Metered!Next
<1>11. CASE Begins(c, n)
  <2>1. /\ status[c] = "new" /\ status' = [status EXCEPT ![c] = "running"]
        /\ owner' = [owner EXCEPT ![c] = OwnerOf(n)] /\ spent' = spent
    BY <1>2, <1>3, <1>11, Shown DEF Begins
  <2>2. Metered!HasBudget(OwnerOf(n))
    BY <1>2, <1>5, <1>11, RequestFacts, GatewayAssumption
       DEF Begins, BudgetLeft, OverBudget, Metered!HasBudget
  <2>3. Metered!Begin(c, OwnerOf(n))
    BY <1>9, <2>1, <2>2 DEF Metered!Begin, StatusOf, OwnerOf
  <2>4. QED
    BY <1>5, <2>3 DEF Metered!Next
<1>12. CASE Charges(c, n)
  <2>1. PICK cost \in 0..MaxCost :
          spent' = [spent EXCEPT ![n.request.tenant] = @ + cost]
    BY <1>12 DEF Charges
  <2>2. /\ status[c] = "running" /\ status' = [status EXCEPT ![c] = "done"]
        /\ owner' = owner /\ owner[c] = n.request.tenant
    BY <1>2, <1>3, <1>4, <1>5, <1>6, <1>7, <1>12, Shown DEF Charges
  <2>3. Metered!Charge(c, cost)
    BY <1>9, <2>1, <2>2 DEF Metered!Charge, StatusOf, OwnerOf
  <2>4. QED
    BY <2>3 DEF Metered!Next
<1>13. CASE Drops(c, n)
  <2>1. /\ status[c] = "running" /\ status' = [status EXCEPT ![c] = "done"]
        /\ owner' = owner /\ spent' = spent
    BY <1>2, <1>3, <1>4, <1>7, <1>13, Shown DEF Drops
  <2>2. Metered!Drop(c)
    BY <1>9, <2>1 DEF Metered!Drop, StatusOf, OwnerOf
  <2>3. QED
    BY <2>2 DEF Metered!Next
<1>14. CASE Stays(c, n)
  <2>1. status' = status /\ owner' = owner /\ spent' = spent
    BY <1>2, <1>4, <1>7, <1>8, <1>14, Shown DEF Stays
  <2>2. QED
    BY <1>9, <2>1 DEF Metered!vars, StatusOf, OwnerOf
<1>15. QED
  BY <1>1, <1>10, <1>11, <1>12, <1>13, <1>14

\* The gateway implements MeteredCalls: every step begins, disposes of, charges
\* or drops one call, or is none of its business.
THEOREM GatewayIsMetered == Spec => ImplementsMeteredCalls
<1>1. Init => Metered!Init
  BY DEF Init, Metered!Init, NewCall
<1>2. IInv /\ [Next]_vars => [Metered!Next]_(Metered!vars)
  <2>1. UNCHANGED <<call, spent>> => UNCHANGED Metered!vars
    BY DEF Metered!vars
  <2>2. QED
    BY <2>1, StepKinds, MeteredStep DEF vars
<1>3. QED
  BY <1>1, <1>2, Inductive, PTL DEF Spec, ImplementsMeteredCalls, Metered!Spec

=============================================================================
