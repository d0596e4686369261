------------------------------ MODULE Gateway ------------------------------
(***************************************************************************)
(* AIGateway (application/gateway/ai_gateway.py) with the rate limiter,    *)
(* the circuit breakers, the response cache and the usage ledger it is     *)
(* composed with.                                                          *)
(*                                                                         *)
(* The program is one asyncio event loop.  A request gives up the loop     *)
(* only while it awaits a provider, sleeps before a retry, or has yielded  *)
(* a stream chunk to its consumer; the in-memory adapters never suspend.   *)
(* So everything between two such points is one action here, and requests  *)
(* interleave exactly at those points.  A request may be cancelled at any  *)
(* of them (node timeouts, clients that hang up).                          *)
(*                                                                         *)
(* Abstractions: the content of a request is a value that stands for its   *)
(* feature, parameters and messages; a completion is the identity of the   *)
(* request it answers and its cost in integer units; back-off delays have  *)
(* no length, a sleeper may wake at any time.                              *)
(***************************************************************************)
EXTENDS TokenBucket, Breaker, FiniteSets, FiniteSetsExt, Sequences

CONSTANTS
    Calls,          \* calls of generate, stream and embed, each made once
    Tenants,
    Platform,       \* the internal tenant that embeddings are booked on
    Requests,       \* the requests clients may send, see Request
    Tasks, Contents,
    Routes,         \* RoutingTable.routes: task -> sequence of providers
    DefaultTask,
    Providers,
    Configured,     \* the providers build_providers found credentials for
    EmbedProvider,  \* provider of RoutingTable.embedding_model
    MaxRetries,     \* GatewayConfig.max_retries
    Budget,         \* GatewayConfig.tenant_budget_usd; 0 means no limit
    TTL,            \* GatewayConfig.cache_ttl_seconds, in ticks
    MaxCost,        \* no single completion costs more
    Reliable,       \* the providers that never fail (of the environment)
    MaxTime,        \* bound on the clock
    NoEntry, NoRequest

Operations == {"generate", "stream", "embed"}

\* injected: scan_for_injection finds a signal at or above the threshold.
Request == [op : Operations, tenant : Tenants, task : Tasks, content : Contents,
            cacheable : BOOLEAN, injected : BOOLEAN]

ASSUME GatewayAssumption ==
    /\ IsFiniteSet(Calls)
    /\ Platform \in Tenants
    /\ Requests \subseteq Request
    \* embedder.py books every embedding on the platform tenant, and nothing else.
    /\ \A r \in Requests : (r.op = "embed") <=> (r.tenant = Platform)
    /\ Routes \in [Tasks -> Seq(Providers)]
    /\ DefaultTask \in Tasks
    /\ Configured \subseteq Providers
    /\ EmbedProvider \in Providers
    /\ MaxRetries \in Nat
    /\ Budget \in Nat
    /\ TTL \in Nat
    /\ MaxCost \in Nat
    /\ Reliable \subseteq Providers
    /\ MaxTime \in Nat
    /\ NoRequest \notin Request

VARIABLES
    now,        \* the injected clock
    buckets,    \* InMemoryRateLimiter._buckets
    breakers,   \* AIGateway._breakers
    entries,    \* InMemoryResponseCache._entries
    events,     \* InMemoryUsageLedger._events
    spent,      \* InMemoryUsageLedger._cost_by_tenant
    call,       \* the local state of every call
    peak        \* history: most chat calls of a tenant in progress at once

vars == <<now, buckets, breakers, entries, events, spent, call, peak>>

-----------------------------------------------------------------------------
\* Data.

Phases == {"new", "calling", "sleeping", "yielded", "done"}
Outcomes == {"none", "rate_limited", "over_budget", "unsafe", "no_model",
             "answered", "cached", "failed", "broken", "aborted"}

\* What build_cache_key hashes: the tenant and everything the answer depends on.
Identity == [tenant : Tenants, task : Tasks, content : Contents]
IdentityOf(r) == [tenant |-> r.tenant, task |-> r.task, content |-> r.content]

\* Mutant of CacheKey: the tenant is left out of the key.
CacheKeyUnscoped(r) ==
    [tenant |-> Platform, task |-> r.task, content |-> r.content]

CacheKey(r) == IdentityOf(r)

Entry == [answers : Identity, stored_at : 0..MaxTime, expires_at : Nat]
Event == [call : Calls, tenant : Tenants, cost : 0..MaxCost, cached : BOOLEAN]

\* The positions a plan may have.
Places == UNION {1..Len(Routes[k]) : k \in Tasks}

\* position, attempt: where in its plan the call is, and the retries made
\* there.  usage: the cost of the last usage a stream reported.  answer, age:
\* the identity served and for how long it had been cached.  tries: history,
\* the provider calls made at each position of the plan.
CallState == [phase : Phases, request : Requests \cup {NoRequest}, outcome : Outcomes,
              position : Nat, attempt : 0..MaxRetries, emitted : BOOLEAN,
              usage : 0..MaxCost, answer : Identity \cup {NoRequest}, age : Nat,
              tries : [Places -> Nat]]

NewCall == [phase |-> "new", request |-> NoRequest, outcome |-> "none",
            position |-> 0, attempt |-> 0, emitted |-> FALSE, usage |-> 0,
            answer |-> NoRequest, age |-> 0, tries |-> [i \in Places |-> 0]]

Larger(a, b) == IF a >= b THEN a ELSE b

\* RoutingTable.plan_for.
PlanFor(task) == IF Routes[task] # <<>> THEN Routes[task] ELSE Routes[DefaultTask]
PlanOf(c) == PlanFor(call[c].request.task)
ProviderOf(c) == PlanOf(c)[call[c].position]

\* Mutant of OverBudget: the tenant is blocked only once it is past its budget.
OverBudgetLate(t) == Budget > 0 /\ spent[t] > Budget

\* _enforce_budget.
OverBudget(t) == Budget > 0 /\ spent[t] >= Budget

\* Mutant of Fresh: the expiry is not looked at.
FreshAlways(e) == e # NoEntry

\* InMemoryResponseCache.get finds an entry that has not expired.
Fresh(e) == e # NoEntry /\ now < e.expires_at

\* get evicts what it finds expired.
AfterGet(k) == [entries EXCEPT ![k] = IF Fresh(@) THEN @ ELSE NoEntry]

\* set, which a TTL of 0 turns off.
AfterSet(k, identity) ==
    IF TTL = 0
    THEN entries
    ELSE [entries EXCEPT ![k] = [answers |-> identity, stored_at |-> now,
                                 expires_at |-> now + TTL]]

Running(c) == call[c].phase \in {"calling", "sleeping", "yielded"}
\* The chat calls of t in progress.
InProgress(t) == {c \in Calls : Running(c) /\ call[c].request.tenant = t}

Init ==
    /\ now = 0
    /\ buckets = [t \in Tenants |-> NoBucket]
    /\ breakers = [p \in Configured |-> NewBreaker]
    /\ entries = [k \in Identity |-> NoEntry]
    /\ events = {}
    /\ spent = [t \in Tenants |-> 0]
    /\ call = [c \in Calls |-> NewCall]
    /\ peak = [t \in Tenants |-> 0]

-----------------------------------------------------------------------------
\* Arrival: everything up to the first await of a provider.

Admitted(r) == Grants(buckets[r.tenant], now)
BudgetLeft(r) == r.op = "embed" \/ ~OverBudget(r.tenant)
Safe(r) == r.op = "embed" \/ ~r.injected
Routed(r) == IF r.op = "embed" THEN EmbedProvider \in Configured
                               ELSE PlanFor(r.task) # <<>>
Cleared(r) == Admitted(r) /\ BudgetLeft(r) /\ Safe(r) /\ Routed(r)

LooksUp(r) == r.op = "generate" /\ r.cacheable
Hit(r) == LooksUp(r) /\ Fresh(entries[CacheKey(r)])

Finished(s, why) == [s EXCEPT !.phase = "done", !.outcome = why]

\* The call takes its token, if there is one, before anything else.
Arrives(c, r) ==
    /\ call[c].phase = "new"
    /\ buckets' = [buckets EXCEPT ![r.tenant] = Acquired(@, now)]
    /\ UNCHANGED now

TurnAway(c, r, why) ==
    /\ Arrives(c, r)
    /\ call' = [call EXCEPT ![c] = Finished([NewCall EXCEPT !.request = r], why)]
    /\ UNCHANGED <<breakers, entries, events, spent, peak>>

RefuseRate(c, r) == ~Admitted(r) /\ TurnAway(c, r, "rate_limited")

RefuseBudget(c, r) ==
    Admitted(r) /\ ~BudgetLeft(r) /\ TurnAway(c, r, "over_budget")

RefuseUnsafe(c, r) ==
    Admitted(r) /\ BudgetLeft(r) /\ ~Safe(r) /\ TurnAway(c, r, "unsafe")

\* ModelNotAvailableError: no route, or no configured embedding provider.
RefuseRoute(c, r) ==
    Admitted(r) /\ BudgetLeft(r) /\ Safe(r) /\ ~Routed(r) /\ TurnAway(c, r, "no_model")

ServeCached(c, r) ==
    LET e == entries[CacheKey(r)]
    IN  /\ Arrives(c, r)
        /\ Cleared(r)
        /\ Hit(r)
        /\ call' = [call EXCEPT ![c] =
                       [Finished([NewCall EXCEPT !.request = r], "cached")
                           EXCEPT !.answer = e.answers, !.age = now - e.stored_at]]
        /\ events' = events \cup
                        {[call |-> c, tenant |-> r.tenant, cost |-> 0, cached |-> TRUE]}
        /\ UNCHANGED <<breakers, entries, spent, peak>>

\* The positions from `from` on that the candidate loop may stop at.
Candidates(plan, from, brs) ==
    {i \in from..Len(plan) : plan[i] \in Configured /\ Allows(brs[plan[i]], now)}

\* Mutant of Placed: the retry counter of the previous candidate is kept.
PlacedKeepsAttempt(s, i) ==
    [s EXCEPT !.phase = "calling", !.position = i,
              !.emitted = FALSE, !.usage = 0, !.tries[i] = 1]

\* The next candidate is asked, with all its attempts.
Placed(s, i) == [s EXCEPT !.phase = "calling", !.position = i, !.attempt = 0,
                          !.emitted = FALSE, !.usage = 0, !.tries[i] = 1]

\* The candidate loop: call c, in local state s, goes to the first candidate
\* left, or raises "all candidate providers failed".  brs is the state the
\* breakers are in when the loop gets there.
Seek(c, s, from, brs) ==
    LET plan == PlanFor(s.request.task)
        open == Candidates(plan, from, brs)
    IN  \/ /\ open = {}
           /\ call' = [call EXCEPT ![c] = Finished(s, "failed")]
           /\ breakers' = brs
        \/ \E i \in open :
              /\ \A j \in open : i <= j
              /\ call' = [call EXCEPT ![c] = Placed(s, i)]
              /\ breakers' = [brs EXCEPT ![plan[i]] = MaybeHalfOpen(@, now)]

StartChat(c, r) ==
    /\ Arrives(c, r)
    /\ Cleared(r)
    /\ r.op # "embed"
    /\ ~Hit(r)
    /\ entries' = IF LooksUp(r) THEN AfterGet(CacheKey(r)) ELSE entries
    /\ Seek(c, [NewCall EXCEPT !.request = r], 1, breakers)
    /\ peak' = [peak EXCEPT ![r.tenant] =
                   Larger(@, Cardinality(InProgress(r.tenant) \cup {c}))]
    /\ UNCHANGED <<events, spent>>

\* embed: no budget check, no breaker, no fallback.
StartEmbed(c, r) ==
    /\ Arrives(c, r)
    /\ Cleared(r)
    /\ r.op = "embed"
    /\ call' = [call EXCEPT ![c] = [NewCall EXCEPT !.request = r, !.phase = "calling"]]
    /\ UNCHANGED <<breakers, entries, events, spent, peak>>

-----------------------------------------------------------------------------
\* What a provider does to the call that awaits it.

Awaits(c, op) == call[c].phase = "calling" /\ call[c].request.op = op

MayFail(c) == LET p == IF call[c].request.op = "embed" THEN EmbedProvider ELSE ProviderOf(c)
              IN  p \notin Reliable

\* Mutant of Book: the cost is not added to the tenant's running total.
BookEventOnly(c, cost) ==
    /\ events' = events \cup {[call |-> c, tenant |-> call[c].request.tenant,
                               cost |-> cost, cached |-> FALSE]}
    /\ UNCHANGED spent

\* Mutant of Book: the cost goes to the platform.
BookOnPlatform(c, cost) ==
    /\ events' = events \cup {[call |-> c, tenant |-> call[c].request.tenant,
                               cost |-> cost, cached |-> FALSE]}
    /\ spent' = [spent EXCEPT ![Platform] = @ + cost]

\* One usage event on the ledger, charged to the tenant of the call.
Book(c, cost) ==
    LET t == call[c].request.tenant
    IN  /\ events' = events \cup
                        {[call |-> c, tenant |-> t, cost |-> cost, cached |-> FALSE]}
        /\ spent' = [spent EXCEPT ![t] = @ + cost]

Answer(c, cost) ==
    LET r == call[c].request
    IN  /\ Awaits(c, "generate")
        /\ breakers' = [breakers EXCEPT ![ProviderOf(c)] = RecordSuccess(@)]
        /\ Book(c, cost)
        /\ entries' = IF r.cacheable THEN AfterSet(CacheKey(r), IdentityOf(r)) ELSE entries
        /\ call' = [call EXCEPT ![c] = [Finished(@, "answered") EXCEPT
                                           !.answer = IdentityOf(r)]]
        /\ UNCHANGED <<now, buckets, peak>>

AnswerEmbed(c, cost) ==
    /\ Awaits(c, "embed")
    /\ Book(c, cost)
    /\ call' = [call EXCEPT ![c] = [Finished(@, "answered") EXCEPT
                                       !.answer = IdentityOf(call[c].request)]]
    /\ UNCHANGED <<now, buckets, breakers, entries, peak>>

\* Mutant of Retry: one retry too many.
RetryOneMore(c) ==
    /\ Awaits(c, "generate") \/ Awaits(c, "embed")
    /\ MayFail(c)
    /\ call[c].attempt <= MaxRetries
    /\ call' = [call EXCEPT ![c].phase = "sleeping", ![c].attempt = @ + 1]
    /\ UNCHANGED <<now, buckets, breakers, entries, events, spent, peak>>

\* A ProviderError, or wait_for gives up on the provider: back off and retry.
Retry(c) ==
    /\ Awaits(c, "generate") \/ Awaits(c, "embed")
    /\ MayFail(c)
    /\ call[c].attempt < MaxRetries
    /\ call' = [call EXCEPT ![c].phase = "sleeping", ![c].attempt = @ + 1]
    /\ UNCHANGED <<now, buckets, breakers, entries, events, spent, peak>>

\* Mutant of Wake: the attempts are counted from 0 again after each sleep.
WakeForgetful(c) ==
    /\ call[c].phase = "sleeping"
    /\ call' = [call EXCEPT ![c].phase = "calling", ![c].attempt = 0]
    /\ UNCHANGED <<now, buckets, breakers, entries, events, spent, peak>>

OneMoreTry(tries, i) ==
    [j \in Places |-> IF j = i THEN tries[j] + 1 ELSE tries[j]]

\* The back-off is over.  The breaker is not asked again.
Wake(c) ==
    /\ call[c].phase = "sleeping"
    /\ call' = [call EXCEPT ![c].phase = "calling",
                            ![c].tries = OneMoreTry(@, call[c].position)]
    /\ UNCHANGED <<now, buckets, breakers, entries, events, spent, peak>>

\* Mutant of Failed: all providers share one breaker.
FailedShared(c) == [p \in Configured |-> RecordFailure(breakers[p], now)]

\* The breakers once the provider of c is charged with a failed cycle.
Failed(c) == [breakers EXCEPT ![ProviderOf(c)] = RecordFailure(@, now)]

\* The last retry failed: one failure on the breaker, and on to the next.
GiveUp(c) ==
    /\ Awaits(c, "generate")
    /\ MayFail(c)
    /\ call[c].attempt = MaxRetries
    /\ Seek(c, call[c], call[c].position + 1, Failed(c))
    /\ UNCHANGED <<now, buckets, entries, events, spent, peak>>

GiveUpEmbed(c) ==
    /\ Awaits(c, "embed")
    /\ MayFail(c)
    /\ call[c].attempt = MaxRetries
    /\ call' = [call EXCEPT ![c] = Finished(@, "failed")]
    /\ UNCHANGED <<now, buckets, breakers, entries, events, spent, peak>>

\* A chunk reaches the consumer, which may have told the usage so far.
Chunk(c, u) ==
    /\ Awaits(c, "stream")
    /\ call' = [call EXCEPT ![c].phase = "yielded", ![c].emitted = TRUE, ![c].usage = u]
    /\ UNCHANGED <<now, buckets, breakers, entries, events, spent, peak>>

\* The consumer asks for the next chunk.
Resume(c) ==
    /\ call[c].phase = "yielded"
    /\ call' = [call EXCEPT ![c].phase = "calling"]
    /\ UNCHANGED <<now, buckets, breakers, entries, events, spent, peak>>

EndStream(c) ==
    /\ Awaits(c, "stream")
    /\ breakers' = [breakers EXCEPT ![ProviderOf(c)] = RecordSuccess(@)]
    /\ Book(c, call[c].usage)
    /\ call' = [call EXCEPT ![c] = [Finished(@, "answered") EXCEPT
                                       !.answer = IdentityOf(call[c].request)]]
    /\ UNCHANGED <<now, buckets, entries, peak>>

\* Before the first chunk the stream falls back to the next candidate.
SwitchStream(c) ==
    /\ Awaits(c, "stream")
    /\ MayFail(c)
    /\ ~call[c].emitted
    /\ Seek(c, call[c], call[c].position + 1, Failed(c))
    /\ UNCHANGED <<now, buckets, entries, events, spent, peak>>

\* After it the failure goes to the consumer.
BreakStream(c) ==
    /\ Awaits(c, "stream")
    /\ MayFail(c)
    /\ call[c].emitted
    /\ breakers' = Failed(c)
    /\ call' = [call EXCEPT ![c] = Finished(@, "broken")]
    /\ UNCHANGED <<now, buckets, entries, events, spent, peak>>

\* The task is cancelled, the consumer closes the stream, or an exception that
\* is no ProviderError passes through.  Nothing is recorded anywhere.
Abort(c) ==
    /\ Running(c)
    /\ call' = [call EXCEPT ![c] = Finished(@, "aborted")]
    /\ UNCHANGED <<now, buckets, breakers, entries, events, spent, peak>>

Tick ==
    /\ now < MaxTime
    /\ now' = now + 1
    /\ UNCHANGED <<buckets, breakers, entries, events, spent, call, peak>>

-----------------------------------------------------------------------------
Arrive(c, r) ==
    \/ RefuseRate(c, r)
    \/ RefuseBudget(c, r)
    \/ RefuseUnsafe(c, r)
    \/ RefuseRoute(c, r)
    \/ ServeCached(c, r)
    \/ StartChat(c, r)
    \/ StartEmbed(c, r)

\* A provider call of generate or embed ends, with an answer, an error or the
\* timeout of wait_for.
Resolve(c) ==
    \/ \E cost \in 0..MaxCost : Answer(c, cost) \/ AnswerEmbed(c, cost)
    \/ Retry(c)
    \/ GiveUp(c)
    \/ GiveUpEmbed(c)

Stream(c) ==
    \/ \E u \in 0..MaxCost : Chunk(c, u)
    \/ Resume(c)
    \/ EndStream(c)
    \/ SwitchStream(c)
    \/ BreakStream(c)

Next ==
    \/ \E c \in Calls : \/ \E r \in Requests : Arrive(c, r)
                        \/ Resolve(c)
                        \/ Wake(c)
                        \/ Stream(c)
                        \/ Abort(c)
    \/ Tick

Spec == Init /\ [][Next]_vars

\* wait_for ends every provider call of generate and embed, and the event loop
\* wakes every sleeper.  Streams have no timeout, so nothing is assumed of them.
Fairness == \A c \in Calls : WF_vars(Resolve(c)) /\ WF_vars(Wake(c))

FairSpec == Spec /\ Fairness

-----------------------------------------------------------------------------
TypeOK ==
    /\ now \in 0..MaxTime
    /\ buckets \in [Tenants -> Bucket \cup {NoBucket}]
    /\ breakers \in [Configured -> BreakerRecord]
    /\ entries \in [Identity -> Entry \cup {NoEntry}]
    /\ events \in SUBSET Event
    /\ spent \in [Tenants -> Nat]
    /\ call \in [Calls -> CallState]
    /\ peak \in [Tenants -> Nat]

\* The budget is compared before the call and charged after it, so calls that
\* pass the check together all spend.  Still a tenant never spends beyond its
\* budget by more than the calls it had in progress at once could cost
\* (ai_gateway.py:321-331 against 182).
OvershootBounded ==
    Budget > 0 =>
        \A t \in Tenants \ {Platform} : spent[t] < Budget + MaxCost * Larger(1, peak[t])

\* Whatever was cached, evicted, expired or stored by concurrent calls, a call
\* is answered with a completion produced for its own tenant, task and
\* content, and one from the cache is younger than the TTL.
AnswersMatchRequests ==
    \A c \in Calls :
        call[c].outcome \in {"answered", "cached"} =>
            /\ call[c].answer = IdentityOf(call[c].request)
            /\ call[c].outcome = "cached" => call[c].age < TTL

\* The ledger tells what happened: one event for every answered call, for the
\* call's own tenant and free of charge when it came from the cache, and none
\* for a call that was refused, failed, broke off or was cancelled.
OneEventPerAnswer ==
    \A c \in Calls :
        LET own == {e \in events : e.call = c}
        IN  /\ Cardinality(own) = IF call[c].outcome \in {"answered", "cached"} THEN 1 ELSE 0
            /\ \A e \in own : /\ e.tenant = call[c].request.tenant
                              /\ e.cached <=> call[c].outcome = "cached"
                              /\ e.cached => e.cost = 0

\* The running totals the budget check reads are the sums of the events.
TotalsMatchEvents ==
    \A t \in Tenants :
        spent[t] = MapThenSumSet(LAMBDA e : e.cost, {e \in events : e.tenant = t})

LedgerTellsAll == OneEventPerAnswer /\ TotalsMatchEvents

\* A call moves on from a candidate only when it has used up the retries it
\* has there (a stream has none), or never asked it; and every candidate it
\* reaches gets its full number of attempts again.
RetriesBeforeFallback ==
    \A c \in Calls :
        LET s == call[c]
            allowed == IF s.request.op = "stream" THEN 1 ELSE MaxRetries + 1
        IN  s.position > 0 =>
                /\ \A i \in 1..(s.position - 1) : s.tries[i] \in {0, allowed}
                /\ s.tries[s.position] \in 1..allowed
                /\ s.phase = "calling" => s.tries[s.position] = s.attempt + 1
                /\ s.outcome = "failed" => s.tries[s.position] = allowed
                /\ \A i \in Places : i > s.position => s.tries[i] = 0

\* Failures of some providers never shut out another one: as long as one
\* configured candidate of the route does not fail, no call is told that all
\* candidate providers failed.
ReliableFallbackSuffices ==
    \A c \in Calls :
        (call[c].outcome = "failed" /\ call[c].request.op # "embed") =>
            \A i \in 1..Len(PlanOf(c)) : PlanOf(c)[i] \notin Configured \cap Reliable

\* Every breaker of the gateway keeps its three fields in agreement, with a
\* time of opening that is not in the future, under reports that arrive late
\* and out of order.
BreakersExplained ==
    \A p \in Configured :
        IF breakers[p].state = "closed"
        THEN breakers[p].failures < FailureThreshold /\ breakers[p].opened_at = Never
        ELSE breakers[p].failures = FailureThreshold /\ breakers[p].opened_at \in 0..now

\* The gateway keeps the promise of MeteredCalls.
Metered == INSTANCE MeteredCalls
    WITH Unmetered <- {Platform},
         Nobody <- NoRequest,
         status <- [c \in Calls |-> IF call[c].phase \in {"new", "done"}
                                     THEN call[c].phase ELSE "running"],
         owner <- [c \in Calls |-> IF call[c].request = NoRequest
                                    THEN NoRequest ELSE call[c].request.tenant]
ImplementsMeteredCalls == Metered!Spec

\* Every call of generate and embed that reached a provider comes to an end.
EveryCallEnds ==
    \A c \in Calls :
        (Running(c) /\ call[c].request.op # "stream") ~> call[c].phase = "done"

\* circuit_breaker.py:31 says of OPEN "failing: calls short-circuited": no
\* call is put through to a provider whose breaker is open.
OpenShortCircuits ==
    [][\A c \in Calls :
          (call'[c].phase = "calling" /\ call[c].phase = "sleeping"
             /\ call[c].request.op = "generate")
          => Allows(breakers[ProviderOf(c)], now)]_vars
=============================================================================
