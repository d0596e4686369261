------------------------------ MODULE Service ------------------------------
(***************************************************************************)
(* The HTTP service as a whole: middleware, authentication, routers and    *)
(* handlers, over the workflows, the Core client, the AI gateway and the   *)
(* knowledge base, for several requests at a time.                         *)
(*                                                                         *)
(* A handler gives up the event loop where it waits: for the body of its   *)
(* request, a Core call, the retrieval or the completion of a graph node,  *)
(* a tool call, a readiness probe.  Everything between is one step here,   *)
(* and requests interleave at those points.  They share the clock, the     *)
(* rate buckets of the tenants and of the platform, and the metrics.       *)
(*                                                                         *)
(* Abstractions: Gateway and Retrieval are about what happens inside a     *)
(* node; here it ends with any of their results.  A bucket refills by one  *)
(* call per tick (RateLimiter has the arithmetic).  The clock stops when   *)
(* every token has long expired, and an age when the wall clock of a tool  *)
(* session is up, the only thing it is compared with.                      *)
(***************************************************************************)
EXTENDS Workflows, Tokens, Bags

CONSTANTS
    Requests,
    Deployments,    \* settings a process may be started with
    CallsOf,        \* request -> the calls it may be
    IssuedTokens,   \* the tokens callers have from the start
    Contexts,       \* what a retrieval may come back with
    CoreAnswers,    \* what the Core may answer, see HttpResult
    Tenants, Platform,
    Allowance,      \* calls a bucket holds
    NodeTimeout,    \* of a graph node, in ticks
    CoreTimeout,    \* how long the Core may be silent: httpx's, per operation
    EmbedLimit,     \* the gateway's own limit on an embedding
    CompletionLimit,\* the gateway's own limit on a completion
    MaxBatch,       \* findings a body may have
    MaxTime         \* bound on the clock

NoLimit == -1
Nobody == ""

GraphRoutes == {"enrich", "enrich/by-ids", "ask", "remediate", "map", "financial", "report"}
AIRoutes == GraphRoutes \cup {"correlate"}
CoreRoutes == {"findings", "findings/{id}"}
OpenRoutes == {"health", "health/ready", "version", "metrics", "dev-token"}
Routes == AIRoutes \cup CoreRoutes \cup OpenRoutes \cup {"raw path"}

\* Settings, as far as a request can tell.  promptsDir: the directory of the
\* prompts is there; a key of a provider: it is given.
Settings ==
    [production : BOOLEAN, devLogin : BOOLEAN, publicKey : {"", "pem", "jwk"}, secret : STRING,
     primary : {"fake", "anthropic", "openai_compatible"}, anthropicKey : BOOLEAN,
     openaiKey : BOOLEAN, promptsDir : BOOLEAN, topK : 1..100, core : {"stub", "http"},
     demoSeed : BOOLEAN, store : {"memory", "pgvector"}]

\* Whatever tenant a token names.
TenantTokens == {token \in Token : token.tenant \in Tenants \cup {Nobody}}

ASSUME ServiceAssumption ==
    /\ NodeTimeout \in Nat \ {0} /\ CoreTimeout \in Nat \ {0}
    /\ EmbedLimit \in Nat \ {0} /\ CompletionLimit \in Nat \ {0}
    /\ MaxIterations \in 1..100 /\ WallClock \in Nat \ {0}
    /\ Allowance \in Nat \ {0} /\ MaxTime \in Nat /\ MaxBatch \in Nat \ {0}
    /\ Tenants \cup {Nobody} \subseteq STRING /\ Platform \notin Tenants \cup {Nobody}
    /\ Deployments \subseteq Settings
    /\ IssuedTokens \subseteq TenantTokens
    /\ \A r \in Requests : \A c \in CallsOf[r] :
          /\ c.route \in Routes \ {"raw path"}
          /\ c.items \in Seq(ToSet(c.items))
          /\ c.route = "dev-token" => /\ c.items[1].tenant \in Tenants \cup {Nobody}
                                     /\ c.items[1].ttl \in Nat

VARIABLES
    settings,
    now,
    bucket,     \* calls left in the rate bucket of each tenant
    tokens,     \* the tokens callers have
    req,        \* the requests
    metrics     \* http_requests_total

vars == <<settings, now, bucket, tokens, req, metrics>>

-----------------------------------------------------------------------------
\* Requests.

\* NoCall is a request not sent yet.  tenant: of the AuthContext; since: when
\* it was verified; age: ticks since then; plan: what is still to do, left: the
\* ticks its first node has left, if it waits for something with a limit; made:
\* the answers so far.  spent: history, what was begun on somebody's account and,
\* for retrievals, what came of it.  kept: history, the ticks of age without those
\* it was held up by others; of a Core call, those since the Core was last heard of.
NoCall == [route |-> "none"]
NoToken == [signer |-> Nobody]

Fresh == [phase |-> "idle", call |-> NoCall, token |-> NoToken, tenant |-> Nobody, since |-> 0,
          age |-> 0, kept |-> 0, plan |-> <<>>, left |-> 0, context |-> {}, session |-> OpenSession,
          made |-> <<>>, spent |-> <<>>, status |-> 0]

\* Mutant of RouteLabel: the template is lost when a handler raises.
RouteLabelRaised(call, status) == IF status >= 400 THEN "raw path" ELSE call.route

\* MetricsMiddleware: the template of the matched route, which is known once
\* the request has been routed, and the path before.
RouteLabel(call, status) == IF status = 413 THEN "raw path" ELSE call.route

\* InMemoryMetrics.increment, which the middleware calls however a request ends.
Counted(counters, call, status) ==
    counters (+) SetToBag({<<RouteLabel(call, status), status>>})

\* A response.  What the request knew goes with it: the error envelope of a
\* failed run has nothing of its answers, and history keeps of a success what
\* its answers rest on.
Closed(x, status) ==
    LET done == [Fresh EXCEPT !.phase = "done", !.status = status]
    IN  IF status # 200 THEN done
        ELSE [done EXCEPT !.call = x.call, !.tenant = x.tenant, !.made = x.made,
                          !.spent = x.spent]

Failed(x, error) == Closed(x, StatusFor[error])

\* The requests and the metrics after a step of r that left it as x, and the
\* buckets after it.
Step(r, x, b) ==
    /\ req' = [req EXCEPT ![r] = x]
    /\ bucket' = b
    /\ metrics' = IF x.phase = "done" THEN Counted(metrics, req[r].call, x.status)
                ELSE metrics

-----------------------------------------------------------------------------
\* Nodes.

\* What does not wait at all: the stub of the Core, and the store in memory.
Immediate(node) ==
    \/ node \in {"fetch", "list"} /\ settings.core = "stub"
    \/ node = "probe" /\ settings.store = "memory"

\* The limit on what a node waits for first: wait_for of traced_node, an
\* operation of the HTTP client, or the gateway's own, which is the only one an
\* embedding or a completion has outside a graph.
Limit(node) ==
    IF Immediate(node) THEN 0
    ELSE IF node \in {"retrieve", "generate"} THEN NodeTimeout
    ELSE IF node \in {"fetch", "list"} THEN CoreTimeout
    ELSE IF node = "search" THEN EmbedLimit
    ELSE IF node = "narrate" THEN CompletionLimit
    ELSE NoLimit

PromptOf ==
    LET named == [enrich |-> "enrich_finding", ask |-> "copilot_answer",
                  map |-> "control_mapping", remediate |-> "remediation",
                  financial |-> "financial_rationale", report |-> "report_summary",
                  correlate |-> "risk_narrative"]
    IN  [route \in AIRoutes |-> named[IF route = "enrich/by-ids" THEN "enrich" ELSE route]]

\* Whose bucket a node draws on: embeddings are booked on the platform.
Account(x, node) ==
    IF node \in {"retrieve", "search"} THEN Platform
    ELSE IF node \in {"generate", "narrate"} THEN x.tenant
    ELSE Nobody

\* The gateway's scan of what it is to send: the sources, and a question.
Blocked(x) ==
    /\ x.plan[1].node \in {"generate", "narrate"}
    /\ Tripped(IF x.call.route = "ask" THEN x.plan[1].item.signals ELSE {}, x.context)

\* What stops the first node of the plan of x before it is sent anywhere.
\* RetrievalQuery and the arguments of the search tool bound top_k.
BeginError(x) ==
    LET node == x.plan[1].node
        item == x.plan[1].item
    IN  IF node = "search" /\ CallRefused(x.session, x.age, item) THEN "WorkflowError"
        ELSE IF node = "search" /\ settings.topK > 20 THEN "ValidationError"
        ELSE IF node = "retrieve" /\ settings.topK > 50 THEN "unexpected"
        ELSE IF node \in {"generate", "narrate"} THEN RenderError(settings, PromptOf[x.call.route])
        ELSE "none"

\* The first node of the plan of x begins; without any the handler returns.
\* Pairs of the request and the buckets.  The gateway takes from the bucket of
\* the payer, compares the tenant's spend with its budget, and scans.
Begin(x) ==
    IF x.plan = <<>>
    THEN {<<Closed(x, 200), bucket>>}
    ELSE IF BeginError(x) # "none"
    THEN {<<Failed(x, BeginError(x)), bucket>>}
    ELSE LET node == x.plan[1].node
             payer == Account(x, node)
             begun == [x EXCEPT !.left = Limit(node),
                                !.session = IF node = "search"
                                            THEN Recorded(@, x.plan[1].item) ELSE @]
             paid == [begun EXCEPT !.spent =
                         Append(@, [payer |-> payer, item |-> x.plan[1].item, found |-> {}])]
         IN  IF payer = Nobody
             THEN {<<begun, bucket>>}
             ELSE IF bucket[payer] = 0
             THEN {<<Failed(x, "RateLimitError"), bucket>>}
             ELSE ({IF Blocked(x) THEN Failed(paid, "UnsafeContentError") ELSE paid}
                   \cup (IF payer = x.tenant THEN {Failed(paid, "BudgetExceededError")} ELSE {}))
                  \X {[bucket EXCEPT ![payer] = @ - 1]}

Proceed(r, x) == \E y \in {x} : \E after \in Begin(y) : Step(r, after[1], after[2])

-----------------------------------------------------------------------------
\* Arrival and admission.

Init ==
    /\ settings \in Deployments
    /\ now = 0
    /\ bucket = [t \in Tenants \cup {Platform} |-> Allowance]
    /\ tokens = IssuedTokens
    /\ req = [r \in Requests |-> Fresh]
    /\ metrics = EmptyBag

\* A request comes in, if its route is mounted.
Arrive(r) ==
    /\ req[r].phase = "idle"
    /\ \E call \in CallsOf[r], token \in tokens :
          /\ call.route = "dev-token" => DevLogin(settings)
          /\ req' = [req EXCEPT ![r].phase = "arrived", ![r].call = call, ![r].token = token]
    /\ UNCHANGED <<settings, now, bucket, tokens, metrics>>

\* RequestSizeLimitMiddleware: a body that does not state its length passes.
TooLarge(r) ==
    /\ req[r].phase = "arrived" /\ req[r].call.size = "over"
    /\ Step(r, Closed(req[r], 413), bucket)
    /\ UNCHANGED <<settings, now, tokens>>

\* The schema of the body of a route.
BodyValid(call) ==
    /\ call.valid
    /\ call.route \in {"enrich", "enrich/by-ids", "correlate"} => Len(call.items) \in 1..MaxBatch
    /\ call.route = "report" => Len(call.items) <= 10 * MaxBatch
    /\ call.route \in {"ask", "remediate", "map", "financial"} => Len(call.items) = 1

\* _assert_tenant, in the handlers that are posted findings.
PostsForeign(call, tenant) ==
    /\ call.route \in AIRoutes \ {"ask", "enrich/by-ids"}
    /\ ~SameTenant(tenant, ToSet(call.items))

\* The handlers, up to what they first wait for.
PlanFor(call) ==
    IF call.route = "enrich"
    THEN EnrichmentGraphs(call.items)
    ELSE IF call.route = "enrich/by-ids"
    THEN [i \in DOMAIN call.items |-> At("fetch", call.items[i])]
    ELSE IF call.route = "ask" THEN CopilotGraph(call.items[1])
    ELSE IF call.route = "remediate" THEN RemediationGraph(call.items[1])
    ELSE IF call.route = "map" THEN MappingGraph(call.items[1])
    ELSE IF call.route = "financial" THEN FinancialGraph(call.items[1])
    ELSE IF call.route = "report" THEN ReportGraph(call.items)
    ELSE IF call.route = "correlate" THEN CorrelatePlan(call.items)
    ELSE IF call.route = "findings" THEN <<At("list", call.items[1])>>
    ELSE IF call.route = "findings/{id}" THEN <<At("fetch", call.items[1])>>
    ELSE IF call.route = "health/ready" THEN <<At("probe", "store")>>
    ELSE <<>>

\* The body has been read, or there is none.  FastAPI parses it, then resolves
\* the dependencies, where the token is verified, then checks the schema.
Admit(r) ==
    /\ req[r].phase = "arrived" /\ req[r].call.size # "over"
    /\ LET call == req[r].call
           open == call.route \in OpenRoutes
           refusal == IF open THEN "none" ELSE Verify(req[r].token, settings, now)
           tenant == IF open THEN Nobody ELSE req[r].token.tenant
           x == [req[r] EXCEPT !.phase = "working", !.since = now]
           error == IF ~call.json THEN "ValidationError"
                    ELSE IF refusal # "none" THEN refusal
                    ELSE IF ~BodyValid(call) THEN "ValidationError"
                    ELSE IF PostsForeign(call, tenant) THEN "TenantIsolationError"
                    ELSE "none"
       IN  /\ IF error # "none"
              THEN Step(r, Failed(x, error), bucket)
              ELSE Proceed(r, [x EXCEPT !.tenant = tenant, !.plan = PlanFor(call)])
           /\ tokens' = IF error = "none" /\ call.route = "dev-token"
                        THEN tokens \cup {Mint(settings, call.items[1].tenant,
                                               call.items[1].ttl, now)}
                        ELSE tokens
    /\ UNCHANGED <<settings, now>>

-----------------------------------------------------------------------------
\* What the handlers wait for.

Awaits(r, node) == req[r].phase = "working" /\ req[r].plan[1].node = node

Waiting(r, left, kept) ==
    /\ req' = [req EXCEPT ![r].left = left, ![r].kept = kept]
    /\ UNCHANGED <<settings, now, bucket, tokens, metrics>>

AwaitsCore(r) == Awaits(r, "fetch") \/ Awaits(r, "list")

\* The Core is sending its answer.  Nothing limits how long it may, as httpx
\* times one operation and not the call.
Sending(r) ==
    /\ AwaitsCore(r) /\ settings.core = "http" /\ req[r].left # NoLimit
    /\ Waiting(r, NoLimit, req[r].kept - (CoreTimeout - req[r].left))

\* Nothing more has come yet.
Stalled(r) ==
    /\ AwaitsCore(r) /\ req[r].left = NoLimit
    /\ Waiting(r, CoreTimeout, req[r].kept)

\* The query of a tool call is with the gateway; pgvector has not been asked.
Embedding(x) ==
    /\ x.plan[1].node = "search" /\ settings.store = "pgvector" /\ x.left # NoLimit

\* It is embedded, and now pgvector is asked: neither ToolSession.call nor the
\* executor has a limit.
Embedded(r) ==
    /\ req[r].phase = "working" /\ Embedding(req[r])
    /\ Waiting(r, NoLimit, req[r].kept)

\* A Core call ends.  Ids are fetched and enriched one by one.
Fetched(r) ==
    /\ AwaitsCore(r)
    /\ LET x == req[r]
           one == x.plan[1].node = "fetch"
           seed == StubSeed(settings)
           replies == IF settings.core = "http"
                      THEN {HttpResult(x.tenant, answer) : answer \in
                         {a \in CoreAnswers :
                            one /\ a.valid => \E f \in a.findings : a.findings = {f}}}
                      ELSE IF one THEN {StubGet(seed, x.tenant, x.plan[1].item)}
                      ELSE {StubList(seed, x.tenant, x.plan[1].item)}
       IN  \E reply \in replies :
              IF reply.error # "none"
              THEN Step(r, Failed(x, reply.error), bucket)
              ELSE IF x.call.route = "enrich/by-ids"
              THEN Proceed(r, [x EXCEPT !.plan =
                      EnrichmentGraph(CHOOSE f \in reply.got : TRUE) \o Tail(@)])
              ELSE Proceed(r, [x EXCEPT !.plan = Tail(@), !.made = <<reply.got>>])
    /\ UNCHANGED <<settings, now, tokens>>

\* Ways a retrieval fails: the embedding does, or the table of pgvector.
RetrievalErrors(x) ==
    LET embed == EmbedResults(settings)
    IN  (IF x.left = NoLimit THEN {}
         ELSE (embed \ {"vector", "too few"})
              \cup (IF "too few" \in embed THEN {"unexpected"} ELSE {}))
        \cup (IF settings.store = "pgvector" /\ ~Embedding(x)
              THEN {"EmbeddingModelMismatchError", "unexpected"} ELSE {})

\* Contexts that satisfy the filter of a question or of a search.
ContextsFor(x) ==
    IF x.call.route \in {"ask", "correlate"} /\ x.plan[1].item.framework # "any"
    THEN {c \in Contexts : \A citation \in c : citation[1] = x.plan[1].item.framework}
    ELSE Contexts

\* A retrieval or a search ends: with nothing retrieved the graphs that can
\* abstain do, and the output of a search is scanned.
Retrieved(r) ==
    /\ Awaits(r, "retrieve") \/ Awaits(r, "search")
    /\ LET x == req[r]
           item == x.plan[1].item
           prompt == PromptOf[x.call.route]
       IN  \/ \E error \in RetrievalErrors(x) : Step(r, Failed(x, error), bucket)
           \/ /\ ~Embedding(x)
              /\ \E context \in ContextsFor(x) :
                 LET y == [x EXCEPT !.spent[Len(x.spent)].found = context, !.plan = Tail(@)]
                 IN  IF x.plan[1].node = "search"
                     THEN IF Tripped({}, context)
                          THEN Step(r, Failed(y, "UnsafeContentError"), bucket)
                          ELSE Proceed(r, [y EXCEPT !.context = @ \cup context])
                     ELSE IF Abstains(prompt, context)
                     THEN Proceed(r, [y EXCEPT !.plan = Tail(@),
                                               !.made = Append(@, Abstention(prompt, item))])
                     ELSE Proceed(r, [y EXCEPT !.context = context])
    /\ UNCHANGED <<settings, now, tokens>>

\* The prompt of a finding quotes its evidence, and the fake model the prompt.
TextOf(result, item, route) ==
    IF result # "echo" THEN result
    ELSE IF route = "remediate" /\ item.open THEN "unsafe" ELSE "prose"

\* What a handler answers from a completion.
AnswerTo(x, text) ==
    LET item == x.plan[1].item
        route == x.call.route
    IN  IF route = "ask" THEN CopilotAnswer(item, x.context, text)
        ELSE IF route = "map" THEN ControlMapping(item, x.context, text)
        ELSE IF route = "remediate" THEN RemediationProposal(item, x.context, text)
        ELSE IF route = "financial" THEN FinancialRiskAssessment(item, text)
        ELSE IF route = "report" THEN ReportDraft(item, text)
        ELSE IF route = "correlate" THEN Narrative(item, text)
        ELSE EnrichedFinding(item, x.context, text)

\* A completion ends.  Models may write Terraform that the scan forbids.
Completed(r) ==
    /\ Awaits(r, "generate") \/ Awaits(r, "narrate")
    /\ LET x == req[r]
           route == x.call.route
           results == GenerateResults(settings)
           texts == (results \ (DomainErrors \cup {"unexpected"}))
                    \cup (IF route = "remediate" /\ "prose" \in results THEN {"unsafe"} ELSE {})
       IN  \/ \E error \in results \cap (DomainErrors \cup {"unexpected"}) :
                 Step(r, Failed(x, error), bucket)
           \/ \E result \in texts :
                 LET text == TextOf(result, x.plan[1].item, route)
                     issue == IF route = "remediate" THEN ValidationError(text) ELSE "none"
                 IN  IF issue # "none"
                     THEN Step(r, Failed(x, issue), bucket)
                     ELSE Proceed(r, [x EXCEPT !.plan = Tail(@), !.context = {},
                                               !.made = Append(@, AnswerTo(x, text))])
    /\ UNCHANGED <<settings, now, tokens>>

\* ReadinessService.check: the probes of the providers only count tokens, and
\* that of the store reports what it raises.
Probed(r) ==
    /\ Awaits(r, "probe")
    /\ \E status \in IF settings.store = "pgvector" THEN {200, 503} ELSE {200} :
          Step(r, Closed(req[r], status), bucket)
    /\ UNCHANGED <<settings, now, tokens>>

\* The limit on what a node waits for is up.
TimedOut(r) ==
    /\ req[r].phase = "working" /\ req[r].left = 0 /\ ~Immediate(req[r].plan[1].node)
    /\ LET node == req[r].plan[1].node
           error == IF node \in {"retrieve", "generate"} THEN "WorkflowError"
                    ELSE IF node \in {"fetch", "list"} THEN "DependencyUnavailableError"
                    ELSE IF node = "search" THEN "ProviderTimeoutError"
                    ELSE "ProviderError"
       IN  Step(r, Failed(req[r], error), bucket)
    /\ UNCHANGED <<settings, now, tokens>>

\* Mutant of Refilled: a bucket does not stop at its capacity.
RefilledPast(b) == [t \in DOMAIN b |-> b[t] + 1]

Refilled(b) == [t \in DOMAIN b |-> IF b[t] < Allowance THEN b[t] + 1 ELSE b[t]]

\* Whom nothing limits: a caller that sends its body, a Core that sends its
\* answer, pgvector when a tool or a readiness probe asks it.
HasBody(call) == call.route \in AIRoutes \cup {"dev-token"}
Held(x) ==
    \/ x.phase = "arrived" /\ HasBody(x.call) /\ x.call.size # "over"
    \/ /\ x.phase = "working" /\ x.left = NoLimit
       /\ x.plan[1].node \in {"fetch", "list", "search", "probe"}

\* Timers fire on time: nothing here holds the event loop for long.
Tick ==
    /\ \A r \in Requests : req[r].phase = "working" => req[r].left # 0
    /\ now' = IF now < MaxTime THEN now + 1 ELSE now
    /\ bucket' = Refilled(bucket)
    /\ req' = [r \in Requests |->
                  IF req[r].phase # "working" THEN req[r]
                  ELSE [req[r] EXCEPT !.left = IF @ > 0 THEN @ - 1 ELSE @,
                                      !.kept = IF Held(req[r]) THEN @ ELSE @ + 1,
                                      !.age = IF @ < WallClock THEN @ + 1 ELSE @]]
    /\ UNCHANGED <<settings, tokens, metrics>>

Handle(r) ==
    TooLarge(r) \/ Admit(r) \/ Sending(r) \/ Stalled(r) \/ Embedded(r)
    \/ Fetched(r) \/ Retrieved(r) \/ Completed(r) \/ Probed(r) \/ TimedOut(r)

Next == Tick \/ \E r \in Requests : Arrive(r) \/ Handle(r)

Spec == Init /\ [][Next]_vars

\* What the event loop does by itself.
Prompt(r) ==
    \/ TooLarge(r) \/ TimedOut(r)
    \/ ~Held(req[r]) /\ Admit(r)
    \/ /\ req[r].phase = "working" /\ Immediate(req[r].plan[1].node)
       /\ Fetched(r) \/ Probed(r)

\* The loop runs what is ready, and time passes; nothing says that a caller, the
\* Core, a provider or pgvector ever gets on.
FairSpec ==
    /\ Spec
    /\ WF_vars(Tick)
    /\ \A r \in Requests : WF_vars(Prompt(r))

-----------------------------------------------------------------------------
\* Properties.

\* The types of the state.
TypeOK ==
    /\ settings \in Deployments
    /\ now \in 0..MaxTime
    /\ bucket \in [Tenants \cup {Platform} -> 0..Allowance]
    /\ tokens \subseteq Token
    /\ IsABag(metrics) /\ DOMAIN metrics \subseteq Routes \X Statuses
    /\ \A r \in Requests :
          LET x == req[r]
          IN  /\ x.phase \in {"idle", "arrived", "working", "done"}
              /\ x.call \in CallsOf[r] \cup {NoCall}
              /\ x.tenant \in Tenants \cup {Nobody}
              /\ x.age \in 0..WallClock /\ x.kept \in Int
              /\ x.left \in {NoLimit} \cup 0..(NodeTimeout + CoreTimeout + EmbedLimit
                                               + CompletionLimit)
              /\ (x.phase = "done") <=> (x.status \in Statuses)
              /\ (x.phase = "working") <=> (x.plan # <<>>)

\* Nothing is spent for a request unless all of it was entitled to it from the
\* start: its token was signed by the key this deployment trusts and had not
\* expired when it was verified, its body was within the limits and none of the
\* findings in it, up to the last one of a batch, was another tenant's.  What is
\* spent comes out of the bucket of its own tenant or of the platform, is about
\* a finding of its own tenant, and so is everything it is answered with, even
\* if the Core hands out something else (get_auth_context, _assert_tenant,
\* HttpCoreClient, GatewayEmbedder).
SpendingIsEntitled ==
    \A r \in Requests :
        LET x == req[r]
            Own(f) == f.tenant = x.tenant
        IN  /\ x.phase = "working" /\ x.spent # <<>> =>
                  /\ x.token.signer = VerifierOf(settings).key
                  /\ x.since <= x.token.exp + Leeway
                  /\ x.tenant = x.token.tenant
                  /\ x.call.json /\ x.call.size # "over"
                  /\ x.call.route # "report" => Len(x.call.items) <= MaxBatch
                  /\ x.call.route \in AIRoutes \ {"ask", "enrich/by-ids"} =>
                        \A i \in DOMAIN x.call.items : Own(x.call.items[i])
            /\ \A i \in DOMAIN x.spent :
                  /\ x.spent[i].payer \in {x.tenant, Platform}
                  /\ x.call.route \in {"enrich/by-ids", "map"} => Own(x.spent[i].item)
            /\ x.call.route \in CoreRoutes =>
                  \A i \in DOMAIN x.made : \A f \in x.made[i] : Own(f)

\* Where the retrieval of the i-th answer stands in what was spent: after those
\* of the answers before it and the completions of those that are verified.
RetrievalOf(made, i) == i + Cardinality({j \in 1..(i - 1) : made[j].verified})

\* The i-th answer of x cites what was retrieved for its own item.  It is
\* verified if that is anything, and then a completion follows the retrieval.
RestsOnSources(x, i) ==
    LET answer == x.made[i]
        at == RetrievalOf(x.made, i)
    IN  /\ x.spent[at].payer = Platform
        /\ x.spent[at].item = answer.about
        /\ x.spent[at].found = answer.citations
        /\ answer.verified <=> answer.citations # {}
        /\ IF answer.verified
           THEN x.spent[at + 1].payer = x.tenant /\ x.spent[at + 1].item = answer.about
           ELSE answer.text = "abstention"

\* A grounded request that succeeds has an answer for every item, in order, and
\* each cites exactly what was retrieved for its own item and not for another
\* one of the batch.  It is marked verified if and only if something was, and a
\* completion was paid for in exactly these cases; otherwise it abstains.  A
\* remediation that is handed out passed the scan and is not approved
\* (enrichment.py, copilot.py, mapping.py, remediation.py, grounding.py).
AnswersAreGrounded ==
    \A r \in Requests :
        LET x == req[r]
            n == Len(x.made)
        IN  x.phase = "done" /\ x.status = 200 =>
            /\ x.call.route \in {"enrich", "enrich/by-ids", "ask", "map"} =>
                  /\ n = Len(x.call.items)
                  /\ Len(x.spent) = RetrievalOf(x.made, n + 1) - 1
                  /\ \A i \in 1..n : RestsOnSources(x, i)
            /\ x.call.route \in {"enrich", "ask", "map"} =>
                  \A i \in 1..n : x.made[i].about = x.call.items[i]
            /\ x.call.route = "remediate" =>
                  n = 1 /\ ~ForbiddenIn(x.made[1].text) /\ ~x.made[1].approved

\* The longest the limits can keep a request of each route once it is admitted.
LongestOf(call) ==
    LET n == Len(call.items)
    IN  IF call.route = "enrich" THEN n * 2 * NodeTimeout
        ELSE IF call.route = "enrich/by-ids" THEN n * (CoreTimeout + 2 * NodeTimeout)
        ELSE IF call.route \in {"ask", "remediate", "map"} THEN 2 * NodeTimeout
        ELSE IF call.route \in {"financial", "report"} THEN NodeTimeout
        ELSE IF call.route = "correlate" THEN WallClock - 1 + EmbedLimit + CompletionLimit
        ELSE IF call.route \in CoreRoutes THEN CoreTimeout
        ELSE 0

\* However slow the providers are, and a Core that says nothing, a request is not
\* kept longer than the limits of the nodes it runs allow; that of the risk
\* analyst however many searches it may make, since none begins once its time is
\* up, and it makes no more than its budget (traced_node, ToolSession.call,
\* correlate).  Not counted is the time it is held up by what the code sets no
\* limit to: while the Core is sending, and while pgvector answers a tool or a
\* readiness probe, both of which may take for ever.
AnsweredInTime ==
    \A r \in Requests :
        LET x == req[r]
        IN  /\ x.phase = "working" => x.kept \in 0..LongestOf(x.call)
            /\ x.call.route = "correlate" =>
                  \A i \in DOMAIN x.spent : x.spent[i].payer = Platform => i <= MaxIterations

\* Every request that has come in is answered at most once and counted, in the
\* same step, under its route, or its path if it was not routed, and the status
\* it got.  Each is answered in the end unless it is held up, at the end or again
\* and again, by what the code sets no limit to (metrics_middleware.py:46-58,
\* errors.py).
UnderWay(x) == x.phase \in {"arrived", "working"}
E == INSTANCE Exchange
        WITH RawPath <- "raw path", Unrouted <- {413}, None <- NoCall.route, counted <- metrics,
             route <- [r \in Requests |-> IF UnderWay(req[r]) THEN req[r].call.route
                                          ELSE NoCall.route],
             answer <- [r \in Requests |-> IF req[r].phase = "idle" THEN 0
                                           ELSE IF req[r].phase = "done" THEN req[r].status
                                           ELSE IF Held(req[r]) THEN 2 ELSE 1]

ImplementsExchange == E!Spec
=============================================================================
