# ComplianceIQ in TLA+

ComplianceIQ is a Python service that explains compliance findings with
language models: a FastAPI process (`src/src/complianceiq`) on one asyncio event
loop, a corpus of compliance frameworks it retrieves from, an AI gateway every
model call goes through, and a browser client. This directory holds TLA+ modules
of its parts, TLC configurations that check them on small instances, and TLAPS
proofs for every value of the constants. Paths below are relative to
`src/src/complianceiq` unless they say otherwise; those of the browser client to
`src/frontend/assets/js`.

## 1. Inventory

Everything in the server runs on one event loop and the in-memory adapters never
suspend, so two requests interleave only where a coroutine really waits: a
provider call, a back-off sleep, a yielded stream chunk, a database statement, an
HTTP call to the Core service. A request can be cancelled at each of these points
(30 s node timeouts, clients that hang up).

| Component | State | Operations | Interacts with | What is hard |
|---|---|---|---|---|
| Rate limiter `infrastructure/gateway/rate_limiter.py` | a token bucket per tenant | `acquire` | injected clock | lazy refill across refusals, idle time, a clock set back, rounding |
| Circuit breaker `application/gateway/circuit_breaker.py` | state, failure count, time of opening; one per provider | `allow`, `record_success`, `record_failure` | gateway loop, clock | reports that arrive late and out of order from calls admitted in an earlier state, or never |
| AI gateway `application/gateway/ai_gateway.py`, `retry.py`, `routing.py`, `keys.py`, cache and ledger adapters | response cache, usage ledger, breakers, local state of each call | `generate`, `stream`, `embed` | limiter, breakers, providers, sleeper | check-then-act on the budget, retries inside fallbacks inside timeouts, cancellation |
| Provider adapters `infrastructure/providers` | none | `generate`, `stream`, `embed` | remote APIs | failures and time-outs at any moment |
| Knowledge base `application/knowledge/ingestion.py`, vector and keyword stores | chunks in two stores | `ingest`, `upsert`, `index`, `delete`, `search` | gateway (`embed`) | partial ingestion, restart, two stores that should agree |
| Retrieval `application/knowledge/retrieval.py`, `fusion.py`, `context_assembly.py`, `domain/knowledge/chunking.py` | none of its own | `chunk_document`, `retrieve`, `assemble` | both stores, gateway (`embed`) | ranks, ties, budgets and boundaries; a store that is re-indexed between two statements of a search |
| Workflows `application/graphs` | one graph state per request | enrich, ask, remediate, map, quantify, report | retrieval, gateway | node timeout equal to the gateway's, abstention, which errors escape, batches that are paid for one by one |
| Agents and tools `application/agents`, `application/tools` | iterations, clock and calls of a session | `ToolSession.call`, `correlate` | registry, retrieval | order of checks, budget, loop detection |
| Domain policies `domain/policies` | none | grounding, IaC safety, exposure, tenant checks | workflows, Core client | where each is called, and where not |
| HTTP API `presentation`, `infrastructure/http` | requests under way, request counter | middleware, routers, error mapping | workflows, auth, Core client | which failure becomes which status; nothing may end without one |
| Token verification `infrastructure/auth` | none | `verify`, `mint_hs256_token` | clock, settings | temporal boundaries, the verifier the settings imply |
| Core client `infrastructure/core` | none | `get_finding`, `list_findings` | Core service | answers that are late, wrong or another tenant's |
| Composition `composition.py`, settings | the wired container | `build_app`, `_seed_corpus` | everything | seeding after a restart, settings that do not fit each other |
| Health, metrics, logs `infrastructure/observability`, `application/services/health.py` | counters | probes | everything | requests that end where nobody counts |
| Browser client `auth.js`, `store.js`, `app.js`, `router.js`, `api.js`, `pages/` | session, findings cache, AI results, expiry timer, the page shown, chat history | sign-in/out, navigation, refresh, AI buttons | HTTP API | requests that outlive navigation, expiry and sign-out |

What makes each component correct: the limiter bounds the rate and serves whoever
can pay; a breaker's fields agree, its cool-down is served and it lets go; the
gateway answers a request with its own completion, charges the right tenant once,
bounds the overspend, reaches a healthy fallback and ends every call; the stores
hold the same, complete chunks of each document after a finished ingestion;
retrieval loses no text, keeps what its rankings agree on and cites what it packs;
a request spends only what its caller is entitled to, its answers rest on what was
retrieved for them, and it ends in one response, in time but for what has no limit;
a tool session makes no more calls than its budget; the browser shows the data of the
session and the question it belongs to.

## 2. Plan

| Order | Modules | Question | Status |
|---|---|---|---|
| 1 | `TokenBucket`, `EagerBucket`, `RateLimiter` | does the lazy limiter implement the bucket of its docstring? | checked and proved |
| 2 | `Breaker`, `BreakerDiagram`, `CircuitBreaker` | does the breaker keep its promises under overlapping calls? | checked, safety proved |
| 3 | `Gateway`, `MeteredCalls` | the composition: money, answers, retries, fallback, termination | checked, safety proved |
| 4 | `KnowledgeBase` | ingestion, crash, restart and seeding of two stores | checked, safety proved |
| 5 | `WebConsole` | session, store and pages of the browser under late answers | checked and proved |
| 6 | `Chunking`, `Retrieval` | from documents and questions to a context, while the store is re-indexed | checked, safety proved |
| 7 | `Errors`, `Tokens`, `Findings`, `Providers`, `Workflows`, `Exchange`, `Service` | the service from a request's arrival to its status | checked, safety proved |

Abstract specifications: `EagerBucket`, `BreakerDiagram`, `MeteredCalls` and
`Exchange`. (A corpus that is replaced atomically would not be implemented by 4: see
the hazards of `replace`.) Every safety invariant and action property the passing runs
check is stated by a theorem of section 5. No module uses a `RECURSIVE` operator.

## 3. Modules and how they correspond to the code

**`TokenBucket`** is the arithmetic of one bucket. Floats become integers: a tick
is the unit of time, tokens are counted in units of which a tick refills a whole
number, and the `round(…, 3)` of `_retry_after` is kept as rounding to a multiple
of `Grain` ticks, ties to even as in Python. **`RateLimiter`** is the dictionary
of buckets: `acquire` is one step (no await inside) that is either `Grant` or
`Reject`; `Tick` and `StepBack` are the wall clock. `window`, `promise` and
`ticks` are history variables of an observer. **`EagerBucket`** is the bucket the
docstring describes, refilled at every tick, with no timestamps.

**`Breaker`** has the fields and methods of `CircuitBreaker` as operators on a
record. The failure counter saturates at the threshold, which is all the code
compares it with. **`CircuitBreaker`** runs them under calls that ask (`Admit`)
and later report (`Succeed`, `Fail`) or never do (`Cancel`). Time is relative to
the present, so it is unbounded in a finite state space. **`BreakerDiagram`** is
the diagram of the docstring, for a breaker used by one call at a time.

**`Gateway`** uses both, and adds cache, ledger and the calls. One action is
everything between two suspension points:

| Action | Code |
|---|---|
| `RefuseRate`, `RefuseBudget`, `RefuseUnsafe`, `RefuseRoute` | `_preflight`, `_require_route` raise; the token is taken first in every case |
| `ServeCached` | cache hit in `generate` |
| `StartChat`, `StartEmbed` | up to the first provider call; an expired entry is evicted on the way |
| `Answer`, `AnswerEmbed` | provider returns: breaker, ledger, cache, return |
| `Retry`, `Wake` | `run_with_retry`: `ProviderError` or timeout, back-off, next attempt |
| `GiveUp`, `GiveUpEmbed` | retries used up: breaker charged, next candidate or "all candidate providers failed" |
| `Chunk`, `Resume`, `EndStream` | the consumer's loop over `stream` |
| `SwitchStream`, `BreakStream` | a stream fails before / after its first chunk |
| `Abort` | cancellation, closed stream, or an exception that is no `ProviderError` |

`Seek` is the candidate loop: candidates without credentials or with an open
breaker are skipped. Content, models and prices are abstracted to a content value
and a cost in integer units; back-off delays have no length. `call[c].tries`,
`call[c].age` and `peak` are history. **`MeteredCalls`** is what the gateway
promises about money: begin only with budget left, end once, charge the owner.

**`KnowledgeBase`** is the write path of the corpus. Processes (servers and the
command line tool) run `ingest` over stores that belong to the process (in-memory
backend, and always the keyword index) or to all of them (pgvector):

| Action | Code |
|---|---|
| `Boot` | a server starts with some settings and calls the start-up hook |
| `SkipSeeding`, `StartSeeding` | `_seed_corpus`: `count() > 0` or not |
| `RunCli` | `scripts/ingest_corpus.py`, with or without `--replace` |
| `DeleteVersion` | `replace`: the DELETE, then the keyword index |
| `EmbedBatch` | one call of the gateway in `_embed_chunks` |
| `StoreInMemory` | `upsert` and `index` without an await between them |
| `AdmitModel`, `RefuseModel` | `_guard_upsert_models`, the SELECT of any one row's model |
| `InsertRow` | one INSERT, which commits; after the last one `index` |
| `Crash`, `Edit` | any process ends at any step; the corpus directory changes |

A chunk is what its id hashes, so a changed text is another chunk; of the other
columns only the corpus version and the embedding model are kept. `meddled` and
`overlapped` are history: another process wrote while this one was writing.

**`WebConsole`** is the console in the browser. JavaScript runs one handler at a
time, so an action is a handler up to the await of a request, or what follows the
await (`ListArrives`, `FindingArrives`, `AiArrives`, `TokenMinted`, `RequestFails`).
Requests in flight are a bag of records: what was asked, with whose token, for which
page, and `mounted`, whether the DOM element the continuation holds is still in the
document. Replacing `#app` detaches them all (`ShellReplaced`); a navigation inside
the shell keeps `#view`, which every page renders into, and only detaches the result
box of a finding (`PageReplaced`). A finding stands for its own page, and belongs to
one tenant; the backend refuses the others.

| Action | Code |
|---|---|
| `SignInWithToken`, `MintToken`, `TokenMinted` | `pages/login.js`: a pasted token, or one asked of the backend |
| `SignOut`, `SignOutOfSettings`, `Reload` | user menu (the page stays loaded), settings page (it does not), the browser |
| `Expire`, `ExpiryWatch` | the token's time is over; the interval of `watchExpiry` notices |
| `Navigate`, `Retry`, `Refresh`, `Pick` | routes, the retry and refresh buttons, an AI button |
| `Age` | the list turns 60 s old |

`races` is history: a session that replaced another tenant's without a sign-out, or
a list under way at sign-out (`carried`); a page that replaced one that was still
waiting (`view`); two analyses under way at once (`box`). The invariants claim what
holds outside of these, and the hazards list says what happens in them.

**`Chunking`** is `chunk_document`. A text is the sequence of its sentences, a
sentence its length in characters and its terms, so that everything the code counts
in characters, tokens (a quarter of them) or terms is counted. A chunk is what its
id hashes; `ContentHash` is coarser, as in the code: it does not name the framework.

**`Retrieval`** is a search, from its question to its context. It waits at the
embedding and, with pgvector, at two SELECTs; all the rest is one step.

| Action | Code |
|---|---|
| `Ask` | `retrieve` is called and asks the gateway for the embedding |
| `SearchMemory` | the in-memory store, and everything after it, in one step |
| `Embedded`, `Guard`, `Select` | pgvector: the embedding arrives, `_guard_query_model`, the rows and everything after them |
| `Fail` | any exception at one of these points, or a cancellation |
| `OtherDeletes`, `OtherUpserts` | another process writes to the shared table |

`Fused`, `Reranked`, `Diverse` and `Packed` are `reciprocal_rank_fusion`, `rerank`,
`mmr_select` and `assemble`, on exact fractions: floats only differ where two sums
are equal as fractions and not as floats, and there the code's order is the rounding's.
The two searches may rank their rows in any order, since cosine and BM25 scores
are only used through it. `min_score` is compared after the diversity step, as in the code,
so a threshold can leave fewer than `top_k` rows.

The service is five modules of operators under one of actions. **`Errors`** is the
exception hierarchy and the table of statuses, **`Tokens`** the verifiers and the
minted tokens, **`Findings`** findings, the two Core clients and the policies over
findings, **`Providers`** what the adapters and a gateway over them can come back
with, **`Workflows`** the graphs, their prompts and answers, and the tool session. A
run is a plan, the sequence of the places where it waits; a context is the set of
citations of what was retrieved; a text is blank, prose, unsafe Terraform or an
abstention. **`Service`** runs requests over them:

| Action | Code |
|---|---|
| `Arrive` | a request is routed to the application; `/dev/token` only where it is mounted |
| `TooLarge` | `RequestSizeLimitMiddleware` |
| `Admit` | body parsed, token verified, schema checked, `_assert_tenant`, and the handler up to where it first waits |
| `Sending`, `Stalled` | the Core sends its answer, or has fallen silent again: httpx's timeout is one operation's, not the call's |
| `Embedded` | the query of a tool call is embedded and pgvector is asked, without a limit |
| `Fetched` | a Core call ends: stub, HTTP client, by-ids one after the other |
| `Retrieved` | a retrieve node or a search tool ends: error, abstention or the next node |
| `Completed` | a generate node or the analyst's narrative ends: error, unsafe Terraform or the next item |
| `Probed` | `/health/ready` |
| `TimedOut` | the limit of what a node waits for is up: `traced_node`'s, an operation's of the HTTP client, or the gateway's own |
| `Tick` | the clock, the refill of the rate buckets, the limits |

`Begin` is what stands between two waits: the tool session's budget, the prompt, the
rate bucket of whoever pays, the injection scan. `x.spent` is history: what was begun
on whose account, and what a retrieval found. `x.left` is what is left of the limit on
what x waits for, and `NoLimit` where the code sets none; `Held` says who holds a
request up then: a caller that sends its body, a Core that sends its answer, pgvector
when a tool or a readiness probe asks it. `x.kept` is history: the time x has been
kept without that. "done" is where the ASGI call returns,
after the response was sent and counted. **`Exchange`** is what the HTTP layer
promises of all this: whoever comes in is answered at most once, and counted in the
same step, under its own route (or its path, if it was refused before it was routed);
nothing is left waiting for ever but what an outsider without a limit holds up.

`…Lemmas` and `…Proofs` hold the proofs, `MC…` the instances for TLC. Operators
whose comment says "Mutant of X" are plausible bugs of X; no specification uses
them, they serve to confirm that each property would notice the bug.

## 4. What the runs check

| Run | Shows |
|---|---|
| `rate_limiter` | types, `WindowBound` (burst + refill in any window), `RetryAfterWithinGrain`, refinement of `EagerBucket`, with the clock set back at any moment |
| `circuit_breaker` | fields agree, cool-down served, diagram followed when serial, an open breaker lets go (liveness) |
| `gateway` | `OvershootBounded`, `AnswersMatchRequests`, `LedgerTellsAll`, `RetriesBeforeFallback`, `ReliableFallbackSuffices`, `BreakersExplained`, refinement of `MeteredCalls` |
| `gateway_liveness` | every `generate` and `embed` call that reached a provider ends |
| `knowledge_base` | an ingestion that reports success is complete in both stores, a replace leaves exactly the corpus in its version whatever was there before, the model guard keeps one model unless ingestions overlap, an in-memory server serves all of its corpus or does not serve, and servers come up (liveness) |
| `web_console` | the shell is shown only to a signed-in, watched session; store, list and finding page hold the tenant's own data; the analysis on a page is of its finding and of the highlighted button; the page shown is the routed one; every spinner has its request |
| `retrieval` | no sentence of a split summary is lost or reordered; what both searches agree on survives fusion, and nothing found disappears but by the cuts the settings name; a context has each text once, in order, with its citation, up to the first block that does not fit; a query is compared with vectors of its own model unless the table changed under it |
| `service` | `SpendingIsEntitled`, `AnswersAreGrounded`, `AnsweredInTime` (what the limits can add up to, and what they do not count), and refinement of `Exchange` with its liveness |
| `one_trial_call` (violated) | `circuit_breaker.py:32` says "one trial call allowed"; a half-open breaker admits every call that asks |
| `open_calls` (violated) | `circuit_breaker.py:31` says "calls short-circuited"; a retry does not ask the breaker again |
| `seeded_corpus` (violated) | `composition.py:333-335` promises a queryable knowledge base "with no manual step"; after a crash between two INSERTs the seeding is never completed |
| `signed_out_store` (violated) | `store.js:1-4` says "Holds the current tenant's findings … Cleared on sign-out"; a list under way at sign-out fills the store again |

**Bounds.** `rate_limiter`: two tenants (they only share the clock), a burst of
two calls, waits of one to three ticks with a rounding grain of two so that
rounding goes both ways, five ticks, steps back of one tick. `circuit_breaker`:
three overlapping calls (a report from before, during and after a state change),
threshold two (counting matters), a cool-down of three. `gateway`: three calls,
two tenants with identical requests (so that a key without the tenant would
collide), a route with a fallback, one without, one that falls back to the default
task, a provider without credentials, a reliable provider, one retry, a threshold
of two, a one-tick TTL and a budget that one answer uses up; everything that can
go wrong between two calls can go wrong while a third is watching.
`gateway_liveness`: two calls, three candidates, two retries, all providers
unreliable. `knowledge_base`: one server and one command line tool on one database
(two writers are what every race here takes), two runs of the tool (an ingestion and
a replace, or two with different settings), a corpus of one or three chunks that is
edited once (so that a replace meets chunks that are gone), batches of two (a full
and a short one), two versions, two models, one crash at any step. `seeded_corpus`
needs one server, one crash and nothing else. `web_console`: two tenants with a finding each,
two AI buttons (they only differ in which is pressed by itself), two list pages and
one static page, two requests in flight (a late answer and the one it meets); a
third adds no new pair of handlers that can meet. `retrieval`:
caps, budget and lengths as in the settings (64 and 128 tokens), so that a block that
fits by itself and not together with another occurs; a control that is split in the
middle, one with a sentence over the cap, one with the same text in two frameworks;
all orders of up to four rows in both searches; a table of this model, of another, and
one that another process writes to twice. Searches share nothing but the table, so one
search and one writer are enough. `service`: two requests (everything they share is a
counter or a bucket, and two already empty one), of two tenants; batches of one to
three with a limit of two; searches, nodes and Core calls of one or two ticks; three
tokens (good, at its end, malformed); four deployments that differ in verifier, client,
store, providers, prompts and `retrieval_rerank_top_k`; three contexts (none, clean, one that
trips the scan); seven answers of the Core. Ages stop at `WallClock`, the only thing they are
compared with. `MaxWrites`, `MaxBatch`,
`MaxFlight`, `MaxCrashes`, `MaxRuns`, `MaxEdits`,
`MaxTime`, `MaxTicks`, `MaxBack` and `MaxCost` are the bounds on
counters.

**Deadlock** is not checked in the gateway runs: each call is made once and the
clock is bounded, so the system does stop. `knowledge_base` stops when every
process serves or is finished, `retrieval` when its search is over. `service` is
checked for it: time always passes. `web_console` stops where its bounds leave the user
nothing to do; an empty console waits for its user anyway.

**Fairness.** `circuit_breaker`: time passes, calls keep arriving and each call
ends, because `asyncio.wait_for` bounds every attempt and retries are finite.
`gateway_liveness`: each provider call of `generate` and `embed` is resolved
(`wait_for`) and each sleeper wakes (`asyncio.sleep`). `knowledge_base`: a server keeps moving (`docker-compose.yml`
restarts one that ended, each embedding call is bounded by the gateway); the tool
need not. `web_console` needs none: `ShellIsGuarded` keeps the interval running
wherever the shell is shown, and an interval fires. `service`: time passes,
and the event loop runs what is ready (`Prompt`): a request that is all there is admitted,
a limit that is up is noticed, and what does not wait goes on. Nothing is assumed of
callers, the Core, the providers or pgvector: a request is answered because what it
waits for has a limit, and where that is not so it may be held up for ever. Nothing
is assumed of streams, which have no timeout, of clients, or of the clock.

## 5. What is proved

All proofs are checked by TLAPS for every value of the constants, from the named
`ASSUME`s of the modules. These say what the settings enforce (a call costs at least
one unit and fits the bucket, threshold, cool-down, batch size and limits are positive,
the searches' parameters are in the ranges of `settings.py`, the weight of relevance
and a query's threshold are fractions, the former at most one), what the values are
(tenants are strings and the platform's own, `_platform` in `embedder.py`, is none of
them and not empty, the documents of a corpus have distinct ids, the body of a request
is a finite sequence, an issued token names a tenant and a key, a text has finitely many
words and the corpora finitely many rows), and that the bounds are
numbers. Each is evaluated by the runs.

* **RateLimiterProofs.** `TypeCorrect`; `RateBounded`: `WindowBound` is inductive
  together with the types once a bucket's worth is written as `Level`, because a
  tick, a grant and a step back change `Level` exactly as the window allows
  (`LevelAfterTick`, `LevelAfterStepBack`, `LevelAtUpdate` in `GatewayLemmas`).
  `RetryAfterIsEnough`: a refusal leaves a bucket that is worth a call at the promised
  time and a grain more, since rounding loses less than a grain (`RoundedLoses`,
  `RetryAfterRefills`), and nothing but another call of the tenant changes that
  (`PromiseInv`). `LazyImplementsEager`: each step of the lazy limiter is a step of the
  eager one.
* **CircuitBreakerProofs.** `TypeCorrect`, `FieldsAgree` and `CoolDownIsServed` from an
  inductive invariant that adds the age of `opened_at` to the agreement of the fields;
  `SerialDiagram` needs in addition that a lone call in flight never sees the breaker
  open (`SerialInv`).
* **GatewayProofs.** The inductive invariant `IInv` adds to the types what TLC's
  invariants leave unsaid: a call in progress stands at a configured candidate of
  its plan and every reliable candidate lies ahead of it (`CallInv`), an entry of
  the cache carries the identity it is stored under (`EntriesInv`), and the breaker
  of a reliable provider is closed (`ReliableClosed`). From it follow `TypeCorrect`,
  `AnswersAreOwn`, `FallbackReached` and, with `ExplainedSteps` of `GatewayLemmas`,
  `BreakersAgree`. `RetriesComeFirst`: `TriesInv` keeps the number of provider calls at
  the present candidate in step with the attempt, one less while the call sleeps, and
  none at the candidates ahead; without it `Wake` could start an attempt too many.
  `OneEventEach`: a call that is answered has exactly one event in the ledger, its own
  (`LedgerInv`). `LedgerIsComplete` adds the totals, which are sums over the set of
  events, finitely many (`TotalsInv`), and adding one that was not there adds its cost
  (`BookedTotals`). A sum is a recursion that takes one element at a time, in an order
  nobody chose; that it is the same in any order (`TotalWithout`) is shown by taking a smallest set where it is not
  (`LeastSubset`, from the well-foundedness of the strict subsets of a finite set). For
  the money every step is one of five kinds (`StepKinds`:
  a call is disposed of, begins, is charged, is dropped, or goes on).
  `OvershootIsBounded` follows from `BudgetInv`, which sets the cost of the calls
  in progress aside from the moment they begin; `GatewayIsMetered` maps each kind
  to the action of `MeteredCalls` of that name, the last one to a stutter.
* **KnowledgeBaseProofs.** `IInv` is the types and four parts. `StagesInv`: a process that
  stores something has embedded all of it, which a step that finishes needs to know.
  `MemoryInv`: a process finds its own memory empty until it stores everything at once;
  hence `MemoryIsWhole`. `ModelInv`: unless ingestions overlapped, the row the model
  guard reads stands for the whole table, and while rows are inserted they are all of
  the writer's model; hence `ModelsNeverMix`. `UndisturbedInv`: what a process has
  inserted is still there unless another one wrote meanwhile, and a replace has nothing
  else under its version from its DELETE on; hence the action properties
  `IngestionsComplete` and `ReplacesClean`, for any corpus, batch size and number of
  processes, crashes and edits. Both look at the step that completes an ingestion
  (`HowItCompletes`), in memory the only one that writes, in the database the last INSERT.
* **WebConsoleProofs.** None of the five invariants of the run is inductive, since an
  answer writes to the element it holds, and the invariants do not speak of answers under
  way. `IInv` says of each request in flight what it agrees with (`Fits`): its element is
  in the document only if the login view is not shown, and then it is for the session,
  page, finding and button of the view, unless the history in `races` says how it came
  to be otherwise; of the view, what it agrees with in the session, the route and its own
  parts (`Shows`); and that what spins has its request (`Spins`). `TypeCorrect`, `Guarded`,
  `OwnIsShown`, `AnalysisMatches`, `RouteIsShown` and `SpinnersAwait` follow from it. The
  proof rests on lemmas about what sending, handling and detaching do to the bag of
  requests (`SentBag`, `HandledBag`, `LoosenedBag`), and on `RenderLeaves` and `BootLeaves`,
  which every navigation, sign-in, sign-out, reload and expiry goes through. `MaxFlight`
  only bounds the model.
* **RetrievalProofs.** `SplitIsWhole`: `_split_summary` is a fold over the sentences, which
  the community modules define by recursion over the subsets of its places. `IsFold` says
  what such a function is, `FoldsExist` that there is one and `FoldSteps` what it makes of
  one more place; `OnSubsets` and `UpTo` are the inductions, by least counterexample. The
  invariant of the loop is `IsSplit`: there are places where the parts end, and each part is
  the tail of the part before joined with the sentences from one such place to the next
  (`SplitStep`). Put together the pieces are the summary (`Flattened`).

  `Typed`, `Follows` and `Cites` are about one `retrieve` from the embedded question to its
  context; a lemma says what each stage computes, for any input.
  Scores are fractions in lowest terms, so there is a greatest common divisor, a recursion
  on pairs (`GcdsExist`, `GcdDivides`); `FracLess` and `PlusGrows`, `MinusGrows`,
  `TimesGrows`, `OverGrows` say that the arithmetic keeps the order (`Ordered`). A stable
  sort is a permutation that puts nothing behind what it is ahead of (`Ranked`,
  `ByScoreIs`). `FusedIs`: the two lists as one, each chunk once, by its fused score, and
  `FusedRanks`: a chunk no list ranks below another one scores more. `RerankedIs`;
  `DiverseIs`: MMR picks as many as are asked for, none twice, and the best first, since
  nothing is alike to an empty selection and a weight that is not negative keeps the order of
  the scores (`BestFirst`); `KeptIs`: the threshold. `ListsAre` chains them and `FoundRight`
  draws the three properties from it. `PackedIs` is the invariant of the loop that packs the
  blocks (`PackedStep`), `ContextTokens` bounds what rounding each block down loses, and
  `ContextCited` is the property. A search ranks and packs in one step, so under
  interleaved searches and writes it is enough that the tables hold stored rows, no chunk
  twice, and that what a finished search found stays as it was (`RInv`). Two results may
  have one text, of two frameworks: the context holds the first of them, and
  `ContextIsCited` says *the first*; that it is some result of that text would leave their
  order open, and could not be proved.

  `Comparable`: the guard of a search reads the model of one row of the table, so
  `ResultsComparable` needs to know that this row stands for all. `IInv` adds `OneModel` (the guard of `upsert` keeps the table at one model),
  `GuardHolds` (a search past its guard still sees its own model, unless a write has
  marked it) and `Shape`. What the rankings do is left unexpanded here but for
  `RankedRows`: a ranking, however short it is cut, has only rows of what it ranks.
  `StorageAssumption` says that only finitely many rows can be stored.
* **ServiceProofs.** Requests share only the clock, the buckets, the tokens and the metrics,
  so `IInv` is about one request at a time (`RequestInv`). A handler decides on a plan and
  begins its first node in one step; `Ready` says what must hold in between: what was spent
  is on the caller's own account or the platform's (`Booked`), the caller is entitled to the
  route (`Entitled`), and the rest of the plan is about its own findings, but for what is
  still to be fetched and will be checked then (`PlanOwn`, `PlanFits`). `BeginIs` and
  `ProceedIs` lead from `Ready` to every state it may leave the request in, so each
  handler only shows that its plan is `Ready`. From it follow `TypeCorrect` and
  `EntitledOnly`. `AnsweredOnce`: every step maps to one of `Exchange` or a stutter; it is the
  safety part of `ImplementsExchange`. `TimeIsBounded`: `AnsweredInTime` says nothing of the
  nodes ahead, so `TimesInv` adds, per shape of plan, that the time a request has been kept, what
  may still remain of its node (`Remains`: a Core that is sending may yet fall silent for
  all of its limit) and the limits of the nodes after it fit into what its route may take
  (`PlainUnderway`, `IdsUnderway`, `AnalystUnderway`); a node that ends early only leaves
  room. `Timed` says which nodes may be without a limit, and that a Core call has been kept
  for what its limit has lost. For the analyst it is the session's clock that stops the searches, and its count of
  iterations that bounds what is spent (`Accounted`). `AnswersRest`: `AnswersAreGrounded` is
  about requests that have been answered, and says nothing of how a handler gets there.
  `GroundsInv` says of a request under way which of its items have an answer and which
  nodes the others still have in the plan (`PairsLeft`, and `IdsLeft` where findings are
  fetched one by one), that every answer so far rests on its own entries of what was spent
  (`RestsOnSources`), and that the context at hand is what the last retrieval, for the item
  at hand, came back with (`Sourced`). `Settled` is the same between two nodes; a handler
  shows that it leaves the request `Settled`, or ends it with an error. A context
  that outlived its item, or an answer kept for the next item, would break it.

Only model-checked, because the provers cannot reach it: liveness (`OpenEnds`,
`EveryCallEnds`, `ServersComeUp` and the answers `Exchange` promises eventually). What the
four violated runs show needs no proof.

## 6. Not modelled, and disagreements between text and code that no run shows

Not modelled: the text of prompts and completions, token counting by providers, the
regular expressions of the injection and Terraform scans, the request and response
bodies of the provider adapters, logging, durations and gauges, HTTP framing, the
offline evaluation. In `Service` the inside of a gateway call and of a retrieval are
left to `Gateway` and `Retrieval`: a node there ends with any of their results. The
allow-list and the approval gate of a tool session are never reached by the one agent
that opens sessions, and its audit log is not kept. Of the browser: charts, filters and
sorting, the dashboard's insight, the status pill, the theme, and the chat, report,
risk, framework and knowledge pages.

Limits are parameters: `CoreTimeout` is httpx's on one operation, and any number of
them may follow each other in one Core call; `EmbedLimit` and `CompletionLimit` are all
the gateway may take for an embedding or a completion, with its retries. The search in
pgvector has none in a tool call (`base.py:110`, `psycopg_executor.py:36-51`), nor
when it is probed: `correlate` and `/health/ready` can hang there, which the model
does too, and `AnsweredInTime` and `ImplementsExchange` say so. A wait that
`wait_for` cancels is assumed to end then, also one for pgvector in a graph node.

Noted while reading:

* `domain/llm/usage.py:3` says every model call emits a usage event; a stream that
  is abandoned or breaks off emits none.
* `application/gateway/config.py:29` calls the budget a maximum; calls in progress
  together exceed it (by no more than `OvershootBounded` says).
* `application/knowledge/embedder.py:4-6` mentions budgeting; `embed` has no budget check.
* `domain/exceptions.py:118-125` describes `ModelNotAvailableError` as "every
  candidate unconfigured"; `generate` raises `ProviderError` then.
* `infrastructure/gateway/rate_limiter.py:63` says the wait is enough; it is
  rounded to a millisecond, possibly down.
* The workflow nodes' limit equals the gateway's request timeout, so a provider
  that hangs is cut off by the node: no retry, no fallback, no failure on its breaker.
* `docs/PHASE_3_STUDY_GUIDE.md:647-649` calls `replace` the basis of updates
  "without downtime"; the version is deleted before its new chunks are embedded.
* `infrastructure/knowledge/pgvector_store.py:14-15` says that all stored chunks
  share one model; two ingestions that overlap can mix two, which is why the
  property is `OneModelUnlessOverlapped`.
* `pages/finding.js:7` says re-opening a finding does not spend a model call again;
  it does while the first one is under way.
* `api.js:1-4` says every failure becomes an `ApiError`; a body that breaks off while
  `res.text()` reads it does not, and is read without a timeout.
* `pages/copilot.js:72` writes an answer to the last entry of the history, which is
  another question's when two are under way; the history and the last report
  (`pages/reports.js:18`) survive signing out.
* `application/knowledge/ingestion.py:12-13` says `replace` deletes an old version;
  it deletes the one about to be written.

* `application/knowledge/context_assembly.py:22-30` promises a context within the
  budget; blocks are rounded down one by one, so it can be over by some tokens (two
  blocks of 128 together are 130), which is what `ContextIsCited` allows.
* `domain/exceptions.py:119,135` gives `ModelNotAvailableError` and
  `ProviderTimeoutError` statuses of their own (503, 504); the table of
  `presentation/errors.py:42-54` has no row for them, so they are answered with 500 and 502.
* `composition.py:259` takes a public key in any format but an RSA JWK for none; a token
  whose payload is not ASCII is answered with 500 and not with 401.
* `application/graphs/_common.py:113-114` says that a node's timeout or error is raised as
  a `WorkflowError`; only the timeout is, an error of the node passes through as it is.
* `settings.retrieval_rerank_top_k` may be 100; above 50 `RetrievalQuery` refuses every search
  of the graphs (500), above 20 the search tool refuses its arguments (422).
* Two findings that read the same trip the loop detector of `agents/base.py:101`, so
  `correlate` answers a legal batch with 500.
* With the fake provider a finding whose evidence names `0.0.0.0/0` cannot be
  remediated: the echoed evidence fails the Terraform scan.
* A missing prompts directory is not noticed at start-up: readiness says 200 and every
  AI route that renders a prompt answers 500.
* Citations are verified against the sources they were taken from
  (`graphs/enrichment.py`, `remediation.py`), so none is ever unverified; remediation,
  correlation, reports and financial texts have no abstention.
* `infrastructure/core/http_client.py:84-97` checks the tenant of what it is given and
  not that it is the finding that was asked for.
* An unrouted request is counted under its raw path (`metrics_middleware.py:62-71`).

The connection pool of the pgvector store is taken to be open, which is up to the
deployment, and its SQL to be executed as written; the conversion of placeholders
in `psycopg_executor.py` is taken to be right.
