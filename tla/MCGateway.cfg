\* Three calls at once for four kinds of request, one retry, a breaker that two
\* failed cycles open for one tick, and a budget that one call uses up.
SPECIFICATION Spec
CONSTANTS
    p0 = p0
    p1 = p1
    p2 = p2
    alice = alice
    bob = bob
    task1 = task1
    task2 = task2
    task3 = task3
    x = x
    Calls = {c1, c2, c3}
    Tenants = {alice, bob, platform}
    Platform = platform
    Tasks = {task1, task2, task3}
    Contents = {x}
    Requests <- MixedRequests
    Routes <- SomeRoutes
    DefaultTask = task1
    Providers = {p0, p1, p2}
    Configured = {p1, p2}
    EmbedProvider = p0
    Reliable = {p2}
    MaxRetries = 1
    Budget = 1
    MaxCost = 1
    TTL = 1
    MaxTime = 1
    FailureThreshold = 2
    ResetTicks = 1
    Capacity = 2
    Refill = 1
    CallCost = 1
    Grain = 1
    NoBucket = NoBucket
    Never = Never
    NoEntry = NoEntry
    NoRequest = NoRequest
SYMMETRY AnyCall
INVARIANTS TypeOK OvershootBounded AnswersMatchRequests LedgerTellsAll
    RetriesBeforeFallback ReliableFallbackSuffices BreakersExplained
PROPERTY ImplementsMeteredCalls
CHECK_DEADLOCK FALSE
