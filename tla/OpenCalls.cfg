\* As GatewayLiveness.cfg, against what the source says of an open breaker.
SPECIFICATION Spec
CONSTANTS
    p0 = p0
    p1 = p1
    p2 = p2
    alice = alice
    bob = bob
    task1 = task1
    task2 = task2
    task3 = task3
    x = x
    Calls = {c1, c2}
    Tenants = {alice, bob, platform}
    Platform = platform
    Tasks = {task1, task2}
    Contents = {x}
    Requests <- PlainRequests
    Routes <- LoneRoutes
    DefaultTask = task2
    Providers = {p0, p1, p2}
    Configured = {p1, p2}
    EmbedProvider = p1
    Reliable = {}
    MaxRetries = 2
    Budget = 1
    MaxCost = 1
    TTL = 1
    MaxTime = 1
    FailureThreshold = 1
    ResetTicks = 1
    Capacity = 2
    Refill = 1
    CallCost = 1
    Grain = 1
    NoBucket = NoBucket
    Never = Never
    NoEntry = NoEntry
    NoRequest = NoRequest
PROPERTY OpenShortCircuits
CHECK_DEADLOCK FALSE
