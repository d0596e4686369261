SPECIFICATION FairSpec
CONSTANTS
    r1 = r1
    r2 = r2
    Requests = {r1, r2}
    Deployments <- MCDeployments
    CallsOf <- MCCallsOf
    IssuedTokens <- MCTokens
    Contexts <- MCContexts
    CoreAnswers <- MCCoreAnswers
    Signals <- MCSignals
    Tenants = {"tenant-a", "tenant-b"}
    Platform = "platform"
    Allowance = 2
    NodeTimeout = 1
    CoreTimeout = 1
    EmbedLimit = 2
    CompletionLimit = 1
    WallClock = 2
    MaxIterations = 2
    MaxBatch = 2
    MaxTime = 2
    Leeway = 1
INVARIANTS
    TypeOK
    SpendingIsEntitled
    AnswersAreGrounded
    AnsweredInTime
PROPERTIES
    ImplementsExchange
