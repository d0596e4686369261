SPECIFICATION Spec
CONSTANTS
    Absent = absent
    Searches = {s1}
    Corpora <- MCCorpora
    Questions <- MCQuestions
    Models = {"m1", "m2"}
    Versions = {"v1"}
    Backends = {"memory", "pgvector"}
    CandidateMultiplier = 1
    RerankTopK = 3
    RrfK = 2
    MmrLambda <- MCHalf
    TokenBudget = 128
    ChunkMaxTokens = 64
    Overlap = 1
    BlockFrame = 45
    MaxWrites = 2
INVARIANTS
    TypeOK
    SplitLosesNothing
    ResultFollowsRanks
    ContextIsCited
    ResultsComparable
CHECK_DEADLOCK FALSE
