SPECIFICATION FairSpec
CONSTANTS
    chunk1 = chunk1
    chunk2 = chunk2
    chunk3 = chunk3
    Servers = {s1}
    Clis = {c1}
    Database = db
    Chunks = {chunk1, chunk2, chunk3}
    Corpora <- MCCorpora
    Versions = {"v1", "v2"}
    Models = {"m1", "m2"}
    Backends = {"memory", "pgvector"}
    BatchSize = 2
    MaxCrashes = 1
    MaxRuns = 2
    MaxEdits = 1
    Absent = absent
INVARIANTS
    TypeOK
    MemoryServesWhole
    OneModelUnlessOverlapped
PROPERTIES
    IngestIsComplete
    ReplaceIsClean
    ServersComeUp
CHECK_DEADLOCK FALSE
