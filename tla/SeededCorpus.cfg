SPECIFICATION Spec
CONSTANTS
    chunk1 = chunk1
    chunk2 = chunk2
    chunk3 = chunk3
    Servers = {s1}
    Clis = {}
    Database = db
    Chunks = {chunk1, chunk2, chunk3}
    Corpora <- LargeCorpus
    Versions = {"v1"}
    Models = {"m1"}
    Backends = {"pgvector"}
    BatchSize = 2
    MaxCrashes = 1
    MaxRuns = 0
    MaxEdits = 0
    Absent = absent
INVARIANT AutoloadMakesSearchable
CHECK_DEADLOCK FALSE
