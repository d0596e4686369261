--------------------------- MODULE KnowledgeBase ---------------------------
(***************************************************************************)
(* The write path of the knowledge base: IngestionService.ingest           *)
(* (application/knowledge/ingestion.py) run by servers that seed their     *)
(* corpus at start-up (_seed_corpus in composition.py) and by the command  *)
(* line tool (scripts/ingest_corpus.py), over the two vector stores and    *)
(* the keyword index of infrastructure/knowledge.                          *)
(*                                                                         *)
(* With the in-memory backend a process has its own vector store, with     *)
(* pgvector all processes share one table; the keyword index always lives  *)
(* in the process.  An action is what a process does between two awaits    *)
(* that suspend: an embedding batch, or one SQL statement, each of which   *)
(* commits by itself.                                                      *)
(*                                                                         *)
(* Abstractions: a chunk is the value its id hashes (framework, control,   *)
(* part and text); documents are the sequence of their chunks; of the rest *)
(* of a row only the corpus version and the embedding model are kept.      *)
(***************************************************************************)
EXTENDS Naturals, FiniteSets, Sequences, Functions

CONSTANTS
    Servers, Clis,
    Database,       \* names the shared table
    Chunks,
    Corpora,        \* what the corpus directory may hold
    Versions,       \* settings.knowledge_corpus_version
    Models,         \* settings of the embedding model
    Backends,       \* settings.vector_store
    BatchSize,      \* _EMBED_BATCH
    MaxCrashes, MaxRuns, MaxEdits,  \* bounds on the environment
    Absent

Procs == Servers \cup Clis
Row == [version : Versions, model : Models]

ASSUME KnowledgeAssumption ==
    /\ Servers \cap Clis = {}
    /\ Database \notin Procs
    /\ Corpora \subseteq {s \in Seq(Chunks) : IsInjective(s)}
    /\ Backends \subseteq {"memory", "pgvector"}
    /\ BatchSize \in Nat \ {0}
    /\ MaxCrashes \in Nat /\ MaxRuns \in Nat /\ MaxEdits \in Nat
    /\ Absent \notin Row \cup Versions \cup Models

VARIABLES
    backend,    \* the deployment's vector store
    disk,       \* the documents in the corpus directory
    rows,       \* the vector stores: of each process, and the shared one
    keyword,    \* InMemoryKeywordIndex._docs of each process
    proc,       \* where each process is
    meddled,    \* history: another process wrote during p's ingestion
    overlapped, \* history: that happened to some process
    crashes, runs, edits

vars == <<backend, disk, rows, keyword, proc, meddled, overlapped, crashes, runs, edits>>

-----------------------------------------------------------------------------
Phases == {"down", "counting", "deleting", "embedding", "guarding", "inserting",
           "serving", "finished"}

\* version, model, replace, autoload: settings and options of this start.
\* docs: the chunks being ingested, embedded and stored: how many of them are.
ProcState == [pc : Phases, version : Versions \cup {Absent}, model : Models \cup {Absent},
              replace : BOOLEAN, autoload : BOOLEAN, docs : Corpora \cup {<<>>},
              embedded : Nat, stored : Nat]

Started(pc, v, m, replace, autoload, docs) ==
    [pc |-> pc, version |-> v, model |-> m, replace |-> replace,
     autoload |-> autoload, docs |-> docs, embedded |-> 0, stored |-> 0]

Down == Started("down", Absent, Absent, FALSE, FALSE, <<>>)

NoRows == [c \in Chunks |-> Absent]

\* The vector store p reads and writes, and what it holds.
StoreOf(p) == IF backend = "pgvector" THEN Database ELSE p
Held(p) == {c \in Chunks : rows[StoreOf(p)][c] # Absent}
HeldAs(p, v) == {c \in Held(p) : rows[StoreOf(p)][c].version = v}
ModelsIn(p) == {rows[StoreOf(p)][c].model : c \in Held(p)}
Indexed(p) == {c \in Chunks : keyword[p][c] # Absent}

RowOf(p) == [version |-> proc[p].version, model |-> proc[p].model]

Init ==
    /\ backend \in Backends
    /\ disk \in Corpora
    /\ rows = [s \in Procs \cup {Database} |-> NoRows]
    /\ keyword = [p \in Procs |-> NoRows]
    /\ proc = [p \in Procs |-> Down]
    /\ meddled = [p \in Procs |-> FALSE]
    /\ overlapped = FALSE
    /\ crashes = 0 /\ runs = 0 /\ edits = 0

-----------------------------------------------------------------------------
\* What ingestions do to each other.

\* p has started to change the store, or has based a decision on it, and is
\* not done.
Writing(p) == \/ proc[p].pc = "inserting"
              \/ proc[p].replace /\ proc[p].pc \in {"embedding", "guarding"}

Disturbs(p, q) == q # p /\ Writing(q) /\ StoreOf(q) = StoreOf(p)

\* p writes to its store.
Meddles(p) ==
    /\ meddled' = [q \in Procs |-> meddled[q] \/ Disturbs(p, q)]
    /\ overlapped' = (overlapped \/ \E q \in Procs : Disturbs(p, q))

\* p begins to write; what others did before does not matter to it.
BeginsWriting(p) ==
    /\ meddled' = [q \in Procs |-> q # p /\ (meddled[q] \/ Disturbs(p, q))]
    /\ overlapped' = (overlapped \/ \E q \in Procs : Disturbs(p, q))

-----------------------------------------------------------------------------
\* The memory of a process is gone when it ends.
Forgets(p) ==
    /\ rows' = [rows EXCEPT ![p] = NoRows]
    /\ keyword' = [keyword EXCEPT ![p] = NoRows]

Ends(p) ==
    /\ proc' = [proc EXCEPT ![p] = Down]
    /\ Forgets(p)

Boot(s) ==
    /\ proc[s].pc = "down"
    /\ \E v \in Versions, m \in Models, autoload \in BOOLEAN :
           proc' = [proc EXCEPT ![s] =
                       Started(IF autoload THEN "counting" ELSE "serving",
                               v, m, FALSE, autoload, <<>>)]
    /\ UNCHANGED <<backend, disk, rows, keyword, meddled, overlapped, crashes, runs, edits>>

\* _seed_corpus leaves a store that holds anything alone.
SkipSeeding(s) ==
    /\ proc[s].pc = "counting"
    /\ Held(s) # {} \/ disk = <<>>
    /\ proc' = [proc EXCEPT ![s].pc = "serving"]
    /\ UNCHANGED <<backend, disk, rows, keyword, meddled, overlapped, crashes, runs, edits>>

\* Mutant of StartSeeding: the count is not looked at.
StartSeedingAlways(s) ==
    /\ proc[s].pc = "counting"
    /\ disk # <<>>
    /\ proc' = [proc EXCEPT ![s].pc = "embedding", ![s].docs = disk]
    /\ UNCHANGED <<backend, disk, rows, keyword, meddled, overlapped, crashes, runs, edits>>

StartSeeding(s) ==
    /\ proc[s].pc = "counting"
    /\ Held(s) = {} /\ disk # <<>>
    /\ proc' = [proc EXCEPT ![s].pc = "embedding", ![s].docs = disk]
    /\ UNCHANGED <<backend, disk, rows, keyword, meddled, overlapped, crashes, runs, edits>>

RunCli(c) ==
    /\ proc[c].pc \in {"down", "finished"}
    /\ runs < MaxRuns
    /\ disk # <<>>
    /\ \E v \in Versions, m \in Models, replace \in BOOLEAN :
           proc' = [proc EXCEPT ![c] =
                       Started(IF replace THEN "deleting" ELSE "embedding",
                               v, m, replace, FALSE, disk)]
    /\ Forgets(c)
    /\ runs' = runs + 1
    /\ UNCHANGED <<backend, disk, meddled, overlapped, crashes, edits>>

Without(table, v) ==
    [c \in Chunks |-> IF table[c] # Absent /\ table[c].version = v THEN Absent ELSE table[c]]

\* Mutant of DeleteVersion: only the keyword index is cleared.
DeleteVersionFromIndex(p) ==
    /\ proc[p].pc = "deleting"
    /\ keyword' = [keyword EXCEPT ![p] =
                      [c \in Chunks |-> IF @[c] = proc[p].version THEN Absent ELSE @[c]]]
    /\ proc' = [proc EXCEPT ![p].pc = "embedding"]
    /\ BeginsWriting(p)
    /\ UNCHANGED <<backend, disk, rows, crashes, runs, edits>>

\* replace: the version about to be written is deleted first.
DeleteVersion(p) ==
    /\ proc[p].pc = "deleting"
    /\ rows' = [rows EXCEPT ![StoreOf(p)] = Without(@, proc[p].version)]
    /\ keyword' = [keyword EXCEPT ![p] =
                      [c \in Chunks |-> IF @[c] = proc[p].version THEN Absent ELSE @[c]]]
    /\ proc' = [proc EXCEPT ![p].pc = "embedding"]
    /\ BeginsWriting(p)
    /\ UNCHANGED <<backend, disk, crashes, runs, edits>>

\* Mutant of EmbedBatch: the last batch is counted as a full one.
EmbedBatchUncapped(p) ==
    LET s == proc[p]
        n == s.embedded + BatchSize
    IN  /\ s.pc = "embedding"
        /\ proc' = [proc EXCEPT ![p].embedded = n,
                                ![p].pc = IF n >= Len(s.docs) THEN "guarding" ELSE @]
        /\ UNCHANGED <<backend, disk, rows, keyword, meddled, overlapped,
                       crashes, runs, edits>>

\* One batch of _embed_chunks comes back from the gateway.
EmbedBatch(p) ==
    LET s == proc[p]
        n == IF s.embedded + BatchSize <= Len(s.docs) THEN s.embedded + BatchSize
                                                      ELSE Len(s.docs)
    IN  /\ s.pc = "embedding"
        /\ proc' = [proc EXCEPT ![p].embedded = n,
                                ![p].pc = IF n = Len(s.docs) THEN "guarding" ELSE @]
        /\ UNCHANGED <<backend, disk, rows, keyword, meddled, overlapped,
                       crashes, runs, edits>>

\* The chunks of ds are written over whatever has their ids.
Overwritten(table, ds, new) == [c \in Chunks |-> IF c \in ds THEN new ELSE table[c]]

EndOf(p) == IF p \in Servers THEN "serving" ELSE "finished"

\* Mutant of StoreInMemory: the keyword index is forgotten.
StoreInMemoryOnlyVectors(p) ==
    /\ backend = "memory"
    /\ proc[p].pc = "guarding"
    /\ rows' = [rows EXCEPT ![p] = Overwritten(@, Range(proc[p].docs), RowOf(p))]
    /\ proc' = [proc EXCEPT ![p].pc = EndOf(p)]
    /\ UNCHANGED <<backend, disk, keyword, meddled, overlapped, crashes, runs, edits>>

\* InMemoryVectorStore.upsert and the keyword index, without an await.  The
\* store's own model guard is silent: a process ingests with one model only.
StoreInMemory(p) ==
    LET ds == Range(proc[p].docs)
    IN  /\ backend = "memory"
        /\ proc[p].pc = "guarding"
        /\ rows' = [rows EXCEPT ![p] = Overwritten(@, ds, RowOf(p))]
        /\ keyword' = [keyword EXCEPT ![p] = Overwritten(@, ds, proc[p].version)]
        /\ proc' = [proc EXCEPT ![p].pc = EndOf(p)]
        /\ UNCHANGED <<backend, disk, meddled, overlapped, crashes, runs, edits>>

\* Mutant of AdmitModel: the model of the stored chunks is not compared.
AdmitAnyModel(p) ==
    /\ backend = "pgvector"
    /\ proc[p].pc = "guarding"
    /\ proc' = [proc EXCEPT ![p].pc = "inserting"]
    /\ meddled' = [meddled EXCEPT ![p] = @ /\ proc[p].replace]
    /\ UNCHANGED <<backend, disk, rows, keyword, overlapped, crashes, runs, edits>>

\* _guard_upsert_models reads the model of any one row.
AdmitModel(p) ==
    /\ backend = "pgvector"
    /\ proc[p].pc = "guarding"
    /\ Held(p) = {} \/ proc[p].model \in ModelsIn(p)
    /\ proc' = [proc EXCEPT ![p].pc = "inserting"]
    /\ meddled' = [meddled EXCEPT ![p] = @ /\ proc[p].replace]
    /\ UNCHANGED <<backend, disk, rows, keyword, overlapped, crashes, runs, edits>>

\* EmbeddingModelMismatchError ends the process: nobody catches it.
RefuseModel(p) ==
    /\ backend = "pgvector"
    /\ proc[p].pc = "guarding"
    /\ ModelsIn(p) \ {proc[p].model} # {}
    /\ Ends(p)
    /\ UNCHANGED <<backend, disk, meddled, overlapped, crashes, runs, edits>>

\* Mutant of InsertRow: ON CONFLICT DO NOTHING, a chunk that is there stays as it is.
InsertRowDoNothing(p) ==
    LET s == proc[p]
        last == s.stored + 1 = Len(s.docs)
        c == s.docs[s.stored + 1]
    IN  /\ s.pc = "inserting"
        /\ rows' = [rows EXCEPT ![Database][c] = IF @ = Absent THEN RowOf(p) ELSE @]
        /\ keyword' = IF last
                      THEN [keyword EXCEPT ![p] = Overwritten(@, Range(s.docs), s.version)]
                      ELSE keyword
        /\ proc' = [proc EXCEPT ![p].stored = @ + 1, ![p].pc = IF last THEN EndOf(p) ELSE @]
        /\ Meddles(p)
        /\ UNCHANGED <<backend, disk, crashes, runs, edits>>

\* One INSERT ... ON CONFLICT DO UPDATE.  After the last one the chunks go to
\* the keyword index, without another await.
InsertRow(p) ==
    LET s == proc[p]
        last == s.stored + 1 = Len(s.docs)
    IN  /\ s.pc = "inserting"
        /\ rows' = [rows EXCEPT ![Database][s.docs[s.stored + 1]] = RowOf(p)]
        /\ keyword' = IF last
                      THEN [keyword EXCEPT ![p] = Overwritten(@, Range(s.docs), s.version)]
                      ELSE keyword
        /\ proc' = [proc EXCEPT ![p].stored = @ + 1, ![p].pc = IF last THEN EndOf(p) ELSE @]
        /\ Meddles(p)
        /\ UNCHANGED <<backend, disk, crashes, runs, edits>>

\* The process is killed, or an embedding, rate-limit or SQL error ends it: no
\* exception is caught between the store and the lifespan or the command line.
Crash(p) ==
    /\ proc[p].pc \notin {"down", "finished"}
    /\ crashes < MaxCrashes
    /\ Ends(p)
    /\ crashes' = crashes + 1
    /\ UNCHANGED <<backend, disk, meddled, overlapped, runs, edits>>

\* Somebody edits the corpus directory.
Edit ==
    /\ edits < MaxEdits
    /\ disk' \in Corpora \ {disk}
    /\ edits' = edits + 1
    /\ UNCHANGED <<backend, rows, keyword, proc, meddled, overlapped, crashes, runs>>

-----------------------------------------------------------------------------
Ingest(p) ==
    \/ DeleteVersion(p)
    \/ EmbedBatch(p)
    \/ StoreInMemory(p)
    \/ AdmitModel(p)
    \/ RefuseModel(p)
    \/ InsertRow(p)

Seed(s) == Boot(s) \/ SkipSeeding(s) \/ StartSeeding(s) \/ Ingest(s)

Next ==
    \/ \E s \in Servers : Seed(s)
    \/ \E c \in Clis : RunCli(c) \/ Ingest(c)
    \/ \E p \in Procs : Crash(p)
    \/ Edit

Spec == Init /\ [][Next]_vars

\* docker-compose.yml restarts a server that ended; the gateway bounds every
\* embedding call, and a statement comes back or raises.
FairSpec == Spec /\ \A s \in Servers : WF_vars(Seed(s))

-----------------------------------------------------------------------------
TypeOK ==
    /\ backend \in Backends
    /\ disk \in Corpora
    /\ rows \in [Procs \cup {Database} -> [Chunks -> Row \cup {Absent}]]
    /\ keyword \in [Procs -> [Chunks -> Versions \cup {Absent}]]
    /\ proc \in [Procs -> ProcState]
    /\ \A p \in Procs : /\ proc[p].embedded <= Len(proc[p].docs)
                        /\ proc[p].stored <= proc[p].embedded
                        /\ proc[p].pc = "inserting" => proc[p].stored < Len(proc[p].docs)
    /\ meddled \in [Procs -> BOOLEAN]
    /\ overlapped \in BOOLEAN
    /\ crashes \in 0..MaxCrashes /\ runs \in 0..MaxRuns /\ edits \in 0..MaxEdits

\* With the in-memory backend, a server that serves and was told to load the
\* corpus has exactly the documents it found in both stores, in its own version
\* and for its own model, however often it had to start
\* (composition.py:336-345, ingestion.py:97-99).
MemoryServesWhole ==
    backend = "memory" =>
        \A s \in Servers :
            (proc[s].pc = "serving" /\ proc[s].autoload) =>
                /\ proc[s].docs \in Corpora
                /\ \A c \in Chunks :
                    IF c \in Range(proc[s].docs)
                    THEN rows[s][c] = RowOf(s) /\ keyword[s][c] = proc[s].version
                    ELSE rows[s][c] = Absent /\ keyword[s][c] = Absent

\* p ends an ingestion in this step.
Completes(p) ==
    /\ proc[p].pc \in {"guarding", "inserting"}
    /\ proc'[p].pc = EndOf(p)

\* An ingestion that reports success, and that no other one meddled with, has
\* put every chunk where both searches find it (ingestion.py:97-106).
IngestIsComplete ==
    [][\A p \in Procs :
          (Completes(p) /\ ~meddled'[p]) =>
              \A c \in Range(proc[p].docs) :
                  /\ rows'[StoreOf(p)][c] = RowOf(p)
                  /\ keyword'[p][c] = proc[p].version]_vars

\* Whatever crashes, edits and other ingestions have left behind, a replace that
\* runs to its end undisturbed leaves its version equal to the corpus
\* (ingestion.py:80-82, tests/unit/knowledge/test_ingestion_eval_loaders.py:38).
ReplaceIsClean ==
    [][\A p \in Procs :
          (Completes(p) /\ proc[p].replace /\ ~meddled'[p]) =>
              HeldAs(p, proc[p].version)' = Range(proc[p].docs)]_vars

\* The chunks of a store share one embedding model, through crashes half-way
\* and restarts with other settings, unless two ingestions overlapped
\* (pgvector_store.py:15-17, 196-208).
OneModelUnlessOverlapped ==
    \A p \in Procs : Cardinality(ModelsIn(p)) > 1 => overlapped

\* A server that went down comes up again.
ServersComeUp == \A s \in Servers : proc[s].pc = "down" ~> proc[s].pc = "serving"

\* composition.py:333-335 says that the corpus is ingested on start-up so that
\* "`docker compose up` yields a working, queryable knowledge base with no
\* manual step": a server that serves can find every chunk of the corpus, by
\* meaning or at least by keyword.
AutoloadMakesSearchable ==
    \A s \in Servers :
        (proc[s].pc = "serving" /\ proc[s].autoload) =>
            Range(disk) \subseteq Held(s) \cup Indexed(s)
=============================================================================
