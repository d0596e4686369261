------------------------ MODULE KnowledgeBaseProofs ------------------------
(***************************************************************************)
(* Proofs about KnowledgeBase for every number of servers and command line *)
(* tools, every corpus, batch size, number of crashes, runs and edits.     *)
(*                                                                         *)
(* The stages of a process are about its own record (StagesInv).  What it  *)
(* has written so far is related to its store by MemoryInv and             *)
(* UndisturbedInv, and what its model guard has found out by ModelInv.     *)
(***************************************************************************)
EXTENDS KnowledgeBase, FiniteSetTheorems, TLAPS

USE KnowledgeAssumption

\* An ingestion has chunks to store, and has embedded all of them before it
\* stores the first.
Stages(s) ==
    /\ s.pc # "down" => s.version \in Versions /\ s.model \in Models
    /\ s.pc \in {"down", "counting", "deleting", "embedding", "guarding"} => s.stored = 0
    /\ s.pc = "counting" => s.docs = <<>> /\ ~s.replace
    /\ s.pc \in {"deleting", "embedding", "guarding", "inserting"} => s.docs # <<>>
    /\ s.pc \in {"guarding", "inserting"} => s.embedded = Len(s.docs)

StagesInv == \A p \in Procs : Stages(proc[p])

\* A process finds its own memory empty until it has stored its documents, and
\* a server then keeps exactly those.
MemoryOK(p) ==
    /\ proc[p].pc # "inserting"
    /\ proc[p].pc \notin {"serving", "finished"} => rows[p] = NoRows /\ keyword[p] = NoRows
    /\ (p \in Servers /\ proc[p].pc = "serving" /\ proc[p].autoload) =>
          /\ proc[p].docs \in Corpora
          /\ rows[p] = [c \in Chunks |-> IF c \in Range(proc[p].docs) THEN RowOf(p) ELSE Absent]
          /\ keyword[p] = [c \in Chunks |-> IF c \in Range(proc[p].docs)
                                            THEN proc[p].version ELSE Absent]

MemoryInv == backend = "memory" => \A p \in Procs : MemoryOK(p)

\* The row the model guard happened to read stands for all of them, until the
\* last one is written.
AllOf(table, m) == \A c \in Chunks : table[c] # Absent => table[c].model = m
Uniform(table) == \A c \in Chunks : table[c] # Absent => AllOf(table, table[c].model)

ModelInv ==
    ~overlapped =>
        \A p \in Procs :
            /\ Uniform(rows[StoreOf(p)])
            /\ proc[p].pc = "inserting" => AllOf(rows[StoreOf(p)], proc[p].model)

\* What an ingestion has stored stays until another one meddles with it, and a
\* replace has left nothing else of its version.
DoneBy(s) == {s.docs[i] : i \in 1..s.stored}

Untouched(p) ==
    /\ proc[p].pc = "inserting" => \A c \in DoneBy(proc[p]) : rows[Database][c] = RowOf(p)
    /\ Writing(p) /\ proc[p].replace => HeldAs(p, proc[p].version) = DoneBy(proc[p])

UndisturbedInv == \A p \in Procs : ~meddled[p] => Untouched(p)

IInv == TypeOK /\ StagesInv /\ MemoryInv /\ ModelInv /\ UndisturbedInv

-----------------------------------------------------------------------------
\* Data.

\* Documents are finite sequences of chunks.
LEMMA DocsType ==
    ASSUME NEW ds \in Corpora \cup {<<>>}
    PROVE  /\ ds \in Seq(Chunks) /\ Len(ds) \in Nat /\ DOMAIN ds = 1..Len(ds)
           /\ ds # <<>> => Len(ds) > 0
           /\ Range(ds) = {ds[i] : i \in 1..Len(ds)}
           /\ Range(ds) \subseteq Chunks
<1>1. ds \in Seq(Chunks)
  <2>1. Corpora \subseteq Seq(Chunks)
    OBVIOUS
  <2>2. <<>> \in Seq(Chunks)
    OBVIOUS
  <2>3. QED
    BY <2>1, <2>2
<1>2. Len(ds) \in Nat /\ DOMAIN ds = 1..Len(ds) /\ (ds # <<>> => Len(ds) > 0)
  BY <1>1
<1>3. \A i \in 1..Len(ds) : ds[i] \in Chunks
  BY <1>1
<1>4. QED
  BY <1>1, <1>2, <1>3 DEF Range

\* Each process has the fields and the counters of ProcState, in order.
Counters(s) ==
    /\ s.embedded <= Len(s.docs)
    /\ s.stored <= s.embedded
    /\ s.pc = "inserting" => s.stored < Len(s.docs)

ProcOK(s) == s \in ProcState /\ Counters(s) /\ Stages(s)

LEMMA StartedOK ==
    ASSUME NEW pc \in Phases, NEW v \in Versions \cup {Absent}, NEW m \in Models \cup {Absent},
           NEW replace \in BOOLEAN, NEW autoload \in BOOLEAN, NEW ds \in Corpora \cup {<<>>},
           pc \in {"deleting", "embedding"} => ds # <<>>,
           pc \in {"down", "counting", "serving"} => ds = <<>>,
           pc \notin {"guarding", "inserting"},
           pc # "down" => v \in Versions /\ m \in Models,
           pc = "counting" => ~replace
    PROVE  ProcOK(Started(pc, v, m, replace, autoload, ds))
<1> DEFINE s == Started(pc, v, m, replace, autoload, ds)
<1>1. /\ s \in ProcState /\ s.pc = pc /\ s.docs = ds /\ s.embedded = 0 /\ s.stored = 0
      /\ s.version = v /\ s.model = m /\ s.replace = replace
  BY DEF Started, ProcState
<1>2. Len(ds) \in Nat
  BY DocsType
<1> SUFFICES ProcOK(s)
  OBVIOUS
<1> HIDE DEF s
<1>3. Counters(s)
  BY <1>1, <1>2 DEF Counters
<1>4. Stages(s)
  BY <1>1 DEF Stages
<1>5. QED
  BY <1>1, <1>3, <1>4 DEF ProcOK

LEMMA DownOK == ProcOK(Down)
BY StartedOK DEF Down, Phases

\* What each step of a process makes of it.
LEMMA ProcSteps ==
    ASSUME TypeOK, StagesInv, NEW p \in Procs,
           \/ Boot(p) \/ SkipSeeding(p) \/ StartSeeding(p) \/ RunCli(p)
           \/ Ingest(p) \/ Crash(p)
    PROVE  /\ proc' = [proc EXCEPT ![p] = proc'[p]]
           /\ ProcOK(proc'[p])
<1> DEFINE s == proc[p]
<1>0. /\ ProcOK(s) /\ proc \in [Procs -> ProcState]
      /\ disk \in Corpora /\ Len(s.docs) \in Nat /\ s.docs \in Corpora \cup {<<>>}
      /\ EndOf(p) \in {"serving", "finished"}
  BY DocsType DEF TypeOK, StagesInv, ProcOK, Counters, ProcState, EndOf
<1>1. ASSUME NEW t, proc' = [proc EXCEPT ![p] = t], ProcOK(t)
      PROVE  proc' = [proc EXCEPT ![p] = proc'[p]] /\ ProcOK(proc'[p])
  BY <1>0, <1>1
<1>2. CASE Boot(p)
  <2>1. PICK v \in Versions, m \in Models, autoload \in BOOLEAN :
            proc' = [proc EXCEPT ![p] = Started(IF autoload THEN "counting" ELSE "serving",
                                                v, m, FALSE, autoload, <<>>)]
    BY <1>2 DEF Boot
  <2>2. ProcOK(Started(IF autoload THEN "counting" ELSE "serving",
                       v, m, FALSE, autoload, <<>>))
    BY StartedOK DEF Phases
  <2>3. QED
    BY <1>1, <2>1, <2>2
<1>3. CASE SkipSeeding(p)
  <2> DEFINE t == [s EXCEPT !.pc = "serving"]
  <2>1. proc' = [proc EXCEPT ![p] = t] /\ s.pc = "counting"
    BY <1>3 DEF SkipSeeding
  <2>2. ProcOK(t)
    BY <1>0, <2>1 DEF ProcOK, Counters, Stages, ProcState, Phases
  <2> HIDE DEF t
  <2>3. QED
    BY <1>1, <2>1, <2>2
<1>4. CASE StartSeeding(p)
  <2> DEFINE t == [s EXCEPT !.pc = "embedding", !.docs = disk]
  <2>1. proc' = [proc EXCEPT ![p] = t] /\ s.pc = "counting" /\ disk # <<>>
    BY <1>4 DEF StartSeeding
  <2>2. /\ t \in ProcState /\ t.docs = disk /\ t.pc = "embedding"
        /\ t.stored = s.stored /\ t.embedded = s.embedded
        /\ t.version = s.version /\ t.model = s.model
    BY <1>0 DEF ProcState, Phases, ProcOK
  <2>3. s.embedded = 0 /\ s.stored = 0 /\ s.version \in Versions /\ s.model \in Models
    BY <1>0, <2>1 DEF ProcOK, Counters, Stages, ProcState
  <2>4. Len(disk) \in Nat
    BY <1>0, DocsType
  <2> HIDE DEF t
  <2>5. ProcOK(t)
    BY <2>1, <2>2, <2>3, <2>4 DEF ProcOK, Counters, Stages
  <2>6. QED
    BY <1>1, <2>1, <2>5
<1>5. CASE RunCli(p)
  <2>1. PICK v \in Versions, m \in Models, replace \in BOOLEAN :
            proc' = [proc EXCEPT ![p] = Started(IF replace THEN "deleting" ELSE "embedding",
                                                v, m, replace, FALSE, disk)]
    BY <1>5 DEF RunCli
  <2>2. disk # <<>>
    BY <1>5 DEF RunCli
  <2>3. ProcOK(Started(IF replace THEN "deleting" ELSE "embedding",
                       v, m, replace, FALSE, disk))
    BY <1>0, <2>2, StartedOK DEF Phases
  <2>4. QED
    BY <1>1, <2>1, <2>3
<1>6. CASE DeleteVersion(p)
  <2> DEFINE t == [s EXCEPT !.pc = "embedding"]
  <2>1. proc' = [proc EXCEPT ![p] = t] /\ s.pc = "deleting"
    BY <1>6 DEF DeleteVersion
  <2>2. ProcOK(t)
    BY <1>0, <2>1 DEF ProcOK, Counters, Stages, ProcState, Phases
  <2> HIDE DEF t
  <2>3. QED
    BY <1>1, <2>1, <2>2
<1>7. CASE EmbedBatch(p)
  <2> DEFINE n == IF s.embedded + BatchSize <= Len(s.docs) THEN s.embedded + BatchSize
                                                          ELSE Len(s.docs)
             t == [s EXCEPT !.embedded = n, !.pc = IF n = Len(s.docs) THEN "guarding" ELSE @]
  <2>1. proc' = [proc EXCEPT ![p] = t] /\ s.pc = "embedding"
    BY <1>7 DEF EmbedBatch
  <2>2. n \in Nat /\ n <= Len(s.docs)
    BY <1>0 DEF ProcOK, ProcState
  <2>3. s.stored = 0 /\ s.docs # <<>> /\ s.version \in Versions /\ s.model \in Models
    BY <1>0, <2>1 DEF ProcOK, Stages
  <2> HIDE DEF n
  <2>4. /\ t \in ProcState /\ t.docs = s.docs /\ t.embedded = n /\ t.stored = s.stored
        /\ t.pc = IF n = Len(s.docs) THEN "guarding" ELSE "embedding"
        /\ t.version = s.version /\ t.model = s.model
    BY <1>0, <2>1, <2>2 DEF ProcOK, ProcState, Phases
  <2> HIDE DEF t
  <2>5. ProcOK(t)
    BY <2>2, <2>3, <2>4 DEF ProcOK, Counters, Stages
  <2>6. QED
    BY <1>1, <2>1, <2>5
<1>8. CASE StoreInMemory(p)
  <2> DEFINE t == [s EXCEPT !.pc = EndOf(p)]
  <2>1. proc' = [proc EXCEPT ![p] = t] /\ s.pc = "guarding"
    BY <1>8 DEF StoreInMemory
  <2>2. ProcOK(t)
    BY <1>0, <2>1 DEF ProcOK, Counters, Stages, ProcState, Phases
  <2> HIDE DEF t
  <2>3. QED
    BY <1>1, <2>1, <2>2
<1>9. CASE AdmitModel(p)
  <2> DEFINE t == [s EXCEPT !.pc = "inserting"]
  <2>1. proc' = [proc EXCEPT ![p] = t] /\ s.pc = "guarding"
    BY <1>9 DEF AdmitModel
  <2>2. Len(s.docs) > 0
    BY <1>0, <2>1, DocsType DEF ProcOK, Stages
  <2>3. ProcOK(t)
    BY <1>0, <2>1, <2>2 DEF ProcOK, Counters, Stages, ProcState, Phases
  <2> HIDE DEF t
  <2>4. QED
    BY <1>1, <2>1, <2>3
<1>10. CASE RefuseModel(p) \/ Crash(p)
  BY <1>1, <1>10, DownOK DEF RefuseModel, Crash, Ends
<1>11. CASE InsertRow(p)
  <2> DEFINE last == s.stored + 1 = Len(s.docs)
             t == [s EXCEPT !.stored = @ + 1, !.pc = IF last THEN EndOf(p) ELSE @]
  <2>1. proc' = [proc EXCEPT ![p] = t] /\ s.pc = "inserting"
    BY <1>11 DEF InsertRow
  <2>2. s.stored < Len(s.docs) /\ s.embedded = Len(s.docs)
    BY <1>0, <2>1 DEF ProcOK, Counters, Stages
  <2>3. /\ s.stored \in Nat /\ s.docs # <<>>
        /\ s.version \in Versions /\ s.model \in Models
    BY <1>0, <2>1 DEF ProcOK, Stages, ProcState
  <2> DEFINE n == s.stored + 1
             pc == IF last THEN EndOf(p) ELSE s.pc
  <2>4. n \in Nat /\ pc \in Phases /\ (last => pc \in {"serving", "finished"})
        /\ (~last => pc = "inserting" /\ n < Len(s.docs)) /\ n <= Len(s.docs)
    BY <1>0, <2>1, <2>2, <2>3 DEF Phases
  <2> HIDE DEF n, pc
  <2>6. t = [s EXCEPT !.stored = n, !.pc = pc]
    BY DEF n, pc
  <2> HIDE DEF t, last
  <2>7. /\ t \in ProcState /\ t.docs = s.docs /\ t.embedded = s.embedded
        /\ t.stored = n /\ t.pc = pc /\ t.version = s.version /\ t.model = s.model
    BY <1>0, <2>4, <2>6 DEF ProcOK, ProcState
  <2>5. ProcOK(t)
    BY <2>2, <2>3, <2>4, <2>7 DEF ProcOK, Counters, Stages
  <2>8. QED
    BY <1>1, <2>1, <2>5
<1>12. QED
  BY <1>2, <1>3, <1>4, <1>5, <1>6, <1>7, <1>8, <1>9, <1>10, <1>11 DEF Ingest

\* A process that is up knows what its rows look like.
LEMMA RowType ==
    ASSUME TypeOK, StagesInv, NEW p \in Procs, proc[p].pc # "down"
    PROVE  RowOf(p) \in Row /\ RowOf(p) # Absent /\ proc[p].version # Absent
           /\ proc[p].version \in Versions
BY DEF RowOf, Row, StagesInv, Stages

Table == [Chunks -> Row \cup {Absent}]
Index == [Chunks -> Versions \cup {Absent}]

LEMMA TableTypes ==
    ASSUME NEW table \in Table, NEW index \in Index, NEW ds, NEW row \in Row,
           NEW v \in Versions
    PROVE  /\ Without(table, v) \in Table
           /\ [c \in Chunks |-> IF index[c] = v THEN Absent ELSE index[c]] \in Index
           /\ Overwritten(table, ds, row) \in Table
           /\ Overwritten(index, ds, v) \in Index
BY DEF Table, Index, Without, Overwritten

LEMMA NoRowsType == NoRows \in Table /\ NoRows \in Index
BY DEF NoRows, Table, Index

Changes(p) ==
    \/ Boot(p) \/ SkipSeeding(p) \/ StartSeeding(p) \/ RunCli(p)
    \/ Ingest(p) \/ Crash(p)

\* What a step does to the stores, in terms of the process that takes it.
LEMMA StoreTypes ==
    ASSUME TypeOK, StagesInv, NEW p \in Procs, Changes(p)
    PROVE  /\ rows' \in [Procs \cup {Database} -> Table]
           /\ keyword' \in [Procs -> Index]
<1>0. /\ rows \in [Procs \cup {Database} -> Table] /\ keyword \in [Procs -> Index]
      /\ StoreOf(p) \in Procs \cup {Database}
  BY DEF TypeOK, Table, Index, StoreOf
<1>1. CASE UNCHANGED <<rows, keyword>>
  BY <1>0, <1>1
<1>2. CASE Forgets(p)
  BY <1>0, <1>2, NoRowsType DEF Forgets
<1>3. CASE DeleteVersion(p)
  <2>1. proc[p].version \in Versions
    BY <1>3, RowType DEF DeleteVersion
  <2>2. rows' = [rows EXCEPT ![StoreOf(p)] = Without(rows[StoreOf(p)], proc[p].version)]
    BY <1>3 DEF DeleteVersion
  <2>3. keyword' = [keyword EXCEPT ![p] =
            [c \in Chunks |-> IF keyword[p][c] = proc[p].version THEN Absent
                              ELSE keyword[p][c]]]
    BY <1>3 DEF DeleteVersion
  <2>4. Without(rows[StoreOf(p)], proc[p].version) \in Table
    BY <1>0, <2>1 DEF Table, Without
  <2>5. [c \in Chunks |-> IF keyword[p][c] = proc[p].version THEN Absent
                          ELSE keyword[p][c]] \in Index
    BY <1>0 DEF Index
  <2>6. QED
    BY <1>0, <2>2, <2>3, <2>4, <2>5
<1>4. CASE StoreInMemory(p)
  <2>1. RowOf(p) \in Row /\ proc[p].version \in Versions
    BY <1>4, RowType DEF StoreInMemory
  <2>2. /\ Overwritten(rows[p], Range(proc[p].docs), RowOf(p)) \in Table
        /\ Overwritten(keyword[p], Range(proc[p].docs), proc[p].version) \in Index
    BY <1>0, <2>1, TableTypes
  <2>3. QED
    BY <1>0, <1>4, <2>2 DEF StoreInMemory
<1>5. CASE InsertRow(p)
  <2>1. RowOf(p) \in Row /\ proc[p].version \in Versions
    BY <1>5, RowType DEF InsertRow
  <2> DEFINE c == proc[p].docs[proc[p].stored + 1]
  <2>2. rows' = [rows EXCEPT ![Database] = [rows[Database] EXCEPT ![c] = RowOf(p)]]
    BY <1>5 DEF InsertRow
  <2>3. [rows[Database] EXCEPT ![c] = RowOf(p)] \in Table
    BY <1>0, <2>1 DEF Table
  <2>4. Overwritten(keyword[p], Range(proc[p].docs), proc[p].version) \in Index
    BY <1>0, <2>1, TableTypes
  <2>5. keyword' \in [Procs -> Index]
    BY <1>0, <1>5, <2>4 DEF InsertRow
  <2>6. QED
    BY <1>0, <2>2, <2>3, <2>5
<1>6. QED
  BY <1>1, <1>2, <1>3, <1>4, <1>5
     DEF Changes, Ingest, Boot, SkipSeeding, StartSeeding, RunCli, EmbedBatch, AdmitModel,
         RefuseModel, Crash, Ends

LEMMA HistoryTypes ==
    ASSUME TypeOK, NEW p \in Procs, Changes(p)
    PROVE  /\ meddled' \in [Procs -> BOOLEAN] /\ overlapped' \in BOOLEAN
           /\ backend' = backend /\ disk' = disk
           /\ crashes' \in 0..MaxCrashes /\ runs' \in 0..MaxRuns /\ edits' = edits
<1>0. /\ meddled \in [Procs -> BOOLEAN] /\ overlapped \in BOOLEAN
      /\ crashes \in 0..MaxCrashes /\ runs \in 0..MaxRuns
  BY DEF TypeOK
<1>1. /\ BeginsWriting(p) \/ Meddles(p) \/ UNCHANGED <<meddled, overlapped>>
         \/ (meddled' = [meddled EXCEPT ![p] = @ /\ proc[p].replace] /\ UNCHANGED overlapped)
      /\ backend' = backend /\ disk' = disk /\ edits' = edits
      /\ crashes' = crashes \/ (crashes < MaxCrashes /\ crashes' = crashes + 1)
      /\ runs' = runs \/ (runs < MaxRuns /\ runs' = runs + 1)
  BY DEF Changes, Ingest, Boot, SkipSeeding, StartSeeding, RunCli, DeleteVersion, EmbedBatch,
         StoreInMemory, AdmitModel, RefuseModel, InsertRow, Crash
<1>2. CASE BeginsWriting(p) \/ Meddles(p)
  <2>1. meddled' \in [Procs -> BOOLEAN]
    BY <1>2, Zenon DEF BeginsWriting, Meddles
  <2>2. overlapped' \in BOOLEAN
    BY <1>2, Zenon DEF BeginsWriting, Meddles
  <2>3. QED
    BY <1>0, <1>1, <2>1, <2>2
<1>3. CASE meddled' = [meddled EXCEPT ![p] = @ /\ proc[p].replace] /\ UNCHANGED overlapped
  BY <1>0, <1>1, <1>3
<1>4. QED
  BY <1>0, <1>1, <1>2, <1>3

LEMMA NextTypes ==
    ASSUME TypeOK, StagesInv, NEW p \in Procs, Changes(p)
    PROVE  (TypeOK /\ StagesInv)'
<1>1. proc' = [proc EXCEPT ![p] = proc'[p]] /\ ProcOK(proc'[p])
  BY ProcSteps DEF Changes
<1>2. \A q \in Procs : ProcOK(proc[q])
  BY DEF TypeOK, StagesInv, ProcOK, Counters
<1>3. \A q \in Procs : ProcOK(proc'[q])
  BY <1>1, <1>2 DEF TypeOK
<1>4. proc' \in [Procs -> ProcState]
  BY <1>1 DEF TypeOK, ProcOK
<1>5. StagesInv' /\ \A q \in Procs : Counters(proc'[q])
  BY <1>3 DEF StagesInv, ProcOK
<1>6. QED
  BY <1>4, <1>5, StoreTypes, HistoryTypes DEF TypeOK, Table, Index, Counters

-----------------------------------------------------------------------------
\* What one process does to the others, and to its own store.

\* In memory, a process writes to its own store only.
LEMMA MemoryFrame ==
    ASSUME IInv, NEW p \in Procs, Changes(p), backend = "memory",
           NEW q \in Procs, q # p
    PROVE  rows'[q] = rows[q] /\ keyword'[q] = keyword[q]
<1>1. rows \in [Procs \cup {Database} -> Table] /\ keyword \in [Procs -> Index]
  BY DEF IInv, TypeOK, Table, Index
<1>2. StoreOf(p) = p /\ proc[p].pc # "inserting"
  BY DEF IInv, MemoryInv, MemoryOK, StoreOf
<1>3. \/ UNCHANGED <<rows, keyword>>
      \/ \E a, b : rows' = [rows EXCEPT ![p] = a] /\ keyword' = [keyword EXCEPT ![p] = b]
  BY <1>2 DEF Changes, Ingest, Boot, SkipSeeding, StartSeeding, RunCli, DeleteVersion,
              EmbedBatch, StoreInMemory, AdmitModel, RefuseModel, InsertRow, Crash, Ends, Forgets
<1>4. QED
  BY <1>1, <1>3

\* The shared table is only written to by a deletion or an insertion.
LEMMA SharedFrame ==
    ASSUME IInv, NEW p \in Procs, Changes(p), backend = "pgvector",
           ~DeleteVersion(p), ~InsertRow(p)
    PROVE  rows'[Database] = rows[Database]
<1>1. rows \in [Procs \cup {Database} -> Table] /\ p # Database
  BY DEF IInv, TypeOK, Table
<1>2. ~StoreInMemory(p)
  BY DEF StoreInMemory
<1>3. \/ rows' = rows
      \/ rows' = [rows EXCEPT ![p] = NoRows]
  BY <1>2 DEF Changes, Ingest, Boot, SkipSeeding, StartSeeding, RunCli,
              EmbedBatch, AdmitModel, RefuseModel, Crash, Ends, Forgets
<1>4. QED
  BY <1>1, <1>3

LEMMA Stores ==
    ASSUME IInv, NEW p \in Procs, Changes(p)
    PROVE  /\ backend' = backend /\ backend \in {"memory", "pgvector"}
           /\ \A q \in Procs : /\ StoreOf(q)' = StoreOf(q)
                               /\ backend = "memory" => StoreOf(q) = q
                               /\ backend = "pgvector" => StoreOf(q) = Database
           /\ \A q \in Procs \ {p} : proc'[q] = proc[q]
           /\ \A q \in Procs : proc[q].pc = "inserting" => backend = "pgvector"
<1>1. backend' = backend /\ backend \in Backends
  BY HistoryTypes DEF IInv, TypeOK
<1>2. proc' = [proc EXCEPT ![p] = proc'[p]] /\ proc \in [Procs -> ProcState]
  BY ProcSteps DEF IInv, Changes, TypeOK
<1>3. backend \in {"memory", "pgvector"}
  BY <1>1
<1>4. \A q \in Procs : /\ StoreOf(q)' = StoreOf(q)
                       /\ backend = "memory" => StoreOf(q) = q
                       /\ backend = "pgvector" => StoreOf(q) = Database
  BY <1>1 DEF StoreOf
<1>5. \A q \in Procs \ {p} : proc'[q] = proc[q]
  BY <1>2
<1>6. \A q \in Procs : proc[q].pc = "inserting" => backend = "pgvector"
  BY <1>3 DEF IInv, MemoryInv, MemoryOK
<1>7. QED
  BY <1>1, <1>3, <1>4, <1>5, <1>6

\* Writing to the store of an ingestion that is under way is noted.
LEMMA WritingIsNoted ==
    ASSUME IInv, NEW p \in Procs, DeleteVersion(p) \/ InsertRow(p),
           NEW q \in Procs, q # p, Writing(q), StoreOf(q) = StoreOf(p)
    PROVE  meddled'[q] /\ overlapped'
BY DEF DeleteVersion, InsertRow, BeginsWriting, Meddles, Disturbs

-----------------------------------------------------------------------------
\* The in-memory stores.

LEMMA MemoryStep ==
    ASSUME IInv, NEW p \in Procs, Changes(p), backend = "memory"
    PROVE  MemoryOK(p)'
<1>0. /\ rows \in [Procs \cup {Database} -> Table] /\ keyword \in [Procs -> Index]
      /\ proc \in [Procs -> ProcState] /\ disk \in Corpora
      /\ MemoryOK(p) /\ Stages(proc[p]) /\ StoreOf(p) = p
  BY DEF IInv, TypeOK, Table, Index, MemoryInv, StagesInv, StoreOf
<1>1. ASSUME rows'[p] = NoRows, keyword'[p] = NoRows, proc'[p].pc # "inserting",
             ~(p \in Servers /\ proc'[p].pc = "serving" /\ proc'[p].autoload)
      PROVE  MemoryOK(p)'
  BY <1>1 DEF MemoryOK
<1>2. CASE Boot(p)
  <2>1. rows'[p] = NoRows /\ keyword'[p] = NoRows
    BY <1>0, <1>2 DEF Boot, MemoryOK
  <2>2. proc'[p].pc # "inserting" /\ ~(proc'[p].pc = "serving" /\ proc'[p].autoload)
    BY <1>0, <1>2 DEF Boot, Started
  <2>3. QED
    BY <1>1, <2>1, <2>2
<1>3. CASE SkipSeeding(p)
  <2>1. /\ rows'[p] = NoRows /\ keyword'[p] = NoRows
        /\ rows[p] = NoRows /\ proc[p].pc = "counting"
    BY <1>0, <1>3 DEF SkipSeeding, MemoryOK
  <2>2. Held(p) = {}
    BY <1>0, <2>1 DEF Held, NoRows
  <2>3. disk = <<>> /\ proc[p].docs = <<>>
    BY <1>0, <1>3, <2>1, <2>2 DEF SkipSeeding, Stages
  <2>4. proc'[p].docs = <<>> /\ <<>> \in Corpora /\ proc'[p].pc = "serving"
    BY <1>0, <1>3, <2>3 DEF SkipSeeding, ProcState
  <2>5. Range(<<>>) = {}
    BY DEF Range
  <2>6. QED
    BY <2>1, <2>4, <2>5 DEF MemoryOK, NoRows
<1>4. CASE StartSeeding(p)
  <2>1. /\ rows'[p] = NoRows /\ keyword'[p] = NoRows
    BY <1>0, <1>4 DEF StartSeeding, MemoryOK
  <2>2. proc'[p].pc = "embedding"
    BY <1>0, <1>4 DEF StartSeeding, ProcState
  <2>3. QED
    BY <1>1, <2>1, <2>2
<1>5. CASE RunCli(p)
  <2>1. /\ rows'[p] = NoRows /\ keyword'[p] = NoRows
    BY <1>0, <1>5 DEF RunCli, Forgets
  <2>2. proc'[p].pc \in {"deleting", "embedding"}
    BY <1>0, <1>5 DEF RunCli, Started
  <2>3. QED
    BY <1>1, <2>1, <2>2
<1>6. CASE DeleteVersion(p)
  <2>1. rows[p] = NoRows /\ keyword[p] = NoRows
    BY <1>0, <1>6 DEF DeleteVersion, MemoryOK
  <2>2. Without(NoRows, proc[p].version) = NoRows
    BY DEF Without, NoRows
  <2>3. rows'[p] = NoRows
    BY <1>0, <1>6, <2>1, <2>2 DEF DeleteVersion
  <2>4. keyword'[p] = [c \in Chunks |-> IF NoRows[c] = proc[p].version THEN Absent
                                                                      ELSE NoRows[c]]
    BY <1>0, <1>6, <2>1 DEF DeleteVersion
  <2>5. keyword'[p] = NoRows
    BY <2>4 DEF NoRows
  <2>6. proc'[p].pc = "embedding"
    BY <1>0, <1>6 DEF DeleteVersion, ProcState
  <2>7. QED
    BY <1>1, <2>3, <2>5, <2>6
<1>7. CASE EmbedBatch(p)
  <2>1. /\ rows'[p] = NoRows /\ keyword'[p] = NoRows
    BY <1>0, <1>7 DEF EmbedBatch, MemoryOK
  <2>2. proc'[p].pc \in {"embedding", "guarding"}
    BY <1>0, <1>7 DEF EmbedBatch, ProcState
  <2>3. QED
    BY <1>1, <2>1, <2>2
<1>8. CASE StoreInMemory(p)
  <2>1. rows[p] = NoRows /\ keyword[p] = NoRows
    BY <1>0, <1>8 DEF StoreInMemory, MemoryOK
  <2>2. proc'[p] = [proc[p] EXCEPT !.pc = EndOf(p)]
    BY <1>0, <1>8 DEF StoreInMemory
  <2>3. /\ proc'[p].docs = proc[p].docs /\ proc'[p].version = proc[p].version
        /\ proc'[p].model = proc[p].model /\ proc'[p].pc \in {"serving", "finished"}
    BY <1>0, <2>2 DEF ProcState, EndOf
  <2>4. RowOf(p)' = RowOf(p)
    BY <2>3 DEF RowOf
  <2>5. proc[p].docs \in Corpora
    BY <1>0, <1>8 DEF StoreInMemory, Stages, ProcState
  <2>6. rows'[p] = [c \in Chunks |-> IF c \in Range(proc[p].docs) THEN RowOf(p) ELSE Absent]
    BY <1>0, <1>8, <2>1 DEF StoreInMemory, Overwritten, NoRows
  <2>7. keyword'[p] = [c \in Chunks |-> IF c \in Range(proc[p].docs) THEN proc[p].version
                                                                    ELSE Absent]
    BY <1>0, <1>8, <2>1 DEF StoreInMemory, Overwritten, NoRows
  <2>8. QED
    BY <2>3, <2>4, <2>5, <2>6, <2>7 DEF MemoryOK
<1>9. CASE AdmitModel(p)
  BY <1>9 DEF AdmitModel
<1>10. CASE RefuseModel(p) \/ Crash(p)
  <2>1. /\ rows'[p] = NoRows /\ keyword'[p] = NoRows /\ proc'[p] = Down
    BY <1>0, <1>10 DEF RefuseModel, Crash, Ends, Forgets
  <2>2. Down.pc = "down"
    BY DEF Down, Started
  <2>3. QED
    BY <1>1, <2>1, <2>2
<1>11. CASE InsertRow(p)
  BY <1>0, <1>11 DEF InsertRow, MemoryOK
<1>12. QED
  BY <1>2, <1>3, <1>4, <1>5, <1>6, <1>7, <1>8, <1>9, <1>10, <1>11 DEF Changes, Ingest

LEMMA MemoryInvKept ==
    ASSUME IInv, NEW p \in Procs, Changes(p)
    PROVE  MemoryInv'
<1> SUFFICES ASSUME backend = "memory", NEW q \in Procs
             PROVE  MemoryOK(q)'
  BY Stores DEF MemoryInv
<1>1. CASE q = p
  BY <1>1, MemoryStep
<1>2. CASE q # p
  <2>1. /\ rows'[q] = rows[q] /\ keyword'[q] = keyword[q] /\ proc'[q] = proc[q]
    BY <1>2, MemoryFrame, Stores
  <2>2. MemoryOK(q)
    BY DEF IInv, MemoryInv
  <2>3. QED
    BY <2>1, <2>2 DEF MemoryOK, RowOf
<1>3. QED
  BY <1>1, <1>2

-----------------------------------------------------------------------------
\* One embedding model per store.

\* Deleting rows never brings a second model in.
LEMMA ModelTables ==
    ASSUME NEW table \in Table, NEW v \in Versions
    PROVE  /\ Uniform(table) => Uniform(Without(table, v))
           /\ \A m : AllOf(table, m) => AllOf(Without(table, v), m)
           /\ \A m : AllOf(table, m) => Uniform(table)
<1>1. Uniform(table) => Uniform(Without(table, v))
  BY DEF Table, Uniform, AllOf, Without
<1>2. \A m : AllOf(table, m) => AllOf(Without(table, v), m)
  BY DEF Table, AllOf, Without
<1>3. \A m : AllOf(table, m) => Uniform(table)
  BY DEF Uniform, AllOf
<1>4. QED
  BY <1>1, <1>2, <1>3

LEMMA NoRowsUniform == Uniform(NoRows)
BY DEF Uniform, NoRows

LEMMA ModelInMemory ==
    ASSUME IInv, NEW p \in Procs, Changes(p), backend = "memory", ~overlapped
    PROVE  Uniform(rows'[p])
<1>0. /\ rows \in [Procs \cup {Database} -> Table] /\ Uniform(rows[p])
      /\ StoreOf(p) = p /\ MemoryOK(p)
  BY DEF IInv, TypeOK, Table, ModelInv, StoreOf, MemoryInv
<1>1. CASE rows' = rows
  BY <1>0, <1>1
<1>2. CASE Forgets(p)
  BY <1>0, <1>2, NoRowsUniform DEF Forgets
<1>3. CASE DeleteVersion(p)
  <2>1. proc[p].version \in Versions
    BY <1>3, RowType DEF DeleteVersion, IInv
  <2>2. QED
    BY <1>0, <1>3, <2>1, ModelTables DEF DeleteVersion
<1>4. CASE StoreInMemory(p)
  <2>1. RowOf(p) \in Row /\ rows[p] = NoRows
    BY <1>0, <1>4, RowType DEF StoreInMemory, IInv, MemoryOK
  <2>2. rows'[p] = Overwritten(NoRows, Range(proc[p].docs), RowOf(p))
    BY <1>0, <1>4, <2>1 DEF StoreInMemory
  <2>3. rows'[p] \in Table
    BY <2>1, <2>2, NoRowsType DEF Table, Overwritten
  <2>4. AllOf(rows'[p], RowOf(p).model)
    BY <2>1, <2>2, <2>3 DEF AllOf, Overwritten, NoRows
  <2>5. QED
    BY <2>3, <2>4 DEF Uniform, AllOf
<1>5. CASE InsertRow(p)
  BY <1>0, <1>5 DEF InsertRow, MemoryOK
<1>6. QED
  BY <1>1, <1>2, <1>3, <1>4, <1>5
     DEF Changes, Ingest, Boot, SkipSeeding, StartSeeding, RunCli, EmbedBatch, AdmitModel,
         RefuseModel, Crash, Ends

\* The shared table, after a step of p.
LEMMA ModelShared ==
    ASSUME IInv, NEW p \in Procs, Changes(p), backend = "pgvector", ~overlapped'
    PROVE  /\ Uniform(rows'[Database])
           /\ \A q \in Procs : proc'[q].pc = "inserting" =>
                  AllOf(rows'[Database], proc'[q].model)
<1>0. /\ rows \in [Procs \cup {Database} -> Table] /\ proc \in [Procs -> ProcState]
      /\ rows[Database] \in Table /\ proc[p].pc = "inserting" => Stages(proc[p])
      /\ \A q \in Procs : StoreOf(q) = Database
  BY Stores DEF IInv, TypeOK, Table, StagesInv
<1>1. ~overlapped
  BY DEF Changes, Ingest, Boot, SkipSeeding, StartSeeding, RunCli, DeleteVersion, EmbedBatch,
         StoreInMemory, AdmitModel, RefuseModel, InsertRow, Crash, BeginsWriting, Meddles
<1>2. /\ Uniform(rows[Database])
      /\ \A q \in Procs : proc[q].pc = "inserting" => AllOf(rows[Database], proc[q].model)
  BY <1>0, <1>1 DEF IInv, ModelInv
<1>3. \A q \in Procs \ {p} : proc'[q] = proc[q]
  BY Stores
<1>4. CASE DeleteVersion(p)
  <2>1. proc[p].version \in Versions
    BY <1>4, RowType DEF DeleteVersion, IInv
  <2>2. rows'[Database] = Without(rows[Database], proc[p].version)
    BY <1>0, <1>4 DEF DeleteVersion
  <2>3. proc'[p].pc = "embedding"
    BY <1>0, <1>4 DEF DeleteVersion
  <2>4. QED
    BY <1>0, <1>2, <1>3, <2>1, <2>2, <2>3, ModelTables
<1>5. CASE InsertRow(p)
  <2> DEFINE c == proc[p].docs[proc[p].stored + 1]
  <2>1. RowOf(p) \in Row /\ RowOf(p).model = proc[p].model /\ proc[p].pc = "inserting"
    BY <1>5, RowType DEF InsertRow, IInv, RowOf
  <2>2. c \in Chunks
    <3>1. proc[p].docs \in Corpora \cup {<<>>} /\ proc[p].stored \in Nat
      BY <1>0 DEF ProcState
    <3>2. proc[p].stored < Len(proc[p].docs)
      BY <2>1 DEF IInv, TypeOK
    <3>3. proc[p].stored + 1 \in 1..Len(proc[p].docs)
      BY <3>1, <3>2, DocsType
    <3>4. QED
      BY <3>1, <3>3, DocsType
  <2>3. rows'[Database] = [rows[Database] EXCEPT ![c] = RowOf(p)]
    BY <1>0, <1>5 DEF InsertRow
  <2> HIDE DEF c
  <2>4. AllOf(rows'[Database], proc[p].model)
    BY <1>0, <1>2, <2>1, <2>2, <2>3 DEF AllOf, Table
  <2>5. Uniform(rows'[Database])
    BY <2>4 DEF Uniform, AllOf
  <2>6. proc'[p].model = proc[p].model
    BY <1>0, <1>5 DEF InsertRow, ProcState
  <2>7. \A q \in Procs \ {p} : proc[q].pc # "inserting"
    BY <1>0, <1>5, WritingIsNoted DEF Writing
  <2>8. QED
    BY <1>3, <2>4, <2>5, <2>6, <2>7
<1>6. CASE AdmitModel(p)
  <2>1. rows'[Database] = rows[Database]
    BY <1>6 DEF AdmitModel
  <2>2. proc'[p].model = proc[p].model
    BY <1>0, <1>6 DEF AdmitModel, ProcState
  <2>3. AllOf(rows[Database], proc[p].model)
    <3>1. Held(p) = {} \/ proc[p].model \in ModelsIn(p)
      BY <1>6 DEF AdmitModel
    <3>2. CASE Held(p) = {}
      BY <1>0, <3>2 DEF Held, AllOf
    <3>3. CASE proc[p].model \in ModelsIn(p)
      BY <1>0, <1>2, <3>3 DEF ModelsIn, Held, Uniform
    <3>4. QED
      BY <3>1, <3>2, <3>3
  <2>4. QED
    BY <1>2, <1>3, <2>1, <2>2, <2>3
<1>7. CASE ~DeleteVersion(p) /\ ~InsertRow(p) /\ ~AdmitModel(p)
  <2>1. rows'[Database] = rows[Database]
    BY <1>7, SharedFrame
  <2>2. proc'[p].pc # "inserting"
    <3>1. CASE Boot(p) \/ RunCli(p)
      BY <1>0, <3>1 DEF Boot, RunCli, Started
    <3>2. CASE SkipSeeding(p) \/ StartSeeding(p)
      BY <1>0, <3>2 DEF SkipSeeding, StartSeeding, ProcState
    <3>3. CASE EmbedBatch(p) \/ StoreInMemory(p)
      BY <1>0, <3>3 DEF EmbedBatch, StoreInMemory, EndOf, ProcState
    <3>4. CASE RefuseModel(p) \/ Crash(p)
      BY <1>0, <3>4 DEF RefuseModel, Crash, Ends, Down, Started
    <3>5. QED
      BY <1>7, <3>1, <3>2, <3>3, <3>4 DEF Changes, Ingest
  <2>3. QED
    BY <1>2, <1>3, <2>1, <2>2
<1>8. QED
  BY <1>4, <1>5, <1>6, <1>7

LEMMA ModelInvKept ==
    ASSUME IInv, NEW p \in Procs, Changes(p)
    PROVE  ModelInv'
<1>1. CASE backend = "pgvector"
  BY <1>1, ModelShared, Stores DEF ModelInv
<1>2. CASE backend = "memory"
  <2>1. MemoryInv' /\ backend' = "memory"
    BY <1>2, MemoryInvKept, Stores
  <2>2. \A q \in Procs : proc'[q].pc # "inserting"
    BY <2>1 DEF MemoryInv, MemoryOK
  <2>3. overlapped => overlapped'
    BY DEF Changes, Ingest, Boot, SkipSeeding, StartSeeding, RunCli, DeleteVersion, EmbedBatch,
           StoreInMemory, AdmitModel, RefuseModel, InsertRow, Crash, BeginsWriting, Meddles
  <2>4. \A q \in Procs : ~overlapped' => Uniform(rows'[q])
    BY <1>2, <2>3, ModelInMemory, MemoryFrame DEF IInv, ModelInv, StoreOf
  <2>5. QED
    BY <1>2, <2>2, <2>4, Stores DEF ModelInv
<1>3. QED
  BY <1>1, <1>2, Stores

-----------------------------------------------------------------------------
\* What an ingestion has stored.

\* Nothing changes for an ingestion that p does not meddle with.
LEMMA OthersUntouched ==
    ASSUME IInv, NEW p \in Procs, Changes(p), NEW q \in Procs, q # p, ~meddled'[q]
    PROVE  Untouched(q)'
<1>0. /\ proc'[q] = proc[q] /\ backend' = backend /\ StoreOf(q)' = StoreOf(q)
      /\ Writing(q)' = Writing(q) /\ RowOf(q)' = RowOf(q)
  BY Stores DEF Writing, RowOf
<1>1. ASSUME Writing(q)
      PROVE  /\ rows'[StoreOf(q)] = rows[StoreOf(q)]
             /\ ~meddled[q]
  <2>1. CASE backend = "memory"
    <3>1. StoreOf(q) = q /\ StoreOf(p) = p
      BY <2>1, Stores
    <3>2. ~Disturbs(p, q)
      BY <3>1 DEF Disturbs
    <3>3. proc[p].pc # "inserting"
      BY <2>1, Stores
    <3>4. meddled \in [Procs -> BOOLEAN]
      BY DEF IInv, TypeOK
    <3>5. ~meddled[q]
      BY <3>2, <3>4 DEF Changes, Ingest, Boot, SkipSeeding, StartSeeding, RunCli, DeleteVersion,
            EmbedBatch, StoreInMemory, AdmitModel, RefuseModel, InsertRow, Crash,
            BeginsWriting, Meddles
    <3>6. QED
      BY <2>1, <3>1, <3>5, MemoryFrame
  <2>2. CASE backend = "pgvector"
    <3>1. StoreOf(q) = Database /\ StoreOf(p) = Database
      BY <2>2, Stores
    <3>2. ~DeleteVersion(p) /\ ~InsertRow(p)
      BY <1>1, <3>1, WritingIsNoted
    <3>3. rows'[Database] = rows[Database]
      BY <2>2, <3>2, SharedFrame
    <3>4. meddled \in [Procs -> BOOLEAN]
      BY DEF IInv, TypeOK
    <3>5. ~meddled[q]
      BY <3>2, <3>4 DEF Changes, Ingest, Boot, SkipSeeding, StartSeeding, RunCli,
            EmbedBatch, StoreInMemory, AdmitModel, RefuseModel, Crash
    <3>6. QED
      BY <3>1, <3>3, <3>5
  <2>3. QED
    BY <2>1, <2>2, Stores
<1>2. CASE ~Writing(q)
  BY <1>0, <1>2 DEF Untouched, Writing
<1>3. CASE Writing(q)
  <2>1. Untouched(q)
    BY <1>1, <1>3 DEF IInv, UndisturbedInv
  <2>2. rows'[StoreOf(q)] = rows[StoreOf(q)]
    BY <1>1, <1>3
  <2>3. Held(q)' = Held(q)
    BY <1>0, <2>2 DEF Held
  <2>4. HeldAs(q, proc[q].version)' = HeldAs(q, proc[q].version)
    BY <1>0, <2>2, <2>3 DEF HeldAs
  <2>5. proc[q].pc = "inserting" => StoreOf(q) = Database
    BY Stores
  <2>6. QED
    BY <1>0, <2>1, <2>2, <2>4, <2>5 DEF Untouched
<1>4. QED
  BY <1>2, <1>3

\* A deletion leaves nothing of its version, and nothing is stored yet.
LEMMA DeletionUntouched ==
    ASSUME IInv, NEW p \in Procs, DeleteVersion(p)
    PROVE  Untouched(p)'
<1>0. /\ proc \in [Procs -> ProcState] /\ Stages(proc[p])
      /\ rows \in [Procs \cup {Database} -> Table] /\ StoreOf(p) \in Procs \cup {Database}
      /\ StoreOf(p)' = StoreOf(p)
  BY DEF IInv, TypeOK, StagesInv, Table, StoreOf, DeleteVersion
<1>1. /\ proc'[p].pc = "embedding" /\ proc'[p].version = proc[p].version
      /\ proc'[p].stored = 0
  BY <1>0 DEF DeleteVersion, ProcState, Stages
<1>2. rows'[StoreOf(p)] = Without(rows[StoreOf(p)], proc[p].version)
  BY <1>0 DEF DeleteVersion
<1>3. HeldAs(p, proc[p].version)' = {}
  BY <1>0, <1>1, <1>2 DEF HeldAs, Held, Without
<1>4. DoneBy(proc'[p]) = {}
  BY <1>1 DEF DoneBy
<1>5. QED
  BY <1>1, <1>3, <1>4 DEF Untouched

\* One more row is stored.
LEMMA InsertionUntouched ==
    ASSUME IInv, NEW p \in Procs, InsertRow(p), ~meddled[p]
    PROVE  LET done == DoneBy(proc[p]) \cup {proc[p].docs[proc[p].stored + 1]}
           IN  /\ DoneBy(proc'[p]) = done
               /\ RowOf(p)' = RowOf(p) /\ proc'[p].version = proc[p].version
               /\ proc'[p].docs = proc[p].docs /\ proc'[p].replace = proc[p].replace
               /\ \A c \in done : rows'[Database][c] = RowOf(p)
               /\ proc[p].replace => HeldAs(p, proc[p].version)' = done
<1> DEFINE s == proc[p]
           c == s.docs[s.stored + 1]
           done == DoneBy(s) \cup {c}
<1>0. /\ proc \in [Procs -> ProcState] /\ Stages(s) /\ s \in ProcState
      /\ rows \in [Procs \cup {Database} -> Table] /\ rows[Database] \in Table
      /\ s.pc = "inserting" /\ s.stored \in Nat /\ s.stored < Len(s.docs)
      /\ s.docs \in Corpora \cup {<<>>}
  BY DEF IInv, TypeOK, StagesInv, Table, InsertRow, ProcState
<1>1. backend = "pgvector" /\ StoreOf(p) = Database /\ StoreOf(p)' = Database
  BY <1>0, Stores DEF Changes, Ingest
<1>2. /\ proc'[p].stored = s.stored + 1 /\ proc'[p].version = s.version
      /\ proc'[p].model = s.model /\ proc'[p].docs = s.docs /\ proc'[p].replace = s.replace
  BY <1>0 DEF InsertRow, ProcState
<1>3. RowOf(p) \in Row /\ RowOf(p)' = RowOf(p) /\ RowOf(p).version = s.version
  BY <1>0, <1>2, RowType DEF RowOf, IInv
<1>4. s.docs \in Seq(Chunks) /\ s.stored + 1 \in 1..Len(s.docs) /\ Len(s.docs) \in Nat
  BY <1>0, DocsType
<1>5. c \in Chunks
  BY <1>4
<1>6. DoneBy(proc'[p]) = done
  <2>1. DoneBy(proc'[p]) = {s.docs[i] : i \in 1..(s.stored + 1)}
    BY <1>2 DEF DoneBy
  <2>2. 1..(s.stored + 1) = (1..s.stored) \cup {s.stored + 1}
    BY <1>0
  <2>3. QED
    BY <2>1, <2>2 DEF DoneBy
<1>7. rows'[Database] = [rows[Database] EXCEPT ![c] = RowOf(p)]
  BY <1>0 DEF InsertRow
<1> HIDE DEF c
<1>8. /\ rows'[Database][c] = RowOf(p)
      /\ \A d \in Chunks \ {c} : rows'[Database][d] = rows[Database][d]
  BY <1>0, <1>5, <1>7 DEF Table
<1>9. Untouched(p)
  BY DEF IInv, UndisturbedInv
<1>10. DoneBy(s) \subseteq Chunks
  BY <1>0, <1>4 DEF DoneBy
<1>11. \A d \in done : rows'[Database][d] = RowOf(p)
  BY <1>0, <1>8, <1>9, <1>10 DEF Untouched
<1>12. ASSUME s.replace
       PROVE  HeldAs(p, s.version)' = done
  <2>1. HeldAs(p, s.version) = DoneBy(s)
    BY <1>0, <1>9, <1>12 DEF Untouched, Writing
  <2>2. HeldAs(p, s.version) = {d \in Chunks : /\ rows[Database][d] # Absent
                                               /\ rows[Database][d].version = s.version}
    BY <1>1 DEF HeldAs, Held
  <2>3. HeldAs(p, s.version)' = {d \in Chunks : /\ rows'[Database][d] # Absent
                                                /\ rows'[Database][d].version = s.version}
    BY <1>1, <1>2 DEF HeldAs, Held
  <2>4. RowOf(p) # Absent
    BY <1>3
  <2>5. QED
    BY <1>3, <1>5, <1>8, <2>1, <2>2, <2>3, <2>4
<1>13. QED
  BY <1>2, <1>3, <1>6, <1>11, <1>12 DEF c

LEMMA OwnUntouched ==
    ASSUME IInv, NEW p \in Procs, Changes(p), ~meddled'[p]
    PROVE  Untouched(p)'
<1>0. /\ proc \in [Procs -> ProcState] /\ Stages(proc[p])
      /\ meddled \in [Procs -> BOOLEAN] /\ backend' = backend
      /\ ~meddled[p] => Untouched(p)
  BY Stores DEF IInv, TypeOK, StagesInv, UndisturbedInv
<1>1. ASSUME proc'[p].pc \notin {"inserting", "embedding", "guarding"}
      PROVE  Untouched(p)'
  BY <1>1 DEF Untouched, Writing
<1>2. CASE Boot(p) \/ SkipSeeding(p)
  BY <1>0, <1>1, <1>2 DEF Boot, SkipSeeding, Started, ProcState
<1>3. CASE StartSeeding(p)
  <2>1. proc'[p].pc = "embedding" /\ ~proc'[p].replace
    BY <1>0, <1>3 DEF StartSeeding, ProcState, Stages
  <2>2. QED
    BY <2>1 DEF Untouched, Writing
<1>4. CASE RunCli(p)
  <2>1. proc'[p].pc = "deleting" \/ (proc'[p].pc = "embedding" /\ ~proc'[p].replace)
    BY <1>0, <1>4 DEF RunCli, Started
  <2>2. QED
    BY <2>1 DEF Untouched, Writing
<1>5. CASE DeleteVersion(p)
  BY <1>5, DeletionUntouched
<1>6. ASSUME EmbedBatch(p) \/ AdmitModel(p)
      PROVE  Untouched(p)'
  <2>1. /\ proc'[p].docs = proc[p].docs /\ proc'[p].version = proc[p].version
        /\ proc'[p].stored = proc[p].stored /\ proc[p].stored = 0
        /\ proc'[p].replace = proc[p].replace /\ rows' = rows
        /\ proc[p].pc \in {"embedding", "guarding"}
        /\ proc[p].replace => ~meddled[p]
    BY <1>0, <1>6 DEF EmbedBatch, AdmitModel, ProcState, Stages
  <2>2. DoneBy(proc'[p]) = {} /\ DoneBy(proc[p]) = {}
    BY <2>1 DEF DoneBy
  <2>3. HeldAs(p, proc[p].version)' = HeldAs(p, proc[p].version)
    BY <1>0, <2>1 DEF HeldAs, Held, StoreOf
  <2>4. QED
    BY <1>0, <2>1, <2>2, <2>3 DEF Untouched, Writing
<1>7. CASE StoreInMemory(p) \/ RefuseModel(p) \/ Crash(p)
  BY <1>0, <1>1, <1>7 DEF StoreInMemory, RefuseModel, Crash, Ends, Down, Started, EndOf,
                          ProcState
<1>8. CASE InsertRow(p)
  <2>1. ~meddled[p]
    BY <1>0, <1>8 DEF InsertRow, Meddles
  <2>2. QED
    BY <1>8, <2>1, InsertionUntouched DEF Untouched
<1>9. QED
  BY <1>2, <1>3, <1>4, <1>5, <1>6, <1>7, <1>8 DEF Changes, Ingest

LEMMA UndisturbedInvKept ==
    ASSUME IInv, NEW p \in Procs, Changes(p)
    PROVE  UndisturbedInv'
BY OthersUntouched, OwnUntouched DEF UndisturbedInv

-----------------------------------------------------------------------------
LEMMA InitIInv == Init => IInv
<1> SUFFICES ASSUME Init PROVE IInv
  OBVIOUS
<1>1. /\ rows \in [Procs \cup {Database} -> Table] /\ keyword \in [Procs -> Index]
      /\ \A p \in Procs : StoreOf(p) \in Procs \cup {Database}
  BY NoRowsType DEF Init, StoreOf
<1>2. \A p \in Procs : proc[p] = Down /\ Down.pc = "down"
  BY DEF Init, Down, Started
<1>3. \A p \in Procs : ProcOK(proc[p])
  BY <1>2, DownOK
<1>4. TypeOK
  <2>1. proc \in [Procs -> ProcState] /\ \A p \in Procs : Counters(proc[p])
    BY <1>3, DownOK DEF Init, ProcOK
  <2>2. crashes \in 0..MaxCrashes /\ runs \in 0..MaxRuns /\ edits \in 0..MaxEdits
    BY DEF Init
  <2>3. meddled \in [Procs -> BOOLEAN] /\ overlapped \in BOOLEAN
    BY DEF Init
  <2>4. QED
    BY <1>1, <2>1, <2>2, <2>3 DEF Init, TypeOK, Counters, Table, Index
<1>5. StagesInv
  BY <1>3 DEF StagesInv, ProcOK
<1>6. MemoryInv
  BY <1>2 DEF Init, MemoryInv, MemoryOK
<1>7. ModelInv
  BY <1>1, <1>2, NoRowsUniform DEF Init, ModelInv
<1>8. UndisturbedInv
  BY <1>2 DEF UndisturbedInv, Untouched, Writing
<1>9. QED
  BY <1>4, <1>5, <1>6, <1>7, <1>8 DEF IInv

\* Whatever a process reads of the disk, it reads when it starts.
LEMMA IdleKeeps ==
    ASSUME IInv, Edit \/ UNCHANGED vars
    PROVE  IInv'
<1>1. /\ backend' = backend /\ rows' = rows /\ keyword' = keyword /\ proc' = proc
      /\ meddled' = meddled /\ overlapped' = overlapped
      /\ crashes' = crashes /\ runs' = runs /\ edits' \in 0..MaxEdits /\ disk' \in Corpora
  BY DEF Edit, vars, IInv, TypeOK
<1>2. TypeOK' /\ StagesInv'
  BY <1>1 DEF IInv, TypeOK, StagesInv
<1>3. MemoryInv' /\ ModelInv'
  BY <1>1 DEF IInv, MemoryInv, MemoryOK, RowOf, ModelInv, StoreOf
<1>4. UndisturbedInv'
  BY <1>1 DEF IInv, UndisturbedInv, Untouched, RowOf, HeldAs, Held, StoreOf, Writing
<1>5. QED
  BY <1>2, <1>3, <1>4 DEF IInv

LEMMA NextChanges ==
    ASSUME [Next]_vars
    PROVE  (\E p \in Procs : Changes(p)) \/ Edit \/ UNCHANGED vars
BY DEF Next, Seed, Changes, Procs

LEMMA NextIInv == IInv /\ [Next]_vars => IInv'
<1> SUFFICES ASSUME IInv, [Next]_vars PROVE IInv'
  OBVIOUS
<1>1. ASSUME NEW p \in Procs, Changes(p)
      PROVE  IInv'
  <2>1. (TypeOK /\ StagesInv)'
    BY <1>1, NextTypes DEF IInv
  <2>2. MemoryInv' /\ ModelInv' /\ UndisturbedInv'
    BY <1>1, MemoryInvKept, ModelInvKept, UndisturbedInvKept
  <2>3. QED
    BY <2>1, <2>2 DEF IInv
<1>2. QED
  BY <1>1, IdleKeeps, NextChanges

LEMMA Invariance == Spec => []IInv
BY InitIInv, NextIInv, PTL DEF Spec

-----------------------------------------------------------------------------
\* Rows, index entries and the records of the processes keep their types.
THEOREM TypeCorrect == Spec => []TypeOK
<1>1. IInv => TypeOK
  BY DEF IInv
<1>2. QED
  BY <1>1, Invariance, PTL

\* With the in-memory backend, a server that loaded its corpus serves exactly
\* the documents it found, however often it crashed on the way
\* (composition.py:336-345).
THEOREM MemoryIsWhole == Spec => []MemoryServesWhole
<1>1. IInv => MemoryServesWhole
  <2> SUFFICES ASSUME IInv, backend = "memory", NEW s \in Servers,
                      proc[s].pc = "serving" /\ proc[s].autoload
               PROVE  /\ proc[s].docs \in Corpora
                      /\ \A c \in Chunks :
                          IF c \in Range(proc[s].docs)
                          THEN rows[s][c] = RowOf(s) /\ keyword[s][c] = proc[s].version
                          ELSE rows[s][c] = Absent /\ keyword[s][c] = Absent
    BY DEF MemoryServesWhole
  <2>1. MemoryOK(s)
    BY DEF IInv, MemoryInv, Procs
  <2>2. QED
    BY <2>1 DEF MemoryOK
<1>2. QED
  BY <1>1, Invariance, PTL

\* The chunks of a store share one embedding model unless ingestions overlapped
\* (pgvector_store.py:196-208).
THEOREM ModelsNeverMix == Spec => []OneModelUnlessOverlapped
<1>1. IInv => OneModelUnlessOverlapped
  <2> SUFFICES ASSUME IInv, NEW p \in Procs, ~overlapped
               PROVE  ~(Cardinality(ModelsIn(p)) > 1)
    BY DEF OneModelUnlessOverlapped
  <2>1. Uniform(rows[StoreOf(p)])
    BY DEF IInv, ModelInv
  <2>2. \A m1, m2 \in ModelsIn(p) : m1 = m2
    BY <2>1 DEF ModelsIn, Held, Uniform, AllOf
  <2>3. CASE ModelsIn(p) = {}
    BY <2>3, FS_EmptySet
  <2>4. ASSUME NEW m \in ModelsIn(p)
        PROVE  Cardinality(ModelsIn(p)) = 1
    <3>1. ModelsIn(p) = {m}
      BY <2>2
    <3>2. QED
      BY <3>1, FS_Singleton
  <2>5. QED
    BY <2>3, <2>4
<1>2. QED
  BY <1>1, Invariance, PTL

-----------------------------------------------------------------------------
\* An ingestion ends with the step that stores in memory, or with its last row.
LEMMA HowItCompletes ==
    ASSUME IInv, [Next]_vars, NEW p \in Procs, Completes(p)
    PROVE  \/ StoreInMemory(p)
           \/ InsertRow(p) /\ proc[p].stored + 1 = Len(proc[p].docs)
<1>0. proc \in [Procs -> ProcState] /\ EndOf(p) \in {"serving", "finished"}
  BY DEF IInv, TypeOK, EndOf
<1>1. proc'[p] # proc[p]
  BY <1>0 DEF Completes
<1>2. Changes(p)
  <2>1. PICK q \in Procs : Changes(q)
    BY <1>1, NextChanges DEF Edit, vars
  <2>2. q = p
    BY <1>1, <2>1, Stores
  <2>3. QED
    BY <2>1, <2>2
<1>3. CASE Boot(p) \/ SkipSeeding(p) \/ StartSeeding(p) \/ RunCli(p)
          \/ DeleteVersion(p) \/ EmbedBatch(p)
  <2>1. proc[p].pc \notin {"guarding", "inserting"}
    BY <1>3 DEF Boot, SkipSeeding, StartSeeding, RunCli, DeleteVersion, EmbedBatch
  <2>2. QED
    BY <2>1 DEF Completes
<1>4. CASE AdmitModel(p) \/ RefuseModel(p) \/ Crash(p)
  BY <1>0, <1>4 DEF Completes, AdmitModel, RefuseModel, Crash, Ends, Down, Started, ProcState
<1>5. CASE InsertRow(p) /\ proc[p].stored + 1 # Len(proc[p].docs)
  <2>1. proc'[p].pc = proc[p].pc /\ proc[p].pc = "inserting"
    BY <1>0, <1>5 DEF InsertRow, ProcState
  <2>2. QED
    BY <1>0, <2>1 DEF Completes
<1>6. QED
  BY <1>2, <1>3, <1>4, <1>5 DEF Changes, Ingest

\* What an ingestion that nobody meddled with leaves behind.
LEMMA WhatItLeaves ==
    ASSUME IInv, [Next]_vars, NEW p \in Procs, Completes(p), ~meddled'[p]
    PROVE  LET ds == Range(proc[p].docs)
           IN  /\ \A c \in ds : /\ rows'[StoreOf(p)][c] = RowOf(p)
                                /\ keyword'[p][c] = proc[p].version
               /\ proc[p].replace => HeldAs(p, proc[p].version)' = ds
<1> DEFINE s == proc[p]
           ds == Range(s.docs)
<1>0. /\ proc \in [Procs -> ProcState] /\ s \in ProcState
      /\ rows \in [Procs \cup {Database} -> Table]
      /\ keyword \in [Procs -> Index] /\ s.docs \in Corpora \cup {<<>>}
      /\ Stages(s) /\ ~meddled[p] => Untouched(p)
  BY DEF IInv, TypeOK, ProcState, Table, Index, StagesInv, UndisturbedInv
<1>1. ds \subseteq Chunks /\ ds = {s.docs[i] : i \in 1..Len(s.docs)}
  BY <1>0, DocsType
<1>2. CASE StoreInMemory(p)
  <2>1. /\ StoreOf(p) = p /\ StoreOf(p)' = p
        /\ rows'[p] = Overwritten(rows[p], ds, RowOf(p))
        /\ keyword'[p] = Overwritten(keyword[p], ds, s.version)
        /\ proc'[p].version = s.version
    BY <1>0, <1>2 DEF StoreInMemory, StoreOf, ProcState
  <2>2. \A c \in ds : rows'[p][c] = RowOf(p) /\ keyword'[p][c] = s.version
    BY <1>1, <2>1 DEF Overwritten
  <2>3. rows[p] = NoRows
    BY <1>2, <2>1 DEF StoreInMemory, IInv, MemoryInv, MemoryOK
  <2>4. \A c \in Chunks : rows'[p][c] = IF c \in ds THEN RowOf(p) ELSE Absent
    BY <2>1, <2>3 DEF Overwritten, NoRows
  <2>5. RowOf(p) # Absent /\ RowOf(p).version = s.version
    BY <1>2, RowType DEF StoreInMemory, RowOf, IInv
  <2>6. HeldAs(p, s.version)' = ds
    BY <1>1, <2>1, <2>4, <2>5 DEF HeldAs, Held
  <2>7. QED
    BY <2>1, <2>2, <2>6
<1>3. CASE InsertRow(p) /\ s.stored + 1 = Len(s.docs)
  <2>1. /\ StoreOf(p) = Database /\ ~meddled[p]
        /\ keyword'[p] = Overwritten(keyword[p], ds, s.version)
    <3>1. s.pc = "inserting" /\ Changes(p)
      BY <1>3 DEF InsertRow, Changes, Ingest
    <3>2. StoreOf(p) = Database
      BY <3>1, Stores
    <3>3. ~meddled[p]
      BY <1>3 DEF InsertRow, Meddles
    <3>4. keyword' = [keyword EXCEPT ![p] = Overwritten(keyword[p], ds, s.version)]
      BY <1>3 DEF InsertRow
    <3>5. QED
      BY <1>0, <3>2, <3>3, <3>4
  <2>2. DoneBy(s) \cup {s.docs[s.stored + 1]} = ds
    <3>1. s.stored \in Nat /\ Len(s.docs) \in Nat
      BY <1>0, DocsType DEF ProcState
    <3>2. 1..Len(s.docs) = (1..s.stored) \cup {s.stored + 1}
      BY <1>3, <3>1
    <3>3. QED
      BY <1>1, <3>2 DEF DoneBy
  <2>3. \A c \in ds : keyword'[p][c] = s.version
    BY <1>1, <2>1 DEF Overwritten
  <2>4. QED
    BY <1>3, <2>1, <2>2, <2>3, InsertionUntouched
<1>4. QED
  BY <1>2, <1>3, HowItCompletes

\* An ingestion that reports success undisturbed has put every chunk where both
\* searches find it (ingestion.py:97-106).
THEOREM IngestionsComplete == Spec => IngestIsComplete
<1>1. IInv /\ [Next]_vars =>
        \A p \in Procs :
          (Completes(p) /\ ~meddled'[p]) =>
              \A c \in Range(proc[p].docs) :
                  /\ rows'[StoreOf(p)][c] = RowOf(p)
                  /\ keyword'[p][c] = proc[p].version
  BY WhatItLeaves
<1>2. QED
  BY <1>1, Invariance, PTL DEF Spec, IngestIsComplete

\* A replace that runs to its end undisturbed leaves its version equal to the
\* corpus, whatever was there before (ingestion.py:80-82).
THEOREM ReplacesClean == Spec => ReplaceIsClean
<1>1. IInv /\ [Next]_vars =>
        \A p \in Procs :
          (Completes(p) /\ proc[p].replace /\ ~meddled'[p]) =>
              HeldAs(p, proc[p].version)' = Range(proc[p].docs)
  BY WhatItLeaves
<1>2. QED
  BY <1>1, Invariance, PTL DEF Spec, ReplaceIsClean
=============================================================================
