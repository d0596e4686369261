----------------------------- MODULE Retrieval -----------------------------
(***************************************************************************)
(* The read path of the knowledge base: HybridRetriever.retrieve and       *)
(* ContextAssembler.assemble, over the two stores, while another process   *)
(* re-indexes the shared table (KnowledgeBase is about the writers).       *)
(*                                                                         *)
(* A search waits where the code does: for the embedding of its query,     *)
(* and with pgvector for the SELECT of the model guard and for the one of  *)
(* the rows.  What follows (keyword search, fusion, reranking, diversity,  *)
(* assembly) is one step, because none of these adapters suspends.         *)
(*                                                                         *)
(* Abstractions: cosine similarity and BM25 give some order of the rows    *)
(* they rank (any), of which only membership is kept: a filter match, and  *)
(* for BM25 a common term.  Scores are exact fractions, <<n, d>>.          *)
(***************************************************************************)
EXTENDS Chunking, FiniteSets, FiniteSetsExt

CONSTANTS
    Searches,           \* requests that search
    Corpora,            \* corpora, sets of controls, that may be indexed
    Questions,          \* [terms, filter, topK, min]: what may be asked
    Models, Versions, Backends,
    CandidateMultiplier, RerankTopK, RrfK, MmrLambda,   \* RetrievalConfig
    TokenBudget, ChunkMaxTokens, Overlap,
    BlockFrame,         \* characters a context block adds to its chunk
    MaxWrites           \* bound on the other process

ASSUME RetrievalAssumption ==
    /\ \A controls \in Corpora : \A control \in controls : IsControl(control)
    /\ Backends \subseteq {"memory", "pgvector"}
    /\ CandidateMultiplier \in 1..20 /\ RerankTopK \in 1..100 /\ RrfK \in Nat \ {0}
    /\ MmrLambda \in Nat \X (Nat \ {0}) /\ MmrLambda[1] <= MmrLambda[2]
    /\ TokenBudget \in Nat /\ TokenBudget >= 128
    /\ ChunkMaxTokens \in Nat /\ ChunkMaxTokens >= 64
    /\ Overlap \in Nat /\ MaxWrites \in Nat
    \* the marker, the brackets and "Source:" are in every block
    /\ BlockFrame \in Nat /\ BlockFrame >= CharsPerToken
    /\ \A q \in Questions : /\ q.topK \in 1..50 /\ q.terms \in Terms
                            /\ q.min \in Int \X (Nat \ {0})

VARIABLES
    backend,    \* settings.vector_store
    model,      \* the embedding model of this process
    corpus,     \* the controls that were indexed when it started
    table,      \* rows of the vector store
    keyword,    \* rows of this process's keyword index
    search,     \* the searches
    writes

vars == <<backend, model, corpus, table, keyword, search, writes>>

-----------------------------------------------------------------------------
\* Fractions in lowest terms, and rankings.

Gcd[p \in Nat \X Nat] == IF p[2] = 0 THEN p[1] ELSE Gcd[<<p[2], p[1] % p[2]>>]
Frac(n, d) == LET g == Gcd[<<IF n < 0 THEN -n ELSE n, d>>] IN <<n \div g, d \div g>>
Plus(x, y) == Frac(x[1] * y[2] + y[1] * x[2], x[2] * y[2])
Minus(x, y) == Frac(x[1] * y[2] - y[1] * x[2], x[2] * y[2])
Times(x, y) == Frac(x[1] * y[1], x[2] * y[2])
Over(x, y) == Frac(x[1] * y[2], x[2] * y[1])
Less(x, y) == x[1] * y[2] < y[1] * x[2]
Zero == <<0, 1>>
One == <<1, 1>>

Greatest(X) == CHOOSE x \in X : \A y \in X : ~Less(x, y)
Least(X) == CHOOSE x \in X : \A y \in X : ~Less(y, x)

\* list.sort(key=score, reverse=True), which is stable.
Ahead(list, i, j) ==
    \/ Less(list[j].score, list[i].score)
    \/ ~Less(list[i].score, list[j].score) /\ i < j
At(list, n) ==
    CHOOSE i \in DOMAIN list : Cardinality({j \in DOMAIN list : Ahead(list, j, i)}) = n - 1
ByScore(list) == [n \in DOMAIN list |-> list[At(list, n)]]

FirstOf(list, n) == SubSeq(list, 1, IF n < Len(list) THEN n ELSE Len(list))
ChunksIn(list) == {list[i].chunk : i \in DOMAIN list}
RankOf(list, chunk) == CHOOSE i \in DOMAIN list : list[i].chunk = chunk

-----------------------------------------------------------------------------
\* Reciprocal rank fusion (fusion.py).

\* Mutant of FusedScore: the second list's share replaces the first one's.
FusedScoreLast(lists, chunk) ==
    FoldLeft(LAMBDA total, list :
                 IF chunk \in ChunksIn(list) THEN <<1, RrfK + RankOf(list, chunk)>>
                 ELSE total,
             Zero, lists)

FusedScore(lists, chunk) ==
    FoldLeft(LAMBDA total, list :
                 IF chunk \in ChunksIn(list)
                 THEN Plus(total, <<1, RrfK + RankOf(list, chunk)>>)
                 ELSE total,
             Zero, lists)

\* reciprocal_rank_fusion: a chunk keeps the row of the first list that has it.
AddRow(lists, list, row) ==
    IF row.chunk \in ChunksIn(list) THEN list
    ELSE Append(list, [row EXCEPT !.score = FusedScore(lists, row.chunk)])
Fused(lists) ==
    LET Add(list, row) == AddRow(lists, list, row)
    IN  ByScore(FoldLeft(Add, <<>>, FlattenSeq(lists)))

-----------------------------------------------------------------------------
\* LexicalReranker.rerank: the share of the query's terms a chunk covers.

Reranked(terms, list) ==
    LET Coverage(row) == Frac(Cardinality(terms \cap row.chunk.terms), Cardinality(terms))
    IN  FirstOf(IF terms = {} THEN list
                ELSE ByScore([i \in DOMAIN list |->
                                  [list[i] EXCEPT !.score = Coverage(list[i])]]),
                RerankTopK)

\* jaccard_similarity of two texts' terms.
Similarity(a, b) ==
    IF a.terms = {} \/ b.terms = {} THEN Zero
    ELSE Frac(Cardinality(a.terms \cap b.terms), Cardinality(a.terms \cup b.terms))

\* Mutant of Unpicked: a row that was selected stays a candidate.
UnpickedAll(list, done) == DOMAIN list

Unpicked(list, done) == DOMAIN list \ ToSet(done)

\* mmr_select: greedily the row that is relevant and unlike those selected.
Relevance(list, i) ==
    LET scores == {list[n].score : n \in DOMAIN list}
        span == Minus(Greatest(scores), Least(scores))
    IN  IF span = Zero THEN One ELSE Over(Minus(list[i].score, Least(scores)), span)

Likeness(list, i, done) ==
    IF done = <<>> THEN Zero
    ELSE Greatest({Similarity(list[i].chunk, list[j].chunk) : j \in ToSet(done)})

Value(list, i, done) ==
    Minus(Times(MmrLambda, Relevance(list, i)),
          Times(Minus(One, MmrLambda), Likeness(list, i, done)))

\* The candidates are tried in order, and one has to be better to replace another.
Best(list, left, done) ==
    LET value == [i \in left |-> Value(list, i, done)]
    IN  CHOOSE i \in left : \A j \in left \ {i} :
            Less(value[j], value[i]) \/ (~Less(value[i], value[j]) /\ i < j)

AddBest(list, done) ==
    LET left == Unpicked(list, done)
    IN  IF left = {} THEN done ELSE Append(done, Best(list, left, done))

Diverse(list, topK) ==
    LET Add(done, n) == AddBest(list, done)
        picked == FoldLeft(Add, <<>>, [n \in 1..topK |-> n])
    IN  IF list = <<>> THEN <<>> ELSE [n \in DOMAIN picked |-> list[picked[n]]]

\* The score threshold.
Kept(list, min) ==
    FoldLeft(LAMBDA kept, row : IF Less(row.score, min) THEN kept ELSE Append(kept, row),
             <<>>, list)

-----------------------------------------------------------------------------
\* ContextAssembler.assemble (context_assembly.py).

BlockChars(row) == row.chunk.chars + BlockFrame

\* Mutant of Closed: a block that does not fit is passed over.
ClosedNot(done) == done

Closed(done) == [done EXCEPT !.full = TRUE]

\* The rows whose blocks go into the context: no content twice, and none after
\* the first block that does not fit; the first one always does.
AddBlock(done, row, budget) ==
    LET tokens == EstimateTokens(BlockChars(row))
    IN  IF done.full \/ \E i \in DOMAIN done.rows :
                            ContentHash(done.rows[i].chunk) = ContentHash(row.chunk)
        THEN done
        ELSE IF done.rows # <<>> /\ done.used + tokens > budget
        THEN Closed(done)
        ELSE [done EXCEPT !.rows = Append(@, row), !.used = @ + tokens]

Packed(result, budget) ==
    LET Add(done, row) == AddBlock(done, row, budget)
    IN  FoldLeft(Add, [rows |-> <<>>, used |-> 0, full |-> FALSE], result).rows

\* AssembledContext of the packed rows; blocks are joined by a blank line.
Context(rows) ==
    LET chars == FoldLeft(LAMBDA n, row : n + BlockChars(row),
                          IF rows = <<>> THEN 0 ELSE 2 * (Len(rows) - 1), rows)
    IN  [rows |-> rows,
         citations |-> [i \in DOMAIN rows |-> [framework |-> rows[i].chunk.framework,
                                               control |-> rows[i].chunk.control]],
         tokens |-> EstimateTokens(chars)]

-----------------------------------------------------------------------------
Row(chunk, version, m) == [chunk |-> chunk, version |-> version, model |-> m, score |-> Zero]
ChunksOfCorpus(controls) ==
    UNION {ChunksOf(control, ChunkMaxTokens, Overlap) : control \in controls}
AllChunks == UNION {ChunksOfCorpus(controls) : controls \in Corpora}
Stored(controls, version, m) == {Row(c, version, m) : c \in ChunksOfCorpus(controls)}
ModelsOf(rows) == {row.model : row \in rows}

NoQuestion == [terms |-> {}, filter |-> Absent, topK |-> 0, min |-> Zero]
Nothing == [semantic |-> <<>>, lexical |-> <<>>, fused |-> <<>>, reranked |-> <<>>,
            result |-> <<>>, context |-> Context(<<>>)]
\* moved is history: the table was written to after this search's model guard.
Idle == [pc |-> "idle", question |-> NoQuestion, moved |-> FALSE, found |-> Nothing]

\* A process that has indexed its corpus, or finds it indexed in the database,
\* perhaps for another model, and then has an empty keyword index.
Init ==
    /\ backend \in Backends
    /\ model \in Models
    /\ corpus \in Corpora
    /\ \E v \in Versions, m \in (IF backend = "memory" THEN {model} ELSE Models) :
          table = Stored(corpus, v, m)
    /\ keyword \in {table} \cup (IF backend = "memory" THEN {} ELSE {{}})
    /\ search = [s \in Searches |-> Idle]
    /\ writes = 0

\* retrieve is called; the gateway is asked for the embedding of the query.
Ask(s) ==
    /\ search[s].pc = "idle"
    /\ \E q \in Questions :
           search' = [search EXCEPT ![s] = [Idle EXCEPT !.pc = "embedding", !.question = q]]
    /\ UNCHANGED <<backend, model, corpus, table, keyword, writes>>

\* Any exception: of the gateway, of the database, an embedding that is not in
\* the answer, a cancellation.
Fail(s) ==
    /\ search[s].pc \in {"embedding", "guarding", "selecting"}
    /\ search' = [search EXCEPT ![s] = [Idle EXCEPT !.pc = "failed"]]
    /\ UNCHANGED <<backend, model, corpus, table, keyword, writes>>

\* The rows each store ranks.
ByMeaning(q) == {row \in table : Matches(q.filter, row)}
ByWords(q) == {row \in keyword : Matches(q.filter, row) /\ q.terms \cap row.chunk.terms # {}}

\* What retrieve and assemble make of the two rankings.
Found(q, semantic, lexical) ==
    LET fused == Fused(<<semantic, lexical>>)
        reranked == Reranked(q.terms, FirstOf(fused, RerankTopK))
        result == Kept(Diverse(reranked, q.topK), q.min)
    IN  [semantic |-> semantic, lexical |-> lexical, fused |-> fused,
         reranked |-> reranked, result |-> result,
         context |-> Context(Packed(result, TokenBudget))]

\* The rows of the vector store arrive, and everything after them.
Finish(s) ==
    LET q == search[s].question
        k == q.topK * CandidateMultiplier
    IN  \E meant \in SetToSeqs(ByMeaning(q)), worded \in SetToSeqs(ByWords(q)) :
            search' = [search EXCEPT ![s].pc = "done",
                           ![s].found = Found(q, FirstOf(meant, k), FirstOf(worded, k))]

\* With the in-memory store nothing suspends once the query is embedded; the
\* store compares its own model with the query's.
SearchMemory(s) ==
    /\ search[s].pc = "embedding"
    /\ backend = "memory"
    /\ table = {} \/ model \in ModelsOf(table)
    /\ Finish(s)
    /\ UNCHANGED <<backend, model, corpus, table, keyword, writes>>

Embedded(s) ==
    /\ search[s].pc = "embedding"
    /\ backend = "pgvector"
    /\ search' = [search EXCEPT ![s].pc = "guarding"]
    /\ UNCHANGED <<backend, model, corpus, table, keyword, writes>>

\* Mutant of Guard: the stored model is not compared.
GuardNothing(s) ==
    /\ search[s].pc = "guarding"
    /\ search' = [search EXCEPT ![s].pc = "selecting", ![s].moved = FALSE]
    /\ UNCHANGED <<backend, model, corpus, table, keyword, writes>>

\* _guard_query_model reads the model of any one row.
Guard(s) ==
    /\ search[s].pc = "guarding"
    /\ table = {} \/ model \in ModelsOf(table)
    /\ search' = [search EXCEPT ![s].pc = "selecting", ![s].moved = FALSE]
    /\ UNCHANGED <<backend, model, corpus, table, keyword, writes>>

Select(s) ==
    /\ search[s].pc = "selecting"
    /\ Finish(s)
    /\ UNCHANGED <<backend, model, corpus, table, keyword, writes>>

\* Another process deletes a version from the shared table, or adds a chunk of
\* its corpus that the model guard of upsert lets in.
Writes(rows) ==
    /\ backend = "pgvector"
    /\ writes < MaxWrites
    /\ rows # table
    /\ table' = rows
    /\ writes' = writes + 1
    /\ search' = [s \in Searches |-> [search[s] EXCEPT !.moved = @ \/ search[s].pc = "selecting"]]
    /\ UNCHANGED <<backend, model, corpus, keyword>>

OtherDeletes(v) == Writes({row \in table : row.version # v})

OtherUpserts(chunk, v, m) ==
    /\ ModelsOf(table) \subseteq {m}
    /\ Writes({row \in table : row.chunk # chunk} \cup {Row(chunk, v, m)})

Next ==
    \/ \E s \in Searches : \/ Ask(s) \/ Fail(s)
                           \/ SearchMemory(s) \/ Embedded(s) \/ Guard(s) \/ Select(s)
    \/ \E v \in Versions : OtherDeletes(v)
    \/ \E c \in AllChunks, v \in Versions, m \in Models : OtherUpserts(c, v, m)

Spec == Init /\ [][Next]_vars

-----------------------------------------------------------------------------
Rows == [chunk : AllChunks, version : Versions, model : Models, score : {Zero}]

\* A corpus is a directory of files: there is an end to what can be stored.
ASSUME StorageAssumption == IsFiniteSet(Rows)

Done(s) == search[s].pc = "done"

\* The lists of what was found repeat no chunk and add none.
Sized(q, f) ==
    /\ Len(f.result) <= q.topK
    /\ \A list \in {f.fused, f.reranked, f.result, f.context.rows} :
          /\ Cardinality(ChunksIn(list)) = Len(list)
          /\ ChunksIn(list) \subseteq ChunksIn(f.semantic) \cup ChunksIn(f.lexical)

\* Which steps a search has behind it, what it holds then, and what its lists
\* are made of.
TypeOK ==
    /\ backend \in Backends /\ model \in Models /\ corpus \in Corpora
    /\ table \subseteq Rows /\ keyword \subseteq Rows
    /\ \A r1, r2 \in table : r1.chunk = r2.chunk => r1 = r2
    /\ writes \in 0..MaxWrites
    /\ \A s \in Searches :
          LET found == search[s].found
              q == search[s].question
          IN  /\ search[s].pc \in {"idle", "embedding", "guarding", "selecting", "done", "failed"}
              /\ q \in Questions \cup {NoQuestion}
              /\ ~Done(s) => found = Nothing
              /\ Sized(q, found)

\* Every sentence of every control is in some chunk of it, in order, however the
\* summary was split; two chunks never have the same id; and a chunk is over the
\* cap only by the sentences it repeats, or because one sentence is
\* (chunking.py:8-10, 85-86).
SplitLosesNothing ==
    \A control \in corpus :
        LET chunks == ChunksOf(control, ChunkMaxTokens, Overlap)
            n == Cardinality(chunks)
            Part(i) == (CHOOSE c \in chunks : c.index = i).part
            fresh == [i \in 1..n |->
                         IF i = 1 THEN Part(1)
                         ELSE SubSeq(Part(i), Len(LastOf(Part(i - 1), Overlap)) + 1,
                                     Len(Part(i)))]
        IN  /\ FlattenSeq(fresh) = control.summary
            /\ \A i \in 1..n :
                  /\ fresh[i] # <<>>
                  /\ i > 1 => IsPrefix(LastOf(Part(i - 1), Overlap), Part(i))
                  /\ \/ EstimateTokens(CharsOf(Part(i))) <= ChunkMaxTokens
                     \/ Len(fresh[i]) = 1 /\ Len(Part(i)) <= Overlap + 1

\* x is at least as high as y in list, or y is not in it.
AtLeast(list, x, y) ==
    y \in ChunksIn(list) => x \in ChunksIn(list) /\ RankOf(list, x) <= RankOf(list, y)

\* What a search made of its two rankings follows their order.
FollowsRanks(q, f) ==
    LET lists == {f.semantic, f.lexical}
    IN  /\ ChunksIn(f.fused) = UNION {ChunksIn(l) : l \in lists}
        /\ \A x, y \in ChunksIn(f.fused) :
              (/\ x # y
               /\ \A l \in lists : AtLeast(l, x, y)) =>
                  RankOf(f.fused, x) < RankOf(f.fused, y)
        /\ q.min = Zero => Len(f.result) = Min({q.topK, RerankTopK, Len(f.fused)})
        /\ f.result # <<>> => \A i \in DOMAIN f.reranked :
                                  ~Less(f.result[1].score, f.reranked[i].score)
        /\ \A i \in DOMAIN f.result : Matches(q.filter, f.result[i])

\* A chunk that neither search ranks below another one is fused above it; the
\* fused list has all that was found; the best of the reranked candidates is the
\* first result; and with no score threshold nothing is left out but for topK
\* and the rerank cut (fusion.py:5-13, retrieval.py:64-81).
ResultFollowsRanks ==
    \A s \in Searches : Done(s) => FollowsRanks(search[s].question, search[s].found)

\* c is a context of the rows of result.
Cited(result, c) ==
    LET n == Len(c.rows)
        Hash(row) == ContentHash(row.chunk)
        First(row) == Min({i \in DOMAIN result : Hash(result[i]) = Hash(row)})
    IN  /\ (n = 0) <=> (result = <<>>)
        /\ Len(c.citations) = n
        /\ \A i \in DOMAIN c.rows :
              /\ c.rows[i] = result[First(c.rows[i])]
              /\ i > 1 => First(c.rows[i - 1]) < First(c.rows[i])
              /\ \A j \in 1..First(c.rows[i]) :
                    \E h \in 1..i : Hash(c.rows[h]) = Hash(result[j])
        /\ n > 1 => c.tokens <= TokenBudget + (5 * n - 2) \div CharsPerToken
        /\ \/ ToSet(result) = {}
           \/ {Hash(row) : row \in ToSet(result)} = {Hash(row) : row \in ToSet(c.rows)}
           \/ c.tokens + Max({EstimateTokens(BlockChars(row)) : row \in ToSet(result)})
                  >= TokenBudget

\* The context holds the results in their order, each text once, up to the first
\* one that does not fit; it has a citation for each block and is empty only when
\* nothing was found.  It exceeds the budget by no more than what is lost in
\* rounding each block down, or because its only block does
\* (context_assembly.py:22-30).
ContextIsCited ==
    \A s \in Searches : Done(s) => Cited(search[s].found.result, search[s].found.context)

\* The vectors a query is compared with are of its own model, unless the table
\* was written to between the guard and the search (pgvector_store.py:15-17, 169).
ResultsComparable ==
    \A s \in Searches :
        (Done(s) /\ ~search[s].moved) =>
            ModelsOf(ToSet(search[s].found.semantic)) \subseteq {model}
=============================================================================
