------------------------------ MODULE Chunking ------------------------------
(***************************************************************************)
(* From a regulatory document to chunks: domain/knowledge/chunking.py, and *)
(* the filter and the terms its readers compare chunks by.                 *)
(*                                                                         *)
(* A text is the sequence of its sentences; a sentence is a record of its  *)
(* length in characters and of the terms in it, so that what is counted in *)
(* characters, tokens and terms is counted as in the code.  A control is   *)
(* its framework, its id, the length and the terms of what every part of   *)
(* it carries (id, title and keywords), and its summary.                   *)
(***************************************************************************)
EXTENDS Integers, Sequences, SequencesExt

CONSTANT Absent     \* no constraint, no row: not a value of anything

CharsPerToken == 4

\* estimate_tokens: a text that is not empty counts at least one token.
EstimateTokens(chars) ==
    IF chars = 0 THEN 0
    ELSE IF chars < CharsPerToken THEN 1 ELSE chars \div CharsPerToken

\* Sentences joined by single spaces.
CharsOf(text) == FoldLeft(LAMBDA n, s : n + s.chars, Len(text) - 1, text)
TermsOf(text) == UNION {text[i].terms : i \in DOMAIN text}

LastOf(text, n) == SubSeq(text, IF n < Len(text) THEN Len(text) - n + 1 ELSE 1, Len(text))

\* Mutant of Opened: the sentence that did not fit is forgotten.
OpenedWithout(current, sentence, overlap) == LastOf(current, overlap)

\* The group that a sentence which did not fit opens.
Opened(current, sentence, overlap) == Append(LastOf(current, overlap), sentence)

\* A sentence joins the group at hand, or opens the next one if it does not fit.
AddSentence(done, sentence, maxTokens, overlap) ==
    IF /\ done.current # <<>>
       /\ EstimateTokens(CharsOf(Append(done.current, sentence))) > maxTokens
    THEN [groups |-> Append(done.groups, done.current),
          current |-> Opened(done.current, sentence, overlap)]
    ELSE [done EXCEPT !.current = Append(@, sentence)]

\* _split_summary: a summary over the cap becomes groups of sentences; a group
\* opens with the last sentences of the one before.
SplitSummary(summary, maxTokens, overlap) ==
    LET Add(done, sentence) == AddSentence(done, sentence, maxTokens, overlap)
        end == FoldLeft(Add, [groups |-> <<>>, current |-> <<>>], summary)
    IN  IF EstimateTokens(CharsOf(summary)) <= maxTokens
        THEN <<summary>>
        ELSE Append(end.groups, end.current)

\* A text has finitely many words.
Terms == {terms \in SUBSET STRING : IsFiniteSet(terms)}

\* What a loaded document is validated for: no control is empty.
Sentence == [chars : Nat \ {0}, terms : Terms]
IsControl(control) ==
    /\ control.summary \in Seq(Sentence) \ {<<>>}
    /\ control.head \in Nat
    /\ control.terms \in Terms

\* A chunk is what its id hashes: framework, control, number and text of the
\* part.  The corpus version is not in it.
ChunksOf(control, maxTokens, overlap) ==
    LET parts == SplitSummary(control.summary, maxTokens, overlap)
    IN  {[framework |-> control.framework, control |-> control.id, index |-> i,
          chars |-> control.head + CharsOf(parts[i]),
          terms |-> control.terms \cup TermsOf(parts[i]),
          part |-> parts[i]] : i \in DOMAIN parts}

\* content_hash: the rendered text, which does not name the framework.
ContentHash(chunk) == <<chunk.control, chunk.chars, chunk.terms, chunk.part>>

\* MetadataFilter.matches; language and jurisdiction are compared as the
\* framework is.
Matches(filter, row) ==
    /\ filter.framework \in {Absent, row.chunk.framework}
    /\ filter.control \in {Absent, row.chunk.control}
    /\ filter.version \in {Absent, row.version}
=============================================================================
