-------------------------- MODULE MCKnowledgeBase --------------------------
(***************************************************************************)
(* A corpus that grows or shrinks by two chunks, so that an ingestion can  *)
(* find chunks that are no longer in it; batches of two, so that the       *)
(* larger corpus has a short last batch.                                   *)
(***************************************************************************)
EXTENDS KnowledgeBase

CONSTANTS chunk1, chunk2, chunk3

MCCorpora == {<<chunk1>>, <<chunk2, chunk3, chunk1>>}
LargeCorpus == {<<chunk2, chunk3, chunk1>>}
=============================================================================
