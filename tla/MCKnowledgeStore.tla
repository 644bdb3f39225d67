-------------------------- MODULE MCKnowledgeStore --------------------------
(***************************************************************************)
(* Instances of KnowledgeStore for TLC.  The threads are interchangeable.  *)
(***************************************************************************)
EXTENDS KnowledgeStore, TLC

Threads == Permutations(Thread)
=============================================================================
