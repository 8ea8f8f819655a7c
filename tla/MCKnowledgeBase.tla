-------------------------- MODULE MCKnowledgeBase --------------------------
(***************************************************************************)
(* Ids and texts are only compared, so any can be taken for another.       *)
(***************************************************************************)
EXTENDS KnowledgeBase, TLC

Alike == Permutations(Ids) \cup Permutations(Texts)
=============================================================================
