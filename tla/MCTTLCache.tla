----------------------------- MODULE MCTTLCache -----------------------------
(* The cache with interchangeable keys and answers.                        *)
EXTENDS TTLCache, TLC

Symmetry == Permutations(Keys) \cup Permutations(Values)
=============================================================================
