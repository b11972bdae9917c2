----------------------------- MODULE MCQueries -----------------------------
(* Small instances of Queries: threads are interchangeable.                 *)
EXTENDS Queries, TLC

Symmetry == Permutations(Workers)
=============================================================================
