------------------------- MODULE MCClientSession -------------------------
(* Small instances of ClientSession: model values for the coroutines and    *)
(* transports, which are interchangeable within their sets.                 *)
EXTENDS ClientSession, TLC

Symmetry ==
  Permutations(Callers) \cup Permutations(Loops) \cup Permutations(Links)
============================================================================
