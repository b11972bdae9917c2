---------------------------- MODULE MCAppSession ----------------------------
(* Instances of AppSession for TLC: workers, loops and transports are       *)
(* interchangeable within their sets.                                       *)
EXTENDS AppSession, TLC

Symmetry ==
  Permutations(Callers) \cup Permutations(Loops) \cup Permutations(Links)
=============================================================================
