---------------------------- MODULE MCBootstrap ----------------------------
(* Small instances of Bootstrap: scripts are interchangeable model values.  *)
EXTENDS Bootstrap, TLC

Symmetry == Permutations(Scripts)
=============================================================================
