---------------------------- MODULE MCSidePanels ----------------------------
(* Small instances of SidePanels: jobs and workers are interchangeable.     *)
EXTENDS SidePanels, TLC

Symmetry == Permutations(Jobs) \cup Permutations(Workers)
=============================================================================
