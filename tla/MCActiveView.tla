---------------------------- MODULE MCActiveView ----------------------------
(* Small instances of ActiveView: jobs and workers are model values.        *)
EXTENDS ActiveView, TLC

Symmetry == Permutations(Jobs) \cup Permutations(Cancellers)
=============================================================================
