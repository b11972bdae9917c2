----------------------- MODULE MCSubprocessTransport -----------------------
(* Small instances of SubprocessTransport: callers and questions are model  *)
(* values and interchangeable.                                              *)
EXTENDS SubprocessTransport, TLC

Symmetry == Permutations(Callers) \cup Permutations(Questions)
=============================================================================
