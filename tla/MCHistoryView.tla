--------------------------- MODULE MCHistoryView ---------------------------
(* Small instances of HistoryView: jobs are interchangeable model values.   *)
EXTENDS HistoryView, TLC

Symmetry == Permutations(Jobs)
Past == -5..-1
=============================================================================
