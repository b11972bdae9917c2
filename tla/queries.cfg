SPECIFICATION Spec
CONSTANTS
  Workers = {w1, w2}
  Faults = TRUE
  MaxQueries = 3
SYMMETRY Symmetry
INVARIANTS
  Found
  DetailNotBehind
  CancelTellsTruth
CHECK_DEADLOCK FALSE
