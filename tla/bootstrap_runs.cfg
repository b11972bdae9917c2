SPECIFICATION Spec
CONSTANTS
  Scripts = {s1}
  Parts = 3
  MaxRuns = 4
  CutOffs = FALSE
  Absent = absent
SYMMETRY Symmetry
INVARIANTS
  NoPartialEnvironment
  EndsAsReported
PROPERTIES
  OnlyAtTheEnd
CHECK_DEADLOCK FALSE
