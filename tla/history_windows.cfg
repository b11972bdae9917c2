SPECIFICATION Spec
CONSTANTS
  Jobs = {j1, j2}
  PastEnds <- Past
  Width = 2
  MaxAge = 3
  MaxTime = 3
  None = none
SYMMETRY Symmetry
INVARIANTS
  OnceEach
  Covers
PROPERTIES
  RecentStays
