SPECIFICATION FairSpec
CONSTANTS
  Jobs = {j1, j2}
  Workers = {w1, w2}
  None = none
  Unavailable = unavailable
INVARIANTS
  DetailFollows
  UsageFollows
PROPERTIES
  FiguresArrive
