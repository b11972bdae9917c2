SPECIFICATION FairSpec
CONSTANTS
  Jobs = {j1, j2}
  Cancellers = {w1, w2}
  None = none
INVARIANTS
  TableFollows
  TargetOnScreen
PROPERTIES
  HandedOffOnce
  Arrives
