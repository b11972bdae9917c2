SPECIFICATION FairSpec
CONSTANTS
  Callers = {c1, c2}
  Questions = {q1, q2}
  None = none
  ExitKinds = {"transport", "auth"}
  MaxId = 3
  MaxLines = 2
INVARIANTS
  PendingExact
  Correlated
  ClosedIsQuiet
PROPERTIES
  KeepsContract
  CloseReturns
CHECK_DEADLOCK FALSE
