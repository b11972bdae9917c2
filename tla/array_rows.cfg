SPECIFICATION RowsSpec
CONSTANTS
  Size = 3
  Solo = Solo
  NoTarget = NoTarget
INVARIANTS
  RowsExact
  DecisionExact
PROPERTIES
  KillsWhatWasConfirmed
CHECK_DEADLOCK FALSE
