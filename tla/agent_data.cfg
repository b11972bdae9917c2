SPECIFICATION DataSpec
CONSTANTS
  Length = 8
  MaxTime = 4
  Jobs = {j1}
  Tasks = {1}
  MaxCalls = 4
  MaxRuns = 2
INVARIANTS
  Denotes
  Maximal
  SourcesAgree
  NothingLost
  LoadsWhole
PROPERTIES
  TimesAreFinal
  ReplaysInOrder
CHECK_DEADLOCK FALSE
