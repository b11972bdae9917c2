SPECIFICATION RecoverySpec
CONSTANTS
  Starter = starter
  Stopper = stopper
  Callers = {c1, c2, c3}
  Retriers = {}
  Loops = {l1, l2}
  Links = {t1, t2, t3}
  None = none
  StartFailures = {"transport", "auth", "bootstrap", "mismatch"}
  ExitKinds = {"transport", "auth"}
  VersionFrames = FALSE
  QuitDuringStart = TRUE
INVARIANTS
  OneOwner
PROPERTIES
  OperationsReturn
  Recovers
CHECK_DEADLOCK FALSE
