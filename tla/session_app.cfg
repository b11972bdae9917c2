SPECIFICATION AppSpec
CONSTANTS
  Starter = starter
  Stopper = stopper
  Callers = {c1, c2}
  Retriers = {}
  Loops = {l1, l2}
  Links = {t1, t2, t3}
  None = none
  StartFailures = {"transport", "auth", "bootstrap", "mismatch", "malformed"}
  ExitKinds = {"transport"}
  VersionFrames = FALSE
  QuitDuringStart = FALSE
SYMMETRY Symmetry
INVARIANTS
  OneLink
  NotRetried
  ConnectedIsServed
  StopLeavesNothingOpen
  BackOnlineIsFresh
CHECK_DEADLOCK FALSE
