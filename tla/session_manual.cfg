SPECIFICATION Spec
CONSTANTS
  Starter = starter
  Stopper = stopper
  Callers = {c1}
  Retriers = {r1}
  Loops = {l1, l2}
  Links = {t1, t2, t3}
  None = none
  StartFailures = {"transport", "auth", "bootstrap", "mismatch"}
  ExitKinds = {"transport", "auth"}
  VersionFrames = TRUE
  QuitDuringStart = TRUE
SYMMETRY Symmetry
INVARIANTS
  RetryInFlight
CHECK_DEADLOCK FALSE
