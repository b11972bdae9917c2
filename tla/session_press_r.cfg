SPECIFICATION PressSpec
CONSTANTS
  Starter = starter
  Stopper = stopper
  Callers = {c1}
  Retriers = {}
  Loops = {l1, l2}
  Links = {t1, t2}
  None = none
  StartFailures = {"transport"}
  ExitKinds = {"transport", "auth"}
  VersionFrames = FALSE
  QuitDuringStart = FALSE
PROPERTIES
  PressReconnects
CHECK_DEADLOCK FALSE
