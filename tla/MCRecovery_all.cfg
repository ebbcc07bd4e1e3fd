SPECIFICATION Spec
CONSTANTS
  NWords = 2
  Val = {0, 1, 2}
  LogSet <- Logs
  MaxDeps = 2
  MaxCrashes = 2
INVARIANT AllRecovered
CHECK_DEADLOCK FALSE
