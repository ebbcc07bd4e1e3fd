SPECIFICATION MCSpec
CONSTANTS
  NWords = 2
  Val = {0, 1, 2}
  LogSet <- Logs
  MaxDeps = 2
  MaxCrashes = 2
  DataWords = 8
  MAX_SAMPLES = 2
  Pages = {0, 1}
  QSIZE = 4
  MaxJobs = 3
  ListLen = 3
  NTHREADS = 3
INVARIANTS
  ReplayIsUndo
  DistExact
  HInv
  NoLostIncrement
PROPERTIES
  RecoveryEnds
  DistReturns
  BufferKept
  ConstructorReturns
  JobsServed
  AllJoined
CHECK_DEADLOCK FALSE
