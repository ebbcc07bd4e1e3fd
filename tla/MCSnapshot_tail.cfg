SPECIFICATION Spec
CONSTANTS
  NWords = 4
  Val = {0, 1}
  Touched = 1
  Stores <- LineStores
  Ranges <- WholeFile
  SortThreshold = 2
  UntrackedStores = FALSE
  MaxLog = 4
  MaxCrashes = 1
INVARIANTS TailFlushed
