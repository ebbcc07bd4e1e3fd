SPECIFICATION Spec
CONSTANTS
  NWords = 3
  Val = {0, 1}
  Touched = 1
  Stores <- SmallStores
  Ranges <- WholeFile
  SortThreshold = 2
  UntrackedStores = TRUE
  MaxLog = 3
  MaxCrashes = 1
INVARIANTS UpdatesDrained
