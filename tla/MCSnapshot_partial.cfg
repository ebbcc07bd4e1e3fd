SPECIFICATION Spec
CONSTANTS
  NWords = 3
  Val = {0, 1}
  Touched = 1
  Stores <- SmallStores
  Ranges <- PartRanges
  SortThreshold = 1
  UntrackedStores = FALSE
  MaxLog = 2
  MaxCrashes = 1
INVARIANTS RangeDurable
