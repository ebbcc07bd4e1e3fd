CONSTANTS
  t1 = t1
  t2 = t2
  Thread = {t1}
  NPages = 3
  Val = {0, 1}
  InitSize = 2
  Sizes = {1, 2}
  NamespaceCnt = 16
  QueueDepth = 3
  InOrder = TRUE
  IOErrors = TRUE
SPECIFICATION FairSpec
INVARIANTS TypeOK Residency
PROPERTIES ImplementsFlat CallsReturn StoresComplete
