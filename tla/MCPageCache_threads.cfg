CONSTANTS
  t1 = t1
  t2 = t2
  Thread = {t1, t2}
  NPages = 3
  Val = {0, 1}
  InitSize = 1
  Sizes = {}
  NamespaceCnt = 3
  QueueDepth = 4
  InOrder = TRUE
  IOErrors = FALSE
SPECIFICATION Spec
INVARIANT UsedPagesBounded
CHECK_DEADLOCK FALSE
