CONSTANTS
  t1 = t1
  t2 = t2
  Thread = {t1}
  NPages = 3
  Val = {0, 1}
  InitSize = 2
  Sizes = {1, 2}
  NamespaceCnt = 3
  QueueDepth = 2
  InOrder = FALSE
  IOErrors = FALSE
SPECIFICATION Spec
INVARIANT FillsLatest
