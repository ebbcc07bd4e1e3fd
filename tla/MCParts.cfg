SPECIFICATION MCSpec
CONSTANTS
  Thr = {t1, t2}
  TWords = {1, 2}
  SortOver = 2
  MaxTStores = 3
  MaxTSnaps = 2
  MapPages = 3
  MaxOpens = 3
  MaxCommits = 3
  FirstDst = 3900
  LastDst = 4300
  Sizes <- MCSizes
  Hosts <- MCHosts
  MaxBuffers = 3
  Paths = {"a", "b"}
  Lengths = {1, 2}
  MaxCalls = 5
  Procs = {p, q}
  Online = 2
  Conf = 3
  NodeOf <- MCNodeOf
  Thread = {t1, t2}
  Pools = {"A", "B"}
  Objects = {"heap"}
  MaxLevel = 2
  MaxTxs = 2
  MaxTxStores = 2
  ORDER = 8
  Keys <- MCKeys
  Typed = {0, 1, 4, 8, 12, 16, 17, 20, 24, 33}
  InitSeqs <- MCSeqs
  MaxNodes = 12
  MaxOps = 3
  KvKeys = {"a", "b", "c", "d"}
  KeyLen <- MCKeyLen
  N = 2
  Hash <- MCHash
  KvValues = {0, 5}
  MaxPuts = 4
  LNodes = {1, 2, 3}
  LData = {1, 2}
  MaxLen = 3
  MaxListOps = 6
  MaxSyncs = 3
  Objs = {"X", "Y", "H"}
  Locals = {"X", "Y"}
  Ptrs = {"x", "y", "castx", "h", "phi"}
  PointsTo <- MCPointsTo
  MaxInsts = 3
INVARIANTS
  UntrackedParity
  UpdatesTracked
  ReopenRestores
  BackingAgrees
  WriteExtent
  FilesApart
  VramPaired
  
  SearchAgrees
  TxCovered
  KvConsistent
  
  SnapshotsSafe
  StoresChecked
PROPERTIES
  SnapshotTakesAll
  ShareOnlyByRace
  TxDurable
  NoNewOrphans
CHECK_DEADLOCK FALSE
