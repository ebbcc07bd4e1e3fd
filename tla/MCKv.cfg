SPECIFICATION KvSpec
CONSTANTS
  KvKeys = {"a", "b", "c", "d"}
  KeyLen <- MCKeyLen
  N = 2
  Hash <- MCHash
  KvValues = {0, 1}
  MaxPuts = 4
INVARIANT UpdateTakesEffect
CHECK_DEADLOCK FALSE
