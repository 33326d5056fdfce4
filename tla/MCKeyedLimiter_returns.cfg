SPECIFICATION FairSpec
CONSTANTS
  t1 = t1
  t2 = t2
  t3 = t3
  k1 = k1
  k2 = k2
  NoKey = NoKey
  Threads <- ThreeThreads
  Keys <- TwoKeys
  Shards = 2
  ShardOf <- TwoShards
  Stores = {"dashmap"}
  MaxBurst = 2
  Replenish1Per = 1
  Sizes = {}
  MaxClock = 0
  MaxDelay = 1
  Monotonic = TRUE
  U64 = 16
  U32 = 8
  Second = 10
PROPERTIES
  AsIfNeverRemoved
  KeyedReturns
