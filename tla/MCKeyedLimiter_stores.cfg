SPECIFICATION Spec
CONSTANTS
  t1 = t1
  t2 = t2
  t3 = t3
  k1 = k1
  k2 = k2
  NoKey = NoKey
  Threads <- TwoThreads
  Keys <- OneKey
  Shards = 2
  ShardOf <- FirstShard
  Stores = {"hashmap", "dashmap"}
  MaxBurst = 2
  Replenish1Per = 2
  Sizes = {2, 3}
  MaxClock = 4
  MaxDelay = 2
  Monotonic = FALSE
  U64 = 16
  U32 = 8
  Second = 10
SYMMETRY Symmetry
INVARIANT TypeOK
PROPERTIES
  AsIfNeverRemoved
  SweepComplete
