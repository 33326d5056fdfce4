SPECIFICATION Spec
CONSTANTS
  t1 = t1
  t2 = t2
  t3 = t3
  k1 = k1
  k2 = k2
  NoKey = NoKey
  Threads <- TwoThreads
  Keys <- OneKey
  Shards = 1
  ShardOf <- FirstShard
  Stores = {"dashmap"}
  MaxBurst = 2
  Replenish1Per = 2
  Sizes = {2}
  MaxClock = 5
  MaxDelay = 3
  Monotonic = TRUE
  U64 = 16
  U32 = 8
  Second = 10
PROPERTY AsIfNeverRemoved
