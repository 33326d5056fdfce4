SPECIFICATION FairSpec
CONSTANTS
  Streams = {"stream"}
  Sinks = {"sink"}
  Items = 3
  MaxLag = 2
  MaxBurst = 2
  Replenish1Per = 2
  JitterMin = 0
  JitterMax = 2
  U64 = 32
  U32 = 8
  Second = 10
INVARIANTS
  TypeOK
  NothingLost
  OneCellPerItem
  NoPanic
  NotAskedEarly
PROPERTY AllThrough
