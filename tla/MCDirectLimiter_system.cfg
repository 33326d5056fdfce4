SPECIFICATION FairSpec
CONSTANTS
  t1 = t1
  t2 = t2
  Threads <- Two
  Sizes = {2, 3}
  MaxBurst = 2
  Replenish1Per = 2
  Start = 1
  MaxClock = 3
  Monotonic = FALSE
  U64 = 10
  U32 = 8
  Second = 10
INVARIANTS
  TypeOK
  WindowConformance
PROPERTIES
  DenialHonoured
  Linearizable
  CheckReturns
