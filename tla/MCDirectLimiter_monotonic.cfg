SPECIFICATION Spec
CONSTANTS
  t1 = t1
  t2 = t2
  Threads <- Two
  Sizes = {2, 3, 4}
  MaxBurst = 3
  Replenish1Per = 2
  Start = 0
  MaxClock = 3
  Monotonic = TRUE
  U64 = 14
  U32 = 8
  Second = 10
SYMMETRY Symmetry
INVARIANTS
  NoOverflow
  WindowConformance
PROPERTIES
  NoFalseDenial
  DenialHonoured
  RetryProgress
  Linearizable
