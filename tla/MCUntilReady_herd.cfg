SPECIFICATION FairSpec
CONSTANTS
  Tasks = {1, 2, 3}
  Sizes = {2, 3}
  MaxSetBack = 2
  MaxBurst = 2
  Replenish1Per = 2
  JitterMin = 0
  JitterMax = 2
  U64 = 32
  U32 = 8
  Second = 10
INVARIANT TypeOK
PROPERTIES
  RefusedAgainOnlyIfOvertaken
  AllResolve
