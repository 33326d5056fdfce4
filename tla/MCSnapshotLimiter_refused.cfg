SPECIFICATION Spec
CONSTANTS
  Quotas <- Constructed
  Sizes = {2, 3}
  Start = 0
  Steps = {1, 3}
  MaxClock = 6
  U64 = 128
  U32 = 64
  Second = 6
INVARIANT NoneRemainOnRefusal
