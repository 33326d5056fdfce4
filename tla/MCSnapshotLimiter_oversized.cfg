SPECIFICATION Spec
CONSTANTS
  Quotas <- Slow
  Sizes = {2, 3, 9}
  Start = 0
  Steps = {1, 3}
  MaxClock = 6
  U64 = 32
  U32 = 16
  Second = 6
INVARIANT OversizedRejected
