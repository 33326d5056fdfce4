SPECIFICATION Spec
CONSTANTS
  Quotas <- Constructed
  Sizes = {2, 3, 4, 5}
  Start = 2
  Steps = {1, 3}
  MaxClock = 14
  U64 = 128
  U32 = 64
  Second = 6
INVARIANTS
  TypeOK
  RemainingExact
  WaitExact
  BatchEqualsSingles
  OversizedRejected
  RefillTime
  QuotaReported
PROPERTY LeakyBucketEquivalent
