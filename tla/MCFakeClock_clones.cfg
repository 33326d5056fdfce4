SPECIFICATION FairSpec
CONSTANTS
  Threads = {1, 2, 3}
  Steps = {0, 1, 2}
  MaxAdvances = 3
  U64 = 16
  U32 = 8
INVARIANTS
  TypeOK
  NoTimeLost
  AdvancesShow
  TimeMovesOn
PROPERTY AdvanceReturns
