SPECIFICATION FairSpec
CONSTANTS
  i1 = i1
  i2 = i2
  Item = {i1, i2}
  MaxIterations = 5
  MaxNoAction = 2
  MaxEmptyRetries = 1
  CallLists <- MCCallLists
  Tokens = {1}
  MaxSearches = 2
  MaxRuns = 1
  MaxFaults = 1
CHECK_DEADLOCK FALSE
INVARIANTS
  IInv
  TokensConserved
PROPERTY
  CycleEnds
