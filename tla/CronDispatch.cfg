SPECIFICATION Spec
SYMMETRY Symmetry
CONSTANTS
  d1 = d1
  d2 = d2
  j1 = j1
  j2 = j2
  Daemon = {d1, d2}
  Job = {j1, j2}
  Every <- MCEvery
  Broken = {j2}
  Configs <- MCConfigs
  ClaimTtl = 2
  MayStall = FALSE
  MayCancel = TRUE
  MaxGoals = 4
  MaxTime = 4
  MaxCrashes = 2
CHECK_DEADLOCK FALSE
INVARIANTS
  IInv
  SingleOwner
  MarkersAreServed
  OneGoalPerInstant
PROPERTIES
  RunRowsMoveForward
  ImplementsJobRuns
