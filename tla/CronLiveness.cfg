SPECIFICATION FairSpec
CONSTANTS
  d1 = d1
  d2 = d2
  j1 = j1
  j2 = j2
  Daemon = {d1}
  Job = {j1, j2}
  Every <- MCEvery
  Broken = {}
  Configs <- MCAllEnabled
  ClaimTtl = 2
  MayStall = FALSE
  MayCancel = FALSE
  MaxGoals = 4
  MaxTime = 4
  MaxCrashes = 0
CHECK_DEADLOCK FALSE
PROPERTY
  DueInstantsRun
