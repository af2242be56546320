SPECIFICATION Spec
CONSTANTS
  g1 = g1
  g2 = g2
  a = a
  b = b
  c = c
  d = d
  Goal = {g1, g2}
  Item = {a, b, c, d}
  GoalOf <- MCGoalOf
  Deps <- MCDeps
  Rank <- MCRank
  PreferredLane <- MCPreferredLane
  MaxConcurrency <- MCMaxConcurrency
  Budget <- MCTightBudget
  MaxRunCost = 1
  GatesMayFail = {b}
  Controls = {"stop", "cancel"}
  MaxRuns = 2
  MaxCrashes = 0
CHECK_DEADLOCK FALSE
INVARIANTS
  LaneAccounting
  
  OneOutcome
PROPERTY
  NoWorkAfterEnd
