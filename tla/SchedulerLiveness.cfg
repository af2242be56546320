SPECIFICATION FairSpec
CONSTANTS
  g1 = g1
  g2 = g2
  a = a
  b = b
  c = c
  d = d
  Goal = {g1, g2}
  Item = {a, d}
  GoalOf <- MCGoalOf
  Deps <- MCDeps
  Rank <- MCRank
  PreferredLane <- MCPreferredLane
  MaxConcurrency <- MCMaxConcurrency
  Budget <- MCTightBudget
  MaxRunCost = 1
  GatesMayFail = {d}
  Controls = {"cancel"}
  MaxRuns = 2
  MaxCrashes = 0
CHECK_DEADLOCK FALSE
PROPERTIES
  GoalSettles
  LanesFree
