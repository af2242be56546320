SPECIFICATION Spec
CONSTANTS
  g1 = g1
  g2 = g2
  a = a
  b = b
  c = c
  d = d
  Goal = {g1}
  Item = {a, b, c}
  GoalOf <- MCGoalOf
  Deps <- MCDeps
  Rank <- MCRank
  PreferredLane <- MCPreferredLane
  MaxConcurrency <- MCMaxConcurrency
  Budget <- MCTightBudget
  MaxRunCost = 2
  GatesMayFail = {b}
  Controls = {"pause", "stop", "cancel"}
  MaxRuns = 2
  MaxCrashes = 2
CHECK_DEADLOCK FALSE
INVARIANTS
  IInv
  DependencySafety
  CompletedGoalsAreDone
  OverspendBounded
PROPERTY
  ImplementsDag
