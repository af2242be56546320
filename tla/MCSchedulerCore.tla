-------------------------- MODULE MCSchedulerCore --------------------------
(* Small instances of SchedulerCore. Goal g1 has two independent items and *)
(* one that waits for both; goal g2 has one item, which competes with a    *)
(* for the main lane.                                                      *)
EXTENDS SchedulerCore

CONSTANTS g1, g2, a, b, c, d

MCGoalOf == [i \in Item |-> IF i = d THEN g2 ELSE g1]
MCDeps == [i \in Item |-> IF i = c THEN {a, b} ELSE {}]
MCRank == [i \in Item |-> IF i = c THEN 1 ELSE 0]
MCPreferredLane == [i \in Item |-> IF i \in {a, d} THEN "main" ELSE "subagent"]

(* The default configuration but for the three slots of the subagent lane. *)
MCMaxConcurrency == [main |-> 1, subagent |-> 1, cron |-> 2, session |-> 1]

(* A run of two units may start with one unit left, on either lane of g1;  *)
(* g2 has a budget of zero, which its first run that costs anything spends.*)
MCTightBudget == [g \in Goal |-> IF g = g1 THEN 2 ELSE 0]
=============================================================================
