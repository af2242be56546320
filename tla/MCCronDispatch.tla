-------------------------- MODULE MCCronDispatch --------------------------
(* Small instances of CronDispatch. The clock's unit is the daemon's tick: *)
(* a claim lasts two of them. Job j1 fires every three ticks, j2 every two.*)
EXTENDS CronDispatch, TLC

CONSTANTS d1, d2, j1, j2

MCEvery == [j \in Job |-> IF j = j1 THEN 3 ELSE 2]

MCConfigs == {Job, Job \ {j1}}
MCAllEnabled == {Job}

Symmetry == Permutations(Daemon)
=============================================================================
