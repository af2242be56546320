---------------------------- MODULE DagExecution ----------------------------
(***************************************************************************)
(* What the scheduler promises about the work of its goals, whatever       *)
(* process runs it: an item is worked on only when every item it depends   *)
(* on is done, what is done or failed stays so, and a goal is declared     *)
(* completed only over finished work and never beside a failure.           *)
(***************************************************************************)
CONSTANTS Goal, Item, GoalOf, Deps

VARIABLES
  stage,   \* of each work item
  outcome  \* of each goal

dagVars == <<stage, outcome>>

Stage == {"waiting", "running", "done", "failed"}
Outcome == {"open", "completed", "failed"}

Start ==
  /\ stage = [i \in Item |-> "waiting"]
  /\ outcome = [g \in Goal |-> "open"]

Begin(i) ==
  /\ stage[i] = "waiting"
  /\ \A d \in Deps[i] : stage[d] = "done"
  /\ outcome[GoalOf[i]] # "completed"
  /\ stage' = [stage EXCEPT ![i] = "running"]
  /\ UNCHANGED outcome

Retry(i) ==
  /\ stage[i] = "running"
  /\ stage' = [stage EXCEPT ![i] = "waiting"]
  /\ UNCHANGED outcome

Finish(i) ==
  /\ stage[i] = "running"
  /\ stage' = [stage EXCEPT ![i] = "done"]
  /\ UNCHANGED outcome

(* A second failure of the same goal changes nothing more. *)
Fail(i) ==
  /\ stage[i] = "running"
  /\ outcome[GoalOf[i]] # "completed"
  /\ stage' = [stage EXCEPT ![i] = "failed"]
  /\ outcome' = [outcome EXCEPT ![GoalOf[i]] = "failed"]

Complete(g) ==
  /\ outcome[g] = "open"
  /\ \A i \in Item : GoalOf[i] = g => stage[i] = "done"
  /\ outcome' = [outcome EXCEPT ![g] = "completed"]
  /\ UNCHANGED stage

Advance ==
  \/ \E i \in Item : Begin(i) \/ Retry(i) \/ Finish(i) \/ Fail(i)
  \/ \E g \in Goal : Complete(g)

DagSpec == Start /\ [][Advance]_dagVars
=============================================================================
