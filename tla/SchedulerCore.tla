--------------------------- MODULE SchedulerCore ---------------------------
(***************************************************************************)
(* The scheduler of PonyBunny: SchedulerCore (src/scheduler/core), with    *)
(* the collaborators it is assembled from in                               *)
(* src/gateway/integration/scheduler-factory.ts (work item manager, lane   *)
(* selector, budget tracker, retry handler, quality gates, execution       *)
(* engine adapter), the two rows of the SQLite store it works on (goals,   *)
(* work_items), the gateway RPCs that create and cancel goals, and the     *)
(* scheduler daemon that boots it, crashes and recovers queued goals.      *)
(*                                                                         *)
(* One action is what JavaScript runs without giving the event loop back.  *)
(* A tick awaits only promises that are already resolved, so between two   *)
(* goals of one tick nothing runs but executions started by that tick; an  *)
(* execution gives the loop back while the model works and while the       *)
(* quality gates run.                                                      *)
(***************************************************************************)
EXTENDS Naturals, FiniteSets

CONSTANTS
  Goal,            \* goals that may be submitted
  Item,            \* work items
  GoalOf,          \* the goal of each work item
  Deps,            \* the dependencies of each work item
  Rank,            \* order of priority, then created_at: smaller goes first
  PreferredLane,   \* lane the item's context and type ask for
  MaxConcurrency,  \* concurrency limit of each lane
  Budget,          \* budget of each goal
  MaxRunCost,      \* the most one run adds to what its goal has spent
  GatesMayFail,    \* items that have a required quality gate that can fail
  Controls,        \* operator controls this instance explores
  MaxRuns,         \* bound: runs of one work item
  MaxCrashes       \* bound: crashes of the daemon

Lane == {"main", "subagent", "cron", "session"}

ASSUME GraphAssumption ==
  /\ IsFiniteSet(Item)
  /\ GoalOf \in [Item -> Goal]
  /\ Deps \in [Item -> SUBSET Item]
  /\ Rank \in [Item -> Nat]
  /\ PreferredLane \in [Item -> Lane]

ASSUME LimitAssumption ==
  /\ MaxConcurrency \in [Lane -> Nat \ {0}]
  /\ Budget \in [Goal -> Nat]
  /\ MaxRunCost \in Nat
  /\ GatesMayFail \subseteq Item
  /\ Controls \subseteq {"pause", "stop", "cancel"}
  /\ MaxRuns \in Nat \ {0}
  /\ MaxCrashes \in Nat

VARIABLES
  \* rows of the store: they survive a crash
  goalRow,           \* goals.status, "none" before the row exists
  itemStatus,        \* work_items.status
  runCount,          \* runs created for an item
  spent,             \* goals.spent_tokens, or whichever budget binds
  escalated,         \* goals with a budget escalation
  \* memory of the scheduler daemon
  schedStatus,       \* SchedulerState.status, "down" when no process runs
  activeGoals,       \* SchedulerState.activeGoals
  goalState,         \* goalStates: GoalExecutionState.status
  currentItem,       \* goals whose GoalExecutionState has a currentWorkItemId
  ticking,           \* a tick is in its loop
  tickTodo,          \* the goals this tick has still to process
  tickRuns,          \* the runs this tick has started
  phase,             \* where the coroutine of a run stands
  runLane,           \* the lane a run was assigned
  activeExecutions,  \* activeExecutions: the runs the scheduler tracks
  laneActive,        \* LaneStatus.activeCount
  \* outside the daemon
  commands,          \* scheduler commands on their way to the daemon
  reported,          \* goal_completed, goal_failed events sent for a goal
  crashes

store == <<goalRow, itemStatus, runCount, spent, escalated>>
tickVars == <<ticking, tickTodo, tickRuns>>
runVars == <<phase, runLane, activeExecutions, laneActive>>
vars == <<store, schedStatus, activeGoals, goalState, currentItem, tickVars,
          runVars, commands, reported, crashes>>

GoalRow == {"none", "queued", "blocked", "completed", "cancelled"}
ItemStatus == {"queued", "ready", "in_progress", "verify", "done", "failed", "blocked"}
GoalState == {"none", "pending", "running", "paused", "completed", "failed", "cancelled"}
Terminal == {"completed", "failed", "cancelled"}
Run == Item \X (1..MaxRuns)
Phase == {"idle", "executing", "verifying"}
Command == {"submit_goal", "cancel_goal"} \X Goal

ItemsOf(g) == {i \in Item : GoalOf[i] = g}

---------------------------------------------------------------------------
(* Work item manager *)

(* VALID_TRANSITIONS of the work item manager. *)
ValidTransitions ==
  [queued      |-> {"ready", "blocked", "failed"},
   ready       |-> {"in_progress", "blocked", "failed"},
   in_progress |-> {"queued", "verify", "done", "failed", "blocked"},
   verify      |-> {"done", "failed", "in_progress"},
   done        |-> {},
   failed      |-> {"queued", "ready"},
   blocked     |-> {"queued", "ready", "failed"}]

CanMove(i, to) == to \in ValidTransitions[itemStatus[i]]

(* Mutant: one finished dependency is enough. *)
SatisfiedByOne(st, i) == Deps[i] = {} \/ \E d \in Deps[i] : st[d] = "done"

Satisfied(st, i) == \A d \in Deps[i] : st[d] = "done"

(* Mutant: work found in progress is made ready again, whoever runs it. *)
PromotedInProgress(g) ==
  [i \in Item |-> IF /\ GoalOf[i] = g /\ itemStatus[i] \in {"queued", "in_progress"}
                     /\ Satisfied(itemStatus, i)
                    THEN "ready" ELSE itemStatus[i]]

(* Mutant: queued items wait for somebody else to promote them. *)
PromotedNever(g) == itemStatus

(* getReadyWorkItems: queued items whose dependencies are done become      *)
(* ready as a side effect of asking.                                       *)
Promoted(g) ==
  [i \in Item |-> IF GoalOf[i] = g /\ itemStatus[i] = "queued" /\ Satisfied(itemStatus, i)
                    THEN "ready" ELSE itemStatus[i]]

ReadyItems(g) == {i \in ItemsOf(g) : Promoted(g)[i] = "ready"}

(* getNextWorkItem: the head of the sorted list. *)
NextItems(g) == {i \in ReadyItems(g) : \A j \in ReadyItems(g) : Rank[i] <= Rank[j]}

(* Mutant: a goal is complete when nothing is left to start. *)
NothingLeft(g) == \A i \in ItemsOf(g) : itemStatus[i] \in {"verify", "done"}

(* Mutant: a goal is complete when every item has ended. *)
AllEnded(g) == \A i \in ItemsOf(g) : itemStatus[i] \in {"done", "failed"}

AllComplete(g) == \A i \in ItemsOf(g) : itemStatus[i] = "done"

(* Mutant: dependents are released by the first dependency that is done. *)
DoneUnchecked(i) ==
  [j \in Item |-> IF j = i THEN "done"
                 ELSE IF /\ GoalOf[j] = GoalOf[i] /\ itemStatus[j] = "queued"
                         /\ i \in Deps[j]
                        THEN "ready" ELSE itemStatus[j]]

(* updateStatus(i, "done") with checkAndUnblockDependents: dependents that *)
(* are queued become ready; blocked ones are left.                         *)
Done(i) ==
  LET st == [itemStatus EXCEPT ![i] = "done"]
  IN  [j \in Item |-> IF /\ GoalOf[j] = GoalOf[i] /\ st[j] = "queued"
                         /\ i \in Deps[j] /\ Satisfied(st, j)
                        THEN "ready" ELSE st[j]]

---------------------------------------------------------------------------
(* Lanes, budget, retries *)

(* Mutant: the limit is reached one run too late. *)
HasCapacityInclusive(l) == laneActive[l] <= MaxConcurrency[l]

HasCapacity(l) == laneActive[l] < MaxConcurrency[l]

(* selectLane: only the subagent lane looks at its capacity. *)
SelectLane(i) ==
  IF PreferredLane[i] = "subagent" /\ ~HasCapacity("subagent")
    THEN "main" ELSE PreferredLane[i]

(* Mutant: the comparison of checkBudget. *)
ExceededStrictly(g) == spent[g] > Budget[g]

(* getWarningLevel = "exceeded". *)
Exceeded(g) == IF Budget[g] = 0 THEN spent[g] > 0 ELSE spent[g] >= Budget[g]

(* decideRetry, and the status handleExecutionFailure asks for: items are  *)
(* created with retry_count 0 and max_retries 3 and nothing counts up, so  *)
(* the limit it compares is never met; recoverable stands for the error's  *)
(* own flag and the patterns its text matches.                             *)
FailureTarget(recoverable) == IF recoverable THEN "queued" ELSE "failed"

(* The statuses handleExecutionFailure may leave. When updateStatus rejects *)
(* the first transition, the catch clause of executeWorkItem reaches it    *)
(* again with the rejection as its error, whose text holds a random id     *)
(* that may match any pattern; a second rejection leaves the item alone.   *)
AfterFailure(i, recoverable) ==
  LET Asked(flags) == {FailureTarget(f) : f \in flags}
      Left(to) == IF CanMove(i, to) THEN to ELSE itemStatus[i]
  IN  IF CanMove(i, FailureTarget(recoverable))
        THEN Asked({recoverable})
        ELSE {Left(to) : to \in Asked(BOOLEAN)}

---------------------------------------------------------------------------
Init ==
  /\ goalRow = [g \in Goal |-> "none"]
  /\ itemStatus = [i \in Item |-> "queued"]
  /\ runCount = [i \in Item |-> 0]
  /\ spent = [g \in Goal |-> 0]
  /\ escalated = {}
  /\ schedStatus = "down"
  /\ activeGoals = {}
  /\ goalState = [g \in Goal |-> "none"]
  /\ currentItem = {}
  /\ ticking = FALSE
  /\ tickTodo = {}
  /\ tickRuns = {}
  /\ phase = [r \in Run |-> "idle"]
  /\ runLane = [r \in Run |-> "main"]
  /\ activeExecutions = {}
  /\ laneActive = [l \in Lane |-> 0]
  /\ commands = {}
  /\ reported = [g \in Goal |-> {}]
  /\ crashes = 0

---------------------------------------------------------------------------
(* The gateway process: goal.submit and goal.cancel write the shared store *)
(* and send a command when the daemon is connected.                        *)

Send(c) == commands' = IF schedStatus = "down" THEN commands ELSE commands \cup {c}

(* goal.submit; an agent dispatch or the CLI creates its items ready.      *)
CreateGoal(g) ==
  /\ goalRow[g] = "none"
  /\ goalRow' = [goalRow EXCEPT ![g] = "queued"]
  /\ \E ready \in {{}, {i \in ItemsOf(g) : Deps[i] = {}}} :
       itemStatus' = [i \in Item |-> IF i \in ready THEN "ready" ELSE itemStatus[i]]
  /\ Send(<<"submit_goal", g>>)
  /\ UNCHANGED <<runCount, spent, escalated, schedStatus, activeGoals, goalState,
                 currentItem, tickVars, runVars, reported, crashes>>

RequestCancel(g) ==
  /\ "cancel" \in Controls
  /\ goalRow[g] \in {"queued", "blocked"}
  /\ goalRow' = [goalRow EXCEPT ![g] = "cancelled"]
  /\ Send(<<"cancel_goal", g>>)
  /\ UNCHANGED <<itemStatus, runCount, spent, escalated, schedStatus, activeGoals,
                 goalState, currentItem, tickVars, runVars, reported, crashes>>

---------------------------------------------------------------------------
(* SchedulerCore: submit and cancel *)

(* submitGoal for each goal of S: a fresh GoalExecutionState. *)
Submitted(S) ==
  /\ goalState' = [g \in Goal |-> IF g \in S THEN "pending" ELSE goalState[g]]
  /\ currentItem' = currentItem \ S
  /\ activeGoals' = activeGoals \cup S

DeliverSubmit(g) ==
  /\ <<"submit_goal", g>> \in commands
  /\ ~ticking
  /\ commands' = commands \ {<<"submit_goal", g>>}
  /\ Submitted({g})
  /\ UNCHANGED <<store, schedStatus, tickVars, runVars, reported, crashes>>

(* Mutant: the goal stays in the list the tick walks. *)
CancelledButActive(g) ==
  /\ goalState' = [goalState EXCEPT ![g] = "cancelled"]
  /\ goalRow' = [goalRow EXCEPT ![g] = "cancelled"]
  /\ UNCHANGED activeGoals

Cancelled(g) ==
  /\ goalState' = [goalState EXCEPT ![g] = "cancelled"]
  /\ goalRow' = [goalRow EXCEPT ![g] = "cancelled"]
  /\ activeGoals' = activeGoals \ {g}

(* cancelGoal: abort never finds the execution (the adapter keys it by a   *)
(* temporary id), so the run goes on, untracked.                           *)
DeliverCancel(g) ==
  /\ <<"cancel_goal", g>> \in commands
  /\ <<"submit_goal", g>> \notin commands
  /\ ~ticking
  /\ commands' = commands \ {<<"cancel_goal", g>>}
  /\ IF goalState[g] = "none"
       THEN UNCHANGED <<activeExecutions, goalState, activeGoals, goalRow>>
       ELSE /\ activeExecutions' = {r \in activeExecutions : GoalOf[r[1]] # g}
            /\ Cancelled(g)
  /\ UNCHANGED <<itemStatus, runCount, spent, escalated, schedStatus, currentItem,
                 tickVars, phase, runLane, laneActive, reported, crashes>>

---------------------------------------------------------------------------
(* SchedulerCore: the tick *)

BeginTick ==
  /\ schedStatus = "running" /\ ~ticking /\ activeGoals # {}
  /\ ticking' = TRUE
  /\ tickTodo' = activeGoals
  /\ UNCHANGED <<store, schedStatus, activeGoals, goalState, currentItem, tickRuns,
                 runVars, commands, reported, crashes>>

(* cleanupCompletedGoals *)
EndTick ==
  /\ ticking /\ tickTodo = {}
  /\ ticking' = FALSE
  /\ tickRuns' = {}
  /\ activeGoals' = {g \in activeGoals : goalState[g] \notin Terminal}
  /\ UNCHANGED <<store, schedStatus, goalState, currentItem, tickTodo, runVars,
                 commands, reported, crashes>>

(* The head of processGoal: its guards, in their order. hasBlocking-       *)
(* Escalations answers FALSE: getOpenEscalations is stubbed to an empty    *)
(* list.                                                                   *)
Processing(g) ==
  /\ ticking /\ g \in tickTodo
  /\ tickTodo' = tickTodo \ {g}
  /\ UNCHANGED <<schedStatus, ticking, activeGoals, spent, commands, crashes>>

(* handleBudgetExceeded: without a current item the escalation row breaks  *)
(* its foreign key, and the exception ends the goal's turn.                *)
HandleBudgetExceeded(g) ==
  /\ Processing(g)
  /\ Exceeded(g)
  /\ IF g \in currentItem
       THEN /\ escalated' = escalated \cup {g}
            /\ goalState' = [goalState EXCEPT ![g] = "paused"]
       ELSE UNCHANGED <<escalated, goalState>>
  /\ UNCHANGED <<goalRow, itemStatus, runCount, currentItem, tickRuns, runVars, reported>>

CompleteGoal(g) ==
  /\ Processing(g)
  /\ ~Exceeded(g) /\ AllComplete(g)
  /\ goalState' = [goalState EXCEPT ![g] = "completed"]
  /\ goalRow' = [goalRow EXCEPT ![g] = "completed"]
  /\ reported' = [reported EXCEPT ![g] = @ \cup {"completed"}]
  /\ UNCHANGED <<itemStatus, runCount, escalated, currentItem, tickRuns, runVars>>

(* The goal has work left and room in its budget; asking for the next item *)
(* has promoted what could be.                                             *)
Seeking(g) ==
  /\ Processing(g)
  /\ ~Exceeded(g) /\ ~AllComplete(g)
  /\ UNCHANGED <<goalRow, escalated, reported>>

NothingToStart(g) ==
  /\ Seeking(g)
  /\ \/ ReadyItems(g) = {}
     \/ \E i \in NextItems(g) : ~HasCapacity(SelectLane(i))
  /\ itemStatus' = Promoted(g)
  /\ UNCHANGED <<runCount, goalState, currentItem, tickRuns, runVars>>

StartWorkItem(g, i) ==
  LET lane == SelectLane(i)
      run  == <<i, runCount[i] + 1>>
  IN  /\ Seeking(g)
      /\ i \in NextItems(g)
      /\ HasCapacity(lane)
      /\ runCount[i] < MaxRuns
      /\ runCount' = [runCount EXCEPT ![i] = @ + 1]
      /\ goalState' = [goalState EXCEPT ![g] = "running"]
      /\ currentItem' = currentItem \cup {g}
      /\ tickRuns' = tickRuns \cup {run}
      /\ activeExecutions' = activeExecutions \cup {run}
      /\ laneActive' = [laneActive EXCEPT ![lane] = @ + 1]
      /\ itemStatus' = [Promoted(g) EXCEPT ![i] = "in_progress"]
      /\ phase' = [phase EXCEPT ![run] = "executing"]
      /\ runLane' = [runLane EXCEPT ![run] = lane]

ProcessGoal(g) ==
  \/ HandleBudgetExceeded(g)
  \/ CompleteGoal(g)
  \/ NothingToStart(g)
  \/ \E i \in Item : StartWorkItem(g, i)

---------------------------------------------------------------------------
(* SchedulerCore: executions *)

(* A tick does not give the event loop back: between two of its goals the  *)
(* only coroutines that may resume are those it has started itself.        *)
Resumes(r, at) ==
  /\ phase[r] = at
  /\ ticking => r \in tickRuns
  /\ UNCHANGED <<runCount, escalated, schedStatus, activeGoals, currentItem, tickVars,
                 runLane, commands, crashes>>

(* Mutant: the slot is given back only by a run the scheduler tracks. *)
ReleaseTracked(r) ==
  /\ phase' = [phase EXCEPT ![r] = "idle"]
  /\ activeExecutions' = activeExecutions \ {r}
  /\ laneActive' = [laneActive EXCEPT ![runLane[r]] =
                      IF r \in activeExecutions THEN @ - 1 ELSE @]

(* The finally clause of executeWorkItem. *)
Release(r) ==
  /\ phase' = [phase EXCEPT ![r] = "idle"]
  /\ activeExecutions' = activeExecutions \ {r}
  /\ laneActive' = [laneActive EXCEPT ![runLane[r]] = IF @ > 0 THEN @ - 1 ELSE 0]

(* updateGoalSpending by the execution service: a run that reached the     *)
(* model adds whatever it used, however little was left, and resumes in a  *)
(* later turn of the event loop; one that threw before adds nothing.       *)
Spend(r) ==
  \E cost \in (IF ticking THEN {0} ELSE 0..MaxRunCost) :
    spent' = [spent EXCEPT ![GoalOf[r[1]]] = @ + cost]

ExecutionSucceeds(r) ==
  /\ Resumes(r, "executing")
  /\ CanMove(r[1], "verify")
  /\ Spend(r)
  /\ itemStatus' = [itemStatus EXCEPT ![r[1]] = "verify"]
  /\ phase' = [phase EXCEPT ![r] = "verifying"]
  /\ UNCHANGED <<goalRow, goalState, activeExecutions, laneActive, reported>>

(* Mutant: the state's word is written to the row, which has another. *)
FailGoalRow(g) ==
  /\ goalState' = [goalState EXCEPT ![g] = "failed"]
  /\ goalRow' = [goalRow EXCEPT ![g] = "failed"]
  /\ reported' = [reported EXCEPT ![g] = @ \cup {"failed"}]

FailGoal(g) ==
  /\ goalState' = [goalState EXCEPT ![g] = "failed"]
  /\ goalRow' = [goalRow EXCEPT ![g] = "blocked"]
  /\ reported' = [reported EXCEPT ![g] = @ \cup {"failed"}]

(* handleExecutionFailure: the item is queued again, or it fails and takes *)
(* the goal with it.                                                       *)
HandleFailure(r, recoverable) ==
  \E to \in AfterFailure(r[1], recoverable) :
    /\ itemStatus' = [itemStatus EXCEPT ![r[1]] = to]
    /\ IF to = "failed" THEN FailGoal(GoalOf[r[1]])
                        ELSE UNCHANGED <<goalState, goalRow, reported>>
    /\ Release(r)

(* Bound: the last run MaxRuns allows does not fail in a way that would    *)
(* ask for another one.                                                    *)
ExecutionFails(r, recoverable) ==
  /\ Resumes(r, "executing")
  /\ FailureTarget(recoverable) = "queued" => runCount[r[1]] < MaxRuns
  /\ Spend(r)
  /\ HandleFailure(r, recoverable)

VerificationPasses(r) ==
  /\ Resumes(r, "verifying")
  /\ CanMove(r[1], "done")
  /\ itemStatus' = Done(r[1])
  /\ Release(r)
  /\ UNCHANGED <<spent, goalRow, goalState, reported>>

VerificationFails(r, recoverable) ==
  /\ Resumes(r, "verifying")
  /\ r[1] \in GatesMayFail
  /\ UNCHANGED spent
  /\ HandleFailure(r, recoverable)

---------------------------------------------------------------------------
(* Operator controls, crash and boot *)

Pause ==
  /\ "pause" \in Controls /\ ~ticking
  /\ schedStatus = "running"
  /\ schedStatus' = "paused"
  /\ UNCHANGED <<store, activeGoals, goalState, currentItem, tickVars, runVars,
                 commands, reported, crashes>>

(* stop: the aborts are no-ops, the executions go on untracked. *)
Stop ==
  /\ "stop" \in Controls /\ ~ticking
  /\ schedStatus \notin {"stopped", "down"}
  /\ schedStatus' = "stopped"
  /\ activeExecutions' = {}
  /\ UNCHANGED <<store, activeGoals, goalState, currentItem, tickVars, phase, runLane,
                 laneActive, commands, reported, crashes>>

(* resume, and start on an existing scheduler. *)
Resume ==
  /\ ~ticking
  /\ schedStatus \in {"paused", "stopped"}
  /\ schedStatus' = "running"
  /\ UNCHANGED <<store, activeGoals, goalState, currentItem, tickVars, runVars,
                 commands, reported, crashes>>

(* The daemon's process ends: its memory and the calls it awaits are gone. *)
Crash ==
  /\ schedStatus # "down" /\ crashes < MaxCrashes
  /\ crashes' = crashes + 1
  /\ schedStatus' = "down"
  /\ activeGoals' = {}
  /\ goalState' = [g \in Goal |-> "none"]
  /\ currentItem' = {}
  /\ ticking' = FALSE
  /\ tickTodo' = {}
  /\ tickRuns' = {}
  /\ phase' = [r \in Run |-> "idle"]
  /\ activeExecutions' = {}
  /\ laneActive' = [l \in Lane |-> 0]
  /\ commands' = {}
  /\ UNCHANGED <<store, runLane, reported>>

(* SchedulerDaemon.start: a new scheduler, started, and recoverQueuedGoals.*)
Boot ==
  /\ schedStatus = "down"
  /\ schedStatus' = "running"
  /\ Submitted({g \in Goal : goalRow[g] = "queued"})
  /\ UNCHANGED <<store, tickVars, runVars, commands, reported, crashes>>

---------------------------------------------------------------------------
Execution(r) ==
  \/ ExecutionSucceeds(r)
  \/ VerificationPasses(r)
  \/ \E recoverable \in BOOLEAN : \/ ExecutionFails(r, recoverable)
                                  \/ VerificationFails(r, recoverable)

Next ==
  \/ \E g \in Goal : \/ CreateGoal(g) \/ RequestCancel(g)
                     \/ DeliverSubmit(g) \/ DeliverCancel(g)
                     \/ ProcessGoal(g)
  \/ BeginTick \/ EndTick
  \/ \E r \in Run : Execution(r)
  \/ Pause \/ Stop \/ Resume \/ Crash \/ Boot

Spec == Init /\ [][Next]_vars

(* The interval timer fires, the loop of a tick goes on and the service    *)
(* manager starts the daemon; of these one at most is enabled at a time.   *)
(* Calls to the model and gate commands end (both have timeouts) and the   *)
(* socket delivers; the event loop serves them between ticks, where they   *)
(* are enabled again and again. Users and operators owe nothing.           *)
Fairness ==
  /\ WF_vars(BeginTick \/ (\E g \in Goal : ProcessGoal(g)) \/ EndTick \/ Boot)
  /\ \A g \in Goal : SF_vars(DeliverSubmit(g) \/ DeliverCancel(g))
  /\ \A r \in Run : SF_vars(Execution(r))

FairSpec == Spec /\ Fairness

---------------------------------------------------------------------------
(* Properties *)

(* The words each status field may hold: goals.status and work_items       *)
(* .status have check constraints in schema.sql, the states in memory are  *)
(* typed.                                                                  *)
TypeOK ==
  /\ goalRow \in [Goal -> GoalRow]
  /\ itemStatus \in [Item -> ItemStatus]
  /\ runCount \in [Item -> 0..MaxRuns]
  /\ spent \in [Goal -> Nat]
  /\ escalated \subseteq Goal
  /\ schedStatus \in {"down", "running", "paused", "stopped"}
  /\ activeGoals \subseteq Goal
  /\ goalState \in [Goal -> GoalState]
  /\ currentItem \subseteq Goal
  /\ ticking \in BOOLEAN
  /\ tickTodo \subseteq Goal
  /\ tickRuns \subseteq Run
  /\ phase \in [Run -> Phase]
  /\ runLane \in [Run -> Lane]
  /\ activeExecutions \subseteq Run
  /\ laneActive \in [Lane -> Nat]
  /\ commands \subseteq Command
  /\ reported \in [Goal -> SUBSET {"completed", "failed"}]
  /\ crashes \in 0..MaxCrashes

(* No item is offered, worked on or finished before everything it depends  *)
(* on is done, through retries, promotions by three different writers, and *)
(* restarts (areDependenciesSatisfied, work-item-manager.ts).              *)
DependencySafety ==
  \A i \in Item : itemStatus[i] \in {"ready", "in_progress", "verify", "done", "failed"}
                   => Satisfied(itemStatus, i)

InFlight(r) == phase[r] # "idle"
RunsIn(l) == {r \in Run : InFlight(r) /\ runLane[r] = l}

(* A lane's counter is the number of runs that hold one of its slots, also *)
(* for runs that cancelGoal and stop no longer track, and never passes the *)
(* lane's limit: incrementActive and decrementActive stay paired.          *)
LaneAccounting ==
  \A l \in Lane : /\ laneActive[l] = Cardinality(RunsIn(l))
                  /\ laneActive[l] <= MaxConcurrency[l]

(* A coroutine that will write an item's status finds the status it left,  *)
(* and it is the only one: so updateStatus never rejects the transition of *)
(* a run that succeeds, and no item is worked on twice at a time, even     *)
(* after the scheduler was stopped and resumed over live runs.             *)
RunsMatchItems ==
  /\ \A r \in Run : /\ phase[r] = "executing" => itemStatus[r[1]] = "in_progress"
                    /\ phase[r] = "verifying" => itemStatus[r[1]] = "verify"
  /\ \A r, s \in Run : InFlight(r) /\ InFlight(s) /\ r[1] = s[1] => r = s

(* A goal is announced or recorded as completed only when all its items    *)
(* are done and none of its runs is still going.                           *)
CompletedGoalsAreDone ==
  \A g \in Goal : "completed" \in reported[g] \/ goalRow[g] = "completed"
                  => /\ AllComplete(g)
                     /\ \A r \in Run : InFlight(r) => GoalOf[r[1]] # g

(* Subscribers of the scheduler (the cron dispatcher settles a job on      *)
(* goal_completed or goal_failed) never hear both outcomes of one goal,    *)
(* across cancellations and restarts.                                      *)
OneOutcome == \A g \in Goal : reported[g] # {"completed", "failed"}

(* A goal nobody has created yet has untouched items and is unknown to the *)
(* daemon; a goal reported as failed keeps a failed item.                  *)
FreshGoals ==
  \A g \in Goal : goalRow[g] = "none" =>
    /\ \A i \in ItemsOf(g) : itemStatus[i] = "queued"
    /\ g \notin activeGoals \cup tickTodo
    /\ <<"submit_goal", g>> \notin commands

FailedGoals ==
  \A g \in Goal : "failed" \in reported[g] => \E i \in ItemsOf(g) : itemStatus[i] = "failed"

(* The inductive invariant of the proofs: dependencies stay satisfied      *)
(* because each live run owns its item, and a goal's outcome is unique     *)
(* because done and failed items stay what they are (updateStatus).        *)
IInv ==
  /\ TypeOK
  /\ DependencySafety
  /\ RunsMatchItems
  /\ LaneAccounting
  /\ CompletedGoalsAreDone
  /\ FreshGoals
  /\ FailedGoals

LanesOf(g) == {"main"} \cup {PreferredLane[i] : i \in ItemsOf(g)}
SlotsOf(g) == UNION {{l} \X (1..MaxConcurrency[l]) : l \in LanesOf(g)}
ExecutingOf(g) == {r \in Run : GoalOf[r[1]] = g /\ phase[r] = "executing"}

(* The most a goal may have spent when one of its runs starts: less than   *)
(* its budget, or nothing of a budget of zero.                             *)
StartsWithin(g) == IF Budget[g] = 0 THEN 0 ELSE Budget[g] - 1

(* The budget is read when a run starts and paid when it ends, whatever it *)
(* cost: a goal passes its budget by less than what all runs cost that its *)
(* lanes can hold at once, by almost a whole run on a single slot. Runs    *)
(* under way count as if they cost the most they may.                      *)
OverspendBounded ==
  \A g \in Goal : spent[g] + MaxRunCost * Cardinality(ExecutingOf(g))
                    <= StartsWithin(g) + MaxRunCost * Cardinality(SlotsOf(g))

(* What validateDAG answers (nothing in src/src calls it): the             *)
(* dependencies of an item belong to its goal, and no items wait for each  *)
(* other in a circle.                                                      *)
ValidDag ==
  /\ \A i \in Item : Deps[i] \subseteq ItemsOf(GoalOf[i])
  /\ \A S \in SUBSET Item : S # {} => \E i \in S : Deps[i] \cap S = {}

Underway(i) == \E r \in Run : r[1] = i /\ InFlight(r)

(* Nobody will touch the item again: the process that worked on it ended,  *)
(* or its gates failed and the table has no way from verify to queued.     *)
LeftBehind(i) ==
  \/ itemStatus[i] \in {"in_progress", "verify"} /\ crashes > 0
  \/ itemStatus[i] = "verify" /\ i \in GatesMayFail

(* An item in progress or in verify has a run that will move it on, and    *)
(* one that failed has failed its goal.                                    *)
ItemsInHand ==
  \A i \in Item :
    /\ itemStatus[i] # "blocked"
    /\ itemStatus[i] = "failed" => "failed" \in reported[GoalOf[i]]
    /\ itemStatus[i] \in {"in_progress", "verify"} => Underway(i) \/ LeftBehind(i)

(* What the tick that takes the goal now does with it, in the order of     *)
(* processGoal: it pauses it and asks an operator, completes it, or starts *)
(* an item of it.                                                          *)
WouldPause(g) == Exceeded(g) /\ g \in currentItem

WouldComplete(g) == ~Exceeded(g) /\ AllComplete(g)

WouldStart(g) ==
  /\ ~Exceeded(g) /\ ~AllComplete(g)
  /\ NextItems(g) # {}
  /\ \A i \in NextItems(g) : HasCapacity(SelectLane(i)) /\ runCount[i] < MaxRuns

(* Every tick fails on the foreign key of the goal's escalation: a later   *)
(* process recovered a goal that had spent its budget.                     *)
EscalationBreaks(g) == Exceeded(g) /\ g \notin currentItem /\ crashes > 0

(* Goals, lanes, budgets and dependencies do not wait for each other: as   *)
(* long as a goal is recorded as queued, a running daemon walks it in its  *)
(* ticks or is about to be told of it, and when no run is under way, the   *)
(* tick that takes it pauses it, completes it or starts an item of it; but *)
(* for a recovered goal over its budget, and for goals with an item that   *)
(* was left behind.                                                        *)
NoGoalIsStuck ==
  \A g \in Goal : goalRow[g] = "queued" /\ schedStatus # "down" =>
    \/ <<"submit_goal", g>> \in commands
    \/ /\ g \in activeGoals
       /\ (\A r \in Run : ~InFlight(r)) =>
            \/ WouldPause(g) \/ WouldComplete(g) \/ WouldStart(g)
            \/ EscalationBreaks(g)
            \/ \E i \in ItemsOf(g) : LeftBehind(i)

(* After cancelGoal has run, or a tick has dropped an ended goal, no tick   *)
(* starts another run of it, not even after a late failure of one of its   *)
(* old runs has rewritten its state.                                       *)
NoWorkAfterEnd ==
  [][\A r \in Run :
       LET g == GoalOf[r[1]]
       IN  /\ \/ goalState[g] = "cancelled"
              \/ goalState[g] \in Terminal /\ g \notin activeGoals
           /\ ~InFlight(r)
           => phase'[r] = "idle"]_vars

StageOf(status) ==
  CASE status \in {"queued", "ready", "blocked"} -> "waiting"
    [] status \in {"in_progress", "verify"} -> "running"
    [] OTHER -> status

OutcomeOf(events) ==
  CASE "completed" \in events -> "completed"
    [] "failed" \in events -> "failed"
    [] OTHER -> "open"

Dag == INSTANCE DagExecution WITH
         stage <- [i \in Item |-> StageOf(itemStatus[i])],
         outcome <- [g \in Goal |-> OutcomeOf(reported[g])]

(* The scheduler with its store, crashes and controls implements the       *)
(* execution of a dependency graph.                                        *)
ImplementsDag == Dag!DagSpec

(* Its gates failed, both attempts to queue it again were rejected, and    *)
(* its run has ended.                                                      *)
HeldByGates(i) == i \in GatesMayFail /\ itemStatus[i] = "verify" /\ ~Underway(i)

(* Every goal handed to a scheduler that keeps running reaches a settled   *)
(* state, whatever its rivals for the lanes do, unless failed gates leave  *)
(* one of its items in verify.                                             *)
GoalSettles ==
  \A g \in Goal : goalState[g] = "pending"
                  ~> \/ goalState[g] \in {"completed", "failed", "cancelled", "paused"}
                     \/ \E i \in ItemsOf(g) : HeldByGates(i)

(* No lane stays full: every slot is given back, also by runs of goals     *)
(* that were cancelled meanwhile.                                          *)
LanesFree == \A l \in Lane : []<>HasCapacity(l)
=============================================================================
