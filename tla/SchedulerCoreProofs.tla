------------------------ MODULE SchedulerCoreProofs ------------------------
(***************************************************************************)
(* Proofs about SchedulerCore for every set of goals and items, every      *)
(* dependency graph, every lane limit and any number of crashes.           *)
(***************************************************************************)
EXTENDS SchedulerCore, TLAPS, FiniteSetTheorems, WellFoundedInduction

(* Runs are finitely many pairs.                                           *)
LEMMA RunFinite == IsFiniteSet(Run)
<1>1. IsFiniteSet(1..MaxRuns)
  BY LimitAssumption, FS_Interval
<1> QED
  BY <1>1, GraphAssumption, FS_Product DEF Run

(* What the helpers return, in a state of the right type.                  *)
LEMMA PromotedType ==
  ASSUME TypeOK, NEW g \in Goal
  PROVE  Promoted(g) \in [Item -> ItemStatus]
BY DEF TypeOK, Promoted, ItemStatus

(* Done returns a function from items to statuses.                         *)
LEMMA DoneType ==
  ASSUME TypeOK, NEW i \in Item
  PROVE  Done(i) \in [Item -> ItemStatus]
BY DEF TypeOK, Done, ItemStatus

(* AfterFailure returns statuses.                                          *)
LEMMA AfterFailureType ==
  ASSUME TypeOK, NEW i \in Item, NEW recoverable \in BOOLEAN
  PROVE  AfterFailure(i, recoverable) \subseteq ItemStatus
BY DEF TypeOK, AfterFailure, FailureTarget, ItemStatus

(* selectLane answers one of the four lanes.                               *)
LEMMA SelectLaneType ==
  ASSUME NEW i \in Item
  PROVE  SelectLane(i) \in Lane
BY GraphAssumption DEF SelectLane, Lane

(* A run costs no more than it may.                                        *)
LEMMA CostInRange ==
  ASSUME NEW r \in Run, Spend(r)
  PROVE  \E cost \in 0..MaxRunCost : spent' = [spent EXCEPT ![GoalOf[r[1]]] = @ + cost]
<1>1. 0 \in 0..MaxRunCost
  BY LimitAssumption
<1>2. (IF ticking THEN {0} ELSE 0..MaxRunCost) \subseteq 0..MaxRunCost
  BY <1>1
<1>3. PICK cost \in (IF ticking THEN {0} ELSE 0..MaxRunCost) :
        spent' = [spent EXCEPT ![GoalOf[r[1]]] = @ + cost]
  BY Zenon DEF Spend
<1> QED
  BY <1>2, <1>3

(* A started run is one of Run, and it is a run of an item of the goal.    *)
LEMMA StartedRun ==
  ASSUME TypeOK, NEW g \in Goal, NEW i \in Item, StartWorkItem(g, i)
  PROVE  /\ <<i, runCount[i] + 1>> \in Run
         /\ SelectLane(i) \in Lane
         /\ GoalOf[i] = g
         /\ Promoted(g)[i] = "ready"
BY SelectLaneType, LimitAssumption
DEF TypeOK, StartWorkItem, Run, NextItems, ReadyItems, ItemsOf

(* The initial state is typed.                                             *)
LEMMA TypeInit == Init => TypeOK
<1> SUFFICES ASSUME Init PROVE TypeOK
  OBVIOUS
<1>1. crashes \in 0..MaxCrashes /\ runCount \in [Item -> 0..MaxRuns]
  BY LimitAssumption DEF Init
<1>2. /\ goalRow \in [Goal -> GoalRow] /\ itemStatus \in [Item -> ItemStatus]
      /\ goalState \in [Goal -> GoalState] /\ phase \in [Run -> Phase]
      /\ runLane \in [Run -> Lane] /\ laneActive \in [Lane -> Nat]
  BY DEF Init, GoalRow, ItemStatus, GoalState, Phase, Lane
<1> QED
  BY <1>1, <1>2 DEF Init, TypeOK

(* Every action keeps every variable in its type.                          *)
LEMMA TypeStep == TypeOK /\ [Next]_vars => TypeOK'
<1> SUFFICES ASSUME TypeOK, [Next]_vars PROVE TypeOK'
  OBVIOUS
<1>1. ASSUME NEW g \in Goal, CreateGoal(g) PROVE TypeOK'
  BY <1>1 DEF TypeOK, CreateGoal, Send, store, tickVars, runVars, GoalRow, ItemStatus, Command
<1>2. ASSUME NEW g \in Goal, RequestCancel(g) PROVE TypeOK'
  BY <1>2 DEF TypeOK, RequestCancel, Send, store, tickVars, runVars, GoalRow, Command
<1>3. ASSUME NEW g \in Goal, DeliverSubmit(g) PROVE TypeOK'
  BY <1>3 DEF TypeOK, DeliverSubmit, Submitted, store, tickVars, runVars, GoalState
<1>4. ASSUME NEW g \in Goal, DeliverCancel(g) PROVE TypeOK'
  BY <1>4 DEF TypeOK, DeliverCancel, Cancelled, store, tickVars, runVars, GoalState, GoalRow
<1>5. ASSUME NEW g \in Goal, HandleBudgetExceeded(g) PROVE TypeOK'
  BY <1>5 DEF TypeOK, HandleBudgetExceeded, Processing, store, tickVars, runVars, GoalState
<1>6. ASSUME NEW g \in Goal, CompleteGoal(g) PROVE TypeOK'
  BY <1>6 DEF TypeOK, CompleteGoal, Processing, store, tickVars, runVars, GoalState, GoalRow
<1>7. ASSUME NEW g \in Goal, NothingToStart(g) PROVE TypeOK'
  BY <1>7, PromotedType
  DEF TypeOK, NothingToStart, Seeking, Processing, store, tickVars, runVars
<1>8. ASSUME NEW g \in Goal, NEW i \in Item, StartWorkItem(g, i) PROVE TypeOK'
  <2> DEFINE run == <<i, runCount[i] + 1>>
  <2>1. run \in Run /\ SelectLane(i) \in Lane
    BY <1>8, StartedRun
  <2>2. runCount' \in [Item -> 0..MaxRuns]
    BY <1>8, LimitAssumption DEF TypeOK, StartWorkItem
  <2>3. itemStatus' \in [Item -> ItemStatus]
    BY <1>8, PromotedType DEF StartWorkItem, ItemStatus
  <2>4. laneActive' \in [Lane -> Nat]
    BY <1>8, <2>1 DEF TypeOK, StartWorkItem
  <2>5. /\ phase' \in [Run -> Phase] /\ runLane' \in [Run -> Lane]
        /\ activeExecutions' \subseteq Run /\ tickRuns' \subseteq Run
    BY <1>8, <2>1 DEF TypeOK, StartWorkItem, Phase
  <2> QED
    BY <1>8, <2>2, <2>3, <2>4, <2>5
    DEF TypeOK, StartWorkItem, Seeking, Processing, GoalState
<1>9. BeginTick \/ EndTick => TypeOK'
  BY DEF TypeOK, BeginTick, EndTick, store, tickVars, runVars
<1>10. ASSUME NEW r \in Run, Release(r)
       PROVE  /\ phase' \in [Run -> Phase]
              /\ activeExecutions' \subseteq Run
              /\ laneActive' \in [Lane -> Nat]
  BY <1>10 DEF TypeOK, Release, Phase
<1>11. ASSUME NEW r \in Run, Spend(r) PROVE spent' \in [Goal -> Nat]
  <2>1. PICK cost \in 0..MaxRunCost : spent' = [spent EXCEPT ![GoalOf[r[1]]] = @ + cost]
    BY <1>11, CostInRange
  <2> QED
    BY <2>1, GraphAssumption, LimitAssumption DEF TypeOK, Run
<1>12. ASSUME NEW r \in Run, NEW recoverable \in BOOLEAN, HandleFailure(r, recoverable)
       PROVE  /\ itemStatus' \in [Item -> ItemStatus]
              /\ goalState' \in [Goal -> GoalState]
              /\ goalRow' \in [Goal -> GoalRow]
              /\ reported' \in [Goal -> SUBSET {"completed", "failed"}]
              /\ Release(r)
  <2>1. r[1] \in Item /\ GoalOf[r[1]] \in Goal
    BY GraphAssumption DEF Run
  <2>2. PICK to \in ItemStatus :
          /\ itemStatus' = [itemStatus EXCEPT ![r[1]] = to]
          /\ IF to = "failed" THEN FailGoal(GoalOf[r[1]])
                              ELSE UNCHANGED <<goalState, goalRow, reported>>
          /\ Release(r)
    BY <1>12, <2>1, AfterFailureType DEF HandleFailure
  <2> QED
    BY <2>1, <2>2 DEF TypeOK, FailGoal, GoalState, GoalRow
<1>13. ASSUME NEW r \in Run, ExecutionSucceeds(r) PROVE TypeOK'
  <2>1. r[1] \in Item
    BY DEF Run
  <2> QED
    BY <1>13, <1>11, <2>1
    DEF TypeOK, ExecutionSucceeds, Resumes, tickVars, Phase, ItemStatus
<1>14. ASSUME NEW r \in Run, NEW recoverable \in BOOLEAN, ExecutionFails(r, recoverable)
       PROVE  TypeOK'
  BY <1>14, <1>10, <1>11, <1>12 DEF TypeOK, ExecutionFails, Resumes, tickVars
<1>15. ASSUME NEW r \in Run, VerificationPasses(r) PROVE TypeOK'
  <2>1. r[1] \in Item
    BY DEF Run
  <2> QED
    BY <1>15, <1>10, <2>1, DoneType DEF TypeOK, VerificationPasses, Resumes, tickVars
<1>16. ASSUME NEW r \in Run, NEW recoverable \in BOOLEAN, VerificationFails(r, recoverable)
       PROVE  TypeOK'
  BY <1>16, <1>10, <1>12 DEF TypeOK, VerificationFails, Resumes, tickVars
<1>17. Pause \/ Stop \/ Resume => TypeOK'
  BY DEF TypeOK, Pause, Stop, Resume, store, tickVars, runVars
<1>18. Crash => TypeOK'
  <2> SUFFICES ASSUME Crash PROVE TypeOK'
    OBVIOUS
  <2>1. crashes' \in 0..MaxCrashes
    BY LimitAssumption DEF TypeOK, Crash
  <2>2. /\ goalState' \in [Goal -> GoalState] /\ phase' \in [Run -> Phase]
        /\ laneActive' \in [Lane -> Nat]
    BY DEF Crash, GoalState, Phase
  <2> QED
    BY <2>1, <2>2 DEF TypeOK, Crash, store, tickVars
<1>19. Boot => TypeOK'
  BY DEF TypeOK, Boot, Submitted, store, tickVars, runVars, GoalState
<1>20. UNCHANGED vars => TypeOK'
  BY DEF TypeOK, vars, store, tickVars, runVars
<1> QED
  BY <1>1, <1>2, <1>3, <1>4, <1>5, <1>6, <1>7, <1>8, <1>9, <1>13, <1>14, <1>15, <1>16,
     <1>17, <1>18, <1>19, <1>20
  DEF Next, ProcessGoal, Execution

(* Every status, counter and set keeps to its vocabulary (TypeOK).         *)
THEOREM TypeCorrect == Spec => []TypeOK
BY TypeInit, TypeStep, PTL DEF Spec

---------------------------------------------------------------------------
(* The steps that touch items, runs, lanes or reports, told apart from the *)
(* quiet ones.                                                             *)

Quiet ==
  /\ UNCHANGED <<itemStatus, phase, runLane, laneActive, reported>>
  /\ \A g \in Goal : /\ goalRow'[g] = "completed" => goalRow[g] = "completed"
                     /\ goalRow'[g] = "none" => goalRow[g] = "none"

(* A step is quiet, or one of the seven actions the other lemmas look at.  *)
LEMMA QuietSteps ==
  ASSUME TypeOK, [Next]_vars
  PROVE  \/ Quiet
         \/ \E g \in Goal : \/ CreateGoal(g) \/ CompleteGoal(g) \/ NothingToStart(g)
                             \/ \E i \in Item : StartWorkItem(g, i)
         \/ \E r \in Run : Execution(r)
         \/ Crash
<1>1. ASSUME NEW g \in Goal, RequestCancel(g) PROVE Quiet
  BY <1>1 DEF TypeOK, RequestCancel, Quiet, runVars
<1>2. ASSUME NEW g \in Goal, DeliverSubmit(g) PROVE Quiet
  BY <1>2 DEF DeliverSubmit, Quiet, runVars, store
<1>3. ASSUME NEW g \in Goal, DeliverCancel(g) PROVE Quiet
  BY <1>3 DEF TypeOK, DeliverCancel, Cancelled, Quiet
<1>4. ASSUME NEW g \in Goal, HandleBudgetExceeded(g) PROVE Quiet
  BY <1>4 DEF HandleBudgetExceeded, Quiet, runVars
<1>5. BeginTick \/ EndTick \/ Pause \/ Stop \/ Resume \/ Boot \/ UNCHANGED vars => Quiet
  BY DEF BeginTick, EndTick, Pause, Stop, Resume, Boot, Quiet, runVars, store, vars
<1> QED
  BY <1>1, <1>2, <1>3, <1>4, <1>5 DEF Next, ProcessGoal

(* How a step may change the status of an item.                            *)
Moves(i) ==
  \/ itemStatus'[i] = itemStatus[i]
  \/ /\ itemStatus[i] \in {"queued", "ready"}
     /\ itemStatus'[i] \in {"ready", "in_progress"}
     /\ itemStatus[i] = "queued" => Satisfied(itemStatus, i) \/ Satisfied(itemStatus', i)
  \/ /\ itemStatus[i] = "in_progress"
     /\ itemStatus'[i] \in {"queued", "failed", "verify"}
  \/ /\ itemStatus[i] = "verify"
     /\ itemStatus'[i] \in {"done", "failed"}

(* A live run's failure leads from the run's status to queued or failed.   *)
LEMMA FailureMove ==
  ASSUME TypeOK, NEW i \in Item, NEW recoverable \in BOOLEAN,
         itemStatus[i] \in {"in_progress", "verify"}
  PROVE  \A to \in AfterFailure(i, recoverable) :
           \/ to = itemStatus[i]
           \/ to = "failed"
           \/ itemStatus[i] = "in_progress" /\ to = "queued"
BY DEF TypeOK, AfterFailure, FailureTarget, CanMove, ValidTransitions

(* Every step, for every item, is one of the moves above.                  *)
LEMMA StepMoves ==
  ASSUME TypeOK, RunsMatchItems, FreshGoals, [Next]_vars
  PROVE  \A i \in Item : Moves(i)
<1> SUFFICES ASSUME NEW i \in Item PROVE Moves(i)
  OBVIOUS
<1>1. CASE Quiet
  BY <1>1 DEF Quiet, Moves
<1>2. ASSUME NEW g \in Goal, CreateGoal(g) PROVE Moves(i)
  BY <1>2, GraphAssumption DEF CreateGoal, FreshGoals, TypeOK, ItemsOf, Moves, Satisfied
<1>3. ASSUME NEW g \in Goal, CompleteGoal(g) PROVE Moves(i)
  BY <1>3 DEF CompleteGoal, Moves
<1>4. ASSUME NEW g \in Goal, NothingToStart(g) PROVE Moves(i)
  BY <1>4 DEF NothingToStart, Promoted, Moves
<1>5. ASSUME NEW g \in Goal, NEW j \in Item, StartWorkItem(g, j) PROVE Moves(i)
  <2>1. Promoted(g)[j] = "ready" /\ itemStatus' = [Promoted(g) EXCEPT ![j] = "in_progress"]
    BY <1>5, StartedRun DEF StartWorkItem
  <2> QED
    BY <2>1 DEF Promoted, Moves
<1>6. ASSUME NEW r \in Run, Execution(r) PROVE Moves(i)
  <2>1. r[1] \in Item
    BY DEF Run
  <2>2. CASE ExecutionSucceeds(r)
    BY <2>1, <2>2 DEF ExecutionSucceeds, Resumes, RunsMatchItems, TypeOK, Moves
  <2>3. CASE VerificationPasses(r)
    <3>1. itemStatus[r[1]] = "verify" /\ itemStatus' = Done(r[1])
      BY <2>3 DEF VerificationPasses, Resumes, RunsMatchItems
    <3>2. \A d \in Item : itemStatus[d] = "done" => itemStatus'[d] = "done"
      BY <3>1 DEF Done, TypeOK
    <3>3. itemStatus'[r[1]] = "done"
      BY <2>1, <3>1 DEF Done, TypeOK
    <3>4. ASSUME i # r[1], itemStatus'[i] # itemStatus[i]
          PROVE  /\ itemStatus[i] = "queued" /\ itemStatus'[i] = "ready"
                 /\ \A d \in Deps[i] : d = r[1] \/ itemStatus[d] = "done"
      BY <2>1, <3>1, <3>4, GraphAssumption DEF Done, TypeOK, Satisfied
    <3>5. CASE i = r[1]
      BY <3>1, <3>3, <3>5 DEF Moves
    <3>6. CASE i # r[1] /\ itemStatus'[i] # itemStatus[i]
      <4>1. Satisfied(itemStatus', i)
        BY <3>2, <3>3, <3>4, <3>6, GraphAssumption DEF Satisfied
      <4> QED
        BY <3>4, <3>6, <4>1 DEF Moves
    <3> QED
      BY <3>5, <3>6 DEF Moves
  <2>4. ASSUME NEW recoverable \in BOOLEAN,
               ExecutionFails(r, recoverable) \/ VerificationFails(r, recoverable)
        PROVE  Moves(i)
    <3>1. itemStatus[r[1]] \in {"in_progress", "verify"} /\ HandleFailure(r, recoverable)
      BY <2>4 DEF ExecutionFails, VerificationFails, Resumes, RunsMatchItems
    <3>2. PICK to \in AfterFailure(r[1], recoverable) :
            itemStatus' = [itemStatus EXCEPT ![r[1]] = to]
      BY <3>1 DEF HandleFailure
    <3>3. \/ to = itemStatus[r[1]]
          \/ to = "failed"
          \/ itemStatus[r[1]] = "in_progress" /\ to = "queued"
      BY <2>1, <3>1, FailureMove
    <3> QED
      BY <2>1, <3>1, <3>2, <3>3 DEF TypeOK, Moves
  <2> QED
    BY <1>6, <2>2, <2>3, <2>4 DEF Execution
<1>7. CASE Crash
  BY <1>7 DEF Crash, store, Moves
<1> QED
  BY <1>1, <1>2, <1>3, <1>4, <1>5, <1>6, <1>7, QuietSteps

(* What is done stays done, and what failed stays failed.                  *)
LEMMA EndedStays ==
  ASSUME TypeOK, RunsMatchItems, FreshGoals, [Next]_vars, NEW i \in Item,
         itemStatus[i] \in {"done", "failed"}
  PROVE  itemStatus'[i] = itemStatus[i]
BY StepMoves DEF Moves

(* A step keeps what has started behind what it depends on, since what is  *)
(* done stays done.                                                        *)
LEMMA DependencyStep ==
  ASSUME TypeOK, DependencySafety, RunsMatchItems, FreshGoals, [Next]_vars
  PROVE  DependencySafety'
<1> SUFFICES ASSUME NEW i \in Item,
                    itemStatus'[i] \in {"ready", "in_progress", "verify", "done", "failed"}
             PROVE  Satisfied(itemStatus', i)
  BY DEF DependencySafety, Satisfied
<1>1. \A d \in Deps[i] : itemStatus[d] = "done" => itemStatus'[d] = "done"
  BY EndedStays, GraphAssumption
<1>2. Satisfied(itemStatus, i) \/ Satisfied(itemStatus', i)
  BY StepMoves DEF Moves, DependencySafety, TypeOK
<1> QED
  BY <1>1, <1>2 DEF Satisfied

---------------------------------------------------------------------------
(* Runs and lanes *)

(* An item that may be started has no live run, so its next run is idle.   *)
LEMMA NewRunIsIdle ==
  ASSUME TypeOK, RunsMatchItems, NEW g \in Goal, NEW i \in Item, StartWorkItem(g, i)
  PROVE  /\ \A r \in Run : r[1] = i => phase[r] = "idle"
         /\ phase[<<i, runCount[i] + 1>>] = "idle"
<1>1. itemStatus[i] \in {"queued", "ready"}
  BY StartedRun DEF Promoted
<1>2. \A r \in Run : r[1] = i => phase[r] = "idle"
  BY <1>1 DEF TypeOK, RunsMatchItems, Phase
<1> QED
  BY <1>2, StartedRun

(* A step leaves each live run with its item in the status it expects: no  *)
(* other coroutine, and no promotion, touches an item in progress.         *)
LEMMA RunsStep ==
  ASSUME TypeOK, RunsMatchItems, FreshGoals, [Next]_vars
  PROVE  RunsMatchItems'
<1> DEFINE Owns(st, ph) ==
             \A r \in Run : /\ ph[r] = "executing" => st[r[1]] = "in_progress"
                            /\ ph[r] = "verifying" => st[r[1]] = "verify"
           Alone(ph) == \A r, s \in Run :
                          ph[r] # "idle" /\ ph[s] # "idle" /\ r[1] = s[1] => r = s
<1>a. RunsMatchItems <=> Owns(itemStatus, phase) /\ Alone(phase)
  BY DEF RunsMatchItems, InFlight
<1>b. ASSUME Owns(itemStatus', phase'), Alone(phase') PROVE RunsMatchItems'
  BY <1>b DEF RunsMatchItems, InFlight
<1>c. ASSUME UNCHANGED phase,
             \A i \in Item : itemStatus[i] \in {"in_progress", "verify"}
                            => itemStatus'[i] = itemStatus[i]
      PROVE  RunsMatchItems'
  BY <1>a, <1>b, <1>c DEF Run
<1>d. ASSUME NEW r \in Run, phase[r] # "idle", phase' = [phase EXCEPT ![r] = "idle"],
             \A i \in Item : i # r[1] /\ itemStatus[i] \in {"in_progress", "verify"}
                            => itemStatus'[i] = itemStatus[i]
      PROVE  RunsMatchItems'
  <2>1. \A s \in Run : phase'[s] # "idle" => s[1] # r[1] /\ phase'[s] = phase[s]
    BY <1>a, <1>d DEF TypeOK
  <2> QED
    BY <1>a, <1>b, <1>d, <2>1 DEF Run
<1>1. CASE Quiet
  BY <1>1, <1>c DEF Quiet
<1>2. ASSUME NEW g \in Goal, CreateGoal(g) PROVE RunsMatchItems'
  BY <1>2, <1>c DEF CreateGoal, FreshGoals, runVars, ItemsOf, TypeOK
<1>3. ASSUME NEW g \in Goal, CompleteGoal(g) PROVE RunsMatchItems'
  BY <1>3, <1>c DEF CompleteGoal, runVars
<1>4. ASSUME NEW g \in Goal, NothingToStart(g) PROVE RunsMatchItems'
  BY <1>4, <1>c DEF NothingToStart, Promoted, runVars
<1>5. ASSUME NEW g \in Goal, NEW i \in Item, StartWorkItem(g, i) PROVE RunsMatchItems'
  <2> DEFINE run == <<i, runCount[i] + 1>>
  <2>1. /\ run \in Run /\ run[1] = i
        /\ \A r \in Run : r[1] = i => phase[r] = "idle"
    BY <1>5, StartedRun, NewRunIsIdle
  <2>2. phase' = [phase EXCEPT ![run] = "executing"]
    BY <1>5 DEF StartWorkItem
  <2>3. itemStatus'[i] = "in_progress"
    BY <1>5, PromotedType DEF StartWorkItem
  <2>4. \A j \in Item : j # i /\ itemStatus[j] \in {"in_progress", "verify"}
                        => itemStatus'[j] = itemStatus[j]
    BY <1>5 DEF StartWorkItem, Promoted
  <2> HIDE DEF run
  <2>5. \A r \in Run : phase'[r] # "idle" =>
          \/ r = run /\ phase'[r] = "executing"
          \/ r # run /\ r[1] # i /\ phase'[r] = phase[r]
    BY <2>1, <2>2 DEF TypeOK
  <2> QED
    BY <1>a, <1>b, <2>1, <2>3, <2>4, <2>5 DEF Run
<1>6. ASSUME NEW r \in Run, Execution(r) PROVE RunsMatchItems'
  <2>1. r[1] \in Item
    BY DEF Run
  <2>2. CASE ExecutionSucceeds(r)
    <3>1. /\ phase[r] = "executing" /\ phase' = [phase EXCEPT ![r] = "verifying"]
          /\ itemStatus' = [itemStatus EXCEPT ![r[1]] = "verify"]
      BY <2>2 DEF ExecutionSucceeds, Resumes
    <3>2. \A s \in Run : phase'[s] # "idle" =>
            \/ s = r
            \/ s[1] # r[1] /\ phase'[s] = phase[s] /\ itemStatus'[s[1]] = itemStatus[s[1]]
      BY <1>a, <3>1 DEF TypeOK, Run
    <3>3. phase'[r] = "verifying" /\ itemStatus'[r[1]] = "verify"
      BY <2>1, <3>1 DEF TypeOK
    <3> QED
      BY <1>a, <1>b, <3>2, <3>3
  <2>3. CASE VerificationPasses(r)
    <3>1. phase[r] = "verifying" /\ phase' = [phase EXCEPT ![r] = "idle"]
      BY <2>3 DEF VerificationPasses, Resumes, Release
    <3>2. \A i \in Item : i # r[1] /\ itemStatus[i] \in {"in_progress", "verify"}
                          => itemStatus'[i] = itemStatus[i]
      BY <2>1, <2>3 DEF VerificationPasses, Done, TypeOK
    <3> QED
      BY <1>d, <3>1, <3>2
  <2>4. ASSUME NEW recoverable \in BOOLEAN,
               ExecutionFails(r, recoverable) \/ VerificationFails(r, recoverable)
        PROVE  RunsMatchItems'
    <3>1. /\ phase[r] # "idle" /\ phase' = [phase EXCEPT ![r] = "idle"]
          /\ \E to : itemStatus' = [itemStatus EXCEPT ![r[1]] = to]
      BY <2>4 DEF ExecutionFails, VerificationFails, Resumes, HandleFailure, Release
    <3>2. \A i \in Item : i # r[1] => itemStatus'[i] = itemStatus[i]
      BY <2>1, <3>1 DEF TypeOK
    <3> QED
      BY <1>d, <3>1, <3>2
  <2> QED
    BY <1>6, <2>2, <2>3, <2>4 DEF Execution
<1>7. CASE Crash
  BY <1>7, <1>b DEF Crash
<1> QED
  BY <1>1, <1>2, <1>3, <1>4, <1>5, <1>6, <1>7, QuietSteps

(* Counting a lane: its runs are finitely many; one more or one less.      *)
LEMMA RunsInFinite ==
  ASSUME NEW l \in Lane
  PROVE  IsFiniteSet(RunsIn(l)) /\ IsFiniteSet(RunsIn(l)')
<1>1. RunsIn(l) \in SUBSET Run /\ RunsIn(l)' \in SUBSET Run
  BY DEF RunsIn
<1> QED
  BY <1>1, RunFinite, FS_Subset

(* A step that leaves runs, lanes and counters alone keeps the accounts.   *)
LEMMA SameRuns ==
  ASSUME LaneAccounting, UNCHANGED <<phase, runLane, laneActive>>
  PROVE  LaneAccounting'
<1>1. \A l \in Lane : RunsIn(l)' = RunsIn(l)
  BY DEF RunsIn, InFlight
<1> QED
  BY <1>1 DEF LaneAccounting

(* A run that ends gives back the slot it held, and no other.              *)
LEMMA ReleaseStep ==
  ASSUME TypeOK, LaneAccounting, NEW r \in Run, phase[r] # "idle",
         Release(r), UNCHANGED runLane
  PROVE  LaneAccounting'
<1>1. PICK lane \in Lane : lane = runLane[r]
  BY DEF TypeOK
<1>2. RunsIn(lane)' = RunsIn(lane) \ {r} /\ r \in RunsIn(lane)
  BY <1>1 DEF Release, RunsIn, InFlight, TypeOK
<1>3. \A l \in Lane \ {lane} : RunsIn(l)' = RunsIn(l)
  BY <1>1 DEF Release, RunsIn, InFlight, TypeOK
<1>4. /\ Cardinality(RunsIn(lane)') = Cardinality(RunsIn(lane)) - 1
      /\ Cardinality(RunsIn(lane)) \in Nat
      /\ Cardinality(RunsIn(lane)) # 0
  <2>1. IsFiniteSet(RunsIn(lane))
    BY RunsInFinite
  <2> QED
    BY <1>2, <2>1, FS_RemoveElement, FS_CardinalityType, FS_EmptySet
<1>5. /\ laneActive[lane] > 0
      /\ laneActive' = [laneActive EXCEPT ![lane] = @ - 1]
  <2>1. laneActive[lane] = Cardinality(RunsIn(lane)) /\ laneActive[lane] > 0
    BY <1>4 DEF LaneAccounting
  <2> QED
    BY <1>1, <2>1 DEF Release
<1>6. ASSUME NEW l \in Lane
      PROVE  /\ laneActive'[l] = Cardinality(RunsIn(l)')
             /\ laneActive'[l] <= MaxConcurrency[l]
  <2>1. CASE l = lane
    <3>1. /\ laneActive[lane] = Cardinality(RunsIn(lane))
          /\ laneActive[lane] <= MaxConcurrency[lane]
          /\ MaxConcurrency[lane] \in Nat
      BY LimitAssumption DEF LaneAccounting
    <3>2. laneActive'[lane] = laneActive[lane] - 1
      BY <1>5 DEF TypeOK
    <3> QED
      BY <1>4, <2>1, <3>1, <3>2
  <2>2. CASE l # lane
    BY <1>3, <1>5, <2>2 DEF LaneAccounting, TypeOK
  <2> QED
    BY <2>1, <2>2
<1> QED
  BY <1>6 DEF LaneAccounting

(* A step keeps every lane's counter equal to the number of its runs.      *)
LEMMA LanesStep ==
  ASSUME TypeOK, LaneAccounting, RunsMatchItems, [Next]_vars
  PROVE  LaneAccounting'
<1>1. CASE Quiet
  BY <1>1, SameRuns DEF Quiet
<1>2. ASSUME NEW g \in Goal, CreateGoal(g) \/ CompleteGoal(g) \/ NothingToStart(g)
      PROVE  LaneAccounting'
  BY <1>2, SameRuns DEF CreateGoal, CompleteGoal, NothingToStart, runVars
<1>3. ASSUME NEW g \in Goal, NEW i \in Item, StartWorkItem(g, i) PROVE LaneAccounting'
  <2>0. PICK run, lane : run = <<i, runCount[i] + 1>> /\ lane = SelectLane(i)
    OBVIOUS
  <2>1. run \in Run /\ lane \in Lane /\ phase[run] = "idle"
    BY <1>3, <2>0, StartedRun, NewRunIsIdle
  <2>2. /\ laneActive[lane] < MaxConcurrency[lane]
        /\ laneActive' = [laneActive EXCEPT ![lane] = @ + 1]
        /\ phase' = [phase EXCEPT ![run] = "executing"]
        /\ runLane' = [runLane EXCEPT ![run] = lane]
    BY <1>3, <2>0 DEF StartWorkItem, HasCapacity
  <2>3. RunsIn(lane)' = RunsIn(lane) \cup {run} /\ run \notin RunsIn(lane)
    BY <2>1, <2>2 DEF RunsIn, InFlight, TypeOK
  <2>4. \A l \in Lane \ {lane} : RunsIn(l)' = RunsIn(l)
    BY <2>1, <2>2 DEF RunsIn, InFlight, TypeOK
  <2>5. /\ Cardinality(RunsIn(lane)') = Cardinality(RunsIn(lane)) + 1
        /\ Cardinality(RunsIn(lane)) \in Nat
    <3>1. IsFiniteSet(RunsIn(lane))
      BY <2>1, RunsInFinite
    <3> QED
      BY <2>3, <3>1, FS_AddElement, FS_CardinalityType
  <2>6. ASSUME NEW l \in Lane
        PROVE  /\ laneActive'[l] = Cardinality(RunsIn(l)')
               /\ laneActive'[l] <= MaxConcurrency[l]
    <3>1. CASE l = lane
      <4>1. /\ laneActive[lane] = Cardinality(RunsIn(lane))
            /\ MaxConcurrency[lane] \in Nat
        BY <2>1, LimitAssumption DEF LaneAccounting
      <4>2. laneActive'[lane] = laneActive[lane] + 1
        BY <2>1, <2>2 DEF TypeOK
      <4>3. laneActive[lane] + 1 <= MaxConcurrency[lane]
        BY <2>2, <2>5, <4>1
      <4> QED
        BY <2>5, <3>1, <4>1, <4>2, <4>3
    <3>2. CASE l # lane
      BY <2>2, <2>4, <3>2 DEF LaneAccounting, TypeOK
    <3> QED
      BY <3>1, <3>2
  <2> QED
    BY <2>6 DEF LaneAccounting
<1>4. ASSUME NEW r \in Run, Execution(r) PROVE LaneAccounting'
  <2>1. CASE ExecutionSucceeds(r)
    <3>1. \A l \in Lane : RunsIn(l)' = RunsIn(l)
      BY <2>1 DEF ExecutionSucceeds, Resumes, RunsIn, InFlight, TypeOK
    <3> QED
      BY <2>1, <3>1 DEF LaneAccounting, ExecutionSucceeds
  <2>2. CASE ~ExecutionSucceeds(r)
    <3>1. phase[r] # "idle" /\ Release(r) /\ UNCHANGED runLane
      BY <1>4, <2>2
      DEF Execution, VerificationPasses, ExecutionFails, VerificationFails, HandleFailure, Resumes
    <3> QED
      BY <3>1, ReleaseStep
  <2> QED
    BY <2>1, <2>2
<1>5. CASE Crash
  <2>1. \A l \in Lane : RunsIn(l)' = {}
    BY <1>5 DEF Crash, RunsIn, InFlight
  <2> QED
    <3>1. \A l \in Lane : MaxConcurrency[l] \in Nat /\ laneActive'[l] = 0
      BY <1>5, LimitAssumption DEF Crash
    <3> QED
      BY <2>1, <3>1, FS_EmptySet DEF LaneAccounting
<1> QED
  BY <1>1, <1>2, <1>3, <1>4, <1>5, QuietSteps

---------------------------------------------------------------------------
(* Goals *)

(* A step leaves goals without a row untouched.                            *)
LEMMA FreshStep ==
  ASSUME TypeOK, RunsMatchItems, FreshGoals, [Next]_vars
  PROVE  FreshGoals'
<1> SUFFICES ASSUME NEW g \in Goal, goalRow'[g] = "none"
             PROVE  /\ \A i \in ItemsOf(g) : itemStatus'[i] = "queued"
                    /\ g \notin activeGoals' \cup tickTodo'
                    /\ <<"submit_goal", g>> \notin commands'
  BY DEF FreshGoals, ItemsOf
<1> DEFINE Fresh == /\ \A i \in ItemsOf(g) : itemStatus[i] = "queued"
                    /\ g \notin activeGoals \cup tickTodo
                    /\ <<"submit_goal", g>> \notin commands
<1>0. goalRow[g] = "none" => Fresh
  BY DEF FreshGoals
<1> HIDE DEF Fresh
<1>1. ASSUME NEW h \in Goal, CreateGoal(h) PROVE Fresh'
  <2>1. goalRow[g] = "none" /\ h # g
    BY <1>1 DEF CreateGoal, TypeOK
  <2> QED
    BY <1>0, <1>1, <2>1 DEF CreateGoal, Send, Fresh, ItemsOf, tickVars
<1>2. ASSUME NEW h \in Goal, RequestCancel(h) PROVE Fresh'
  <2>1. goalRow[g] = "none" /\ h # g
    BY <1>2 DEF RequestCancel, TypeOK
  <2> QED
    BY <1>0, <1>2, <2>1 DEF RequestCancel, Send, Fresh, ItemsOf, tickVars
<1>3. ASSUME NEW h \in Goal, DeliverSubmit(h) PROVE Fresh'
  <2>1. Fresh
    BY <1>0, <1>3 DEF DeliverSubmit, store
  <2> QED
    BY <1>3, <2>1 DEF DeliverSubmit, Submitted, Fresh, ItemsOf, tickVars, store
<1>4. ASSUME NEW h \in Goal, DeliverCancel(h) PROVE Fresh'
  <2>1. Fresh
    BY <1>0, <1>4 DEF DeliverCancel, Cancelled, TypeOK
  <2> QED
    BY <1>4, <2>1 DEF DeliverCancel, Cancelled, Fresh, ItemsOf, tickVars
<1>5. BeginTick \/ EndTick \/ Pause \/ Stop \/ Resume \/ UNCHANGED vars => Fresh'
  BY <1>0
  DEF BeginTick, EndTick, Pause, Stop, Resume, vars, store, tickVars, Fresh, ItemsOf
<1>6. ASSUME NEW h \in Goal, ProcessGoal(h) PROVE Fresh'
  <2>1. /\ h \in tickTodo /\ tickTodo' = tickTodo \ {h}
        /\ UNCHANGED <<activeGoals, commands>>
        /\ UNCHANGED goalRow \/ goalRow' = [goalRow EXCEPT ![h] = "completed"]
    BY <1>6
    DEF ProcessGoal, HandleBudgetExceeded, CompleteGoal, NothingToStart, StartWorkItem,
        Seeking, Processing
  <2>2. Fresh /\ h # g
    BY <1>0, <2>1 DEF Fresh, TypeOK
  <2>3. \A i \in ItemsOf(g) : itemStatus'[i] = itemStatus[i]
    <3> SUFFICES ASSUME NEW i \in ItemsOf(g) PROVE itemStatus'[i] = itemStatus[i]
      OBVIOUS
    <3>1. CASE HandleBudgetExceeded(h) \/ CompleteGoal(h) \/ NothingToStart(h)
      BY <2>2, <3>1 DEF HandleBudgetExceeded, CompleteGoal, NothingToStart, Promoted, ItemsOf
    <3>2. ASSUME NEW j \in Item, StartWorkItem(h, j)
          PROVE  itemStatus'[i] = itemStatus[i]
      <4>1. GoalOf[j] = h /\ itemStatus' = [Promoted(h) EXCEPT ![j] = "in_progress"]
        BY <3>2, StartedRun DEF StartWorkItem
      <4>2. i \in Item /\ i # j /\ Promoted(h)[i] = itemStatus[i]
        BY <2>2, <4>1 DEF Promoted, ItemsOf
      <4> QED
        BY <4>1, <4>2, PromotedType
    <3> QED
      BY <1>6, <3>1, <3>2 DEF ProcessGoal
  <2> QED
    BY <2>1, <2>2, <2>3 DEF Fresh, ItemsOf
<1>7. ASSUME NEW r \in Run, Execution(r) PROVE Fresh'
  <2>1. /\ r[1] \in Item /\ GoalOf[r[1]] \in Goal
        /\ itemStatus[r[1]] \in {"in_progress", "verify"}
    BY <1>7, GraphAssumption
    DEF Run, Execution, ExecutionSucceeds, VerificationPasses, ExecutionFails,
        VerificationFails, Resumes, RunsMatchItems
  <2>2. /\ UNCHANGED <<activeGoals, tickTodo, commands>>
        /\ \/ UNCHANGED goalRow
           \/ goalRow' = [goalRow EXCEPT ![GoalOf[r[1]]] = "blocked"]
    BY <1>7
    DEF Execution, ExecutionSucceeds, VerificationPasses, ExecutionFails,
        VerificationFails, Resumes, tickVars, HandleFailure, FailGoal
  <2>3. Fresh
    BY <1>0, <2>1, <2>2 DEF TypeOK
  <2>4. GoalOf[r[1]] # g
    BY <2>1, <2>3 DEF Fresh, ItemsOf
  <2>5. \/ itemStatus' = Done(r[1])
        \/ \E to : itemStatus' = [itemStatus EXCEPT ![r[1]] = to]
    BY <1>7
    DEF Execution, ExecutionSucceeds, VerificationPasses, ExecutionFails,
        VerificationFails, HandleFailure
  <2>6. \A i \in ItemsOf(g) : itemStatus'[i] = itemStatus[i]
    BY <2>1, <2>4, <2>5 DEF Done, ItemsOf, TypeOK
  <2> QED
    BY <2>2, <2>3, <2>6 DEF Fresh, ItemsOf
<1>8. CASE Crash
  BY <1>0, <1>8 DEF Crash, store, Fresh, ItemsOf
<1>9. CASE Boot
  BY <1>0, <1>9 DEF Boot, Submitted, store, tickVars, Fresh, ItemsOf
<1> QED
  BY <1>1, <1>2, <1>3, <1>4, <1>5, <1>6, <1>7, <1>8, <1>9 DEF Next, Fresh, ItemsOf

(* New reports and new completed rows come from two actions only.          *)
LEMMA NewReports ==
  ASSUME TypeOK, [Next]_vars, NEW g \in Goal
  PROVE  /\ "completed" \in reported'[g] \/ goalRow'[g] = "completed" =>
              \/ "completed" \in reported[g] \/ goalRow[g] = "completed"
              \/ AllComplete(g) /\ UNCHANGED itemStatus
         /\ "failed" \in reported'[g] =>
              \/ "failed" \in reported[g]
              \/ \E i \in ItemsOf(g) : itemStatus'[i] = "failed"
<1> DEFINE Same == /\ reported'[g] = reported[g]
                   /\ goalRow'[g] = "completed" => goalRow[g] = "completed"
<1>1. CASE Quiet
  BY <1>1 DEF Quiet
<1>2. ASSUME NEW h \in Goal, CreateGoal(h) PROVE Same
  BY <1>2 DEF CreateGoal, TypeOK
<1>3. ASSUME NEW h \in Goal, CompleteGoal(h), h # g PROVE Same
  BY <1>3 DEF CompleteGoal, TypeOK
<1>4. ASSUME CompleteGoal(g)
      PROVE  /\ AllComplete(g) /\ UNCHANGED itemStatus
             /\ "failed" \in reported'[g] => "failed" \in reported[g]
  BY <1>4 DEF CompleteGoal, TypeOK
<1>5. ASSUME NEW h \in Goal, NothingToStart(h) \/ \E i \in Item : StartWorkItem(h, i)
      PROVE  Same
  BY <1>5 DEF NothingToStart, StartWorkItem, Seeking
<1>6. ASSUME NEW r \in Run, ExecutionSucceeds(r) \/ VerificationPasses(r) PROVE Same
  BY <1>6 DEF ExecutionSucceeds, VerificationPasses
<1>7. ASSUME NEW r \in Run, NEW recoverable \in BOOLEAN,
             ExecutionFails(r, recoverable) \/ VerificationFails(r, recoverable)
      PROVE  /\ goalRow'[g] = "completed" => goalRow[g] = "completed"
             /\ "completed" \in reported'[g] => "completed" \in reported[g]
             /\ "failed" \in reported'[g] =>
                  \/ "failed" \in reported[g]
                  \/ \E i \in ItemsOf(g) : itemStatus'[i] = "failed"
  <2>1. r[1] \in Item /\ GoalOf[r[1]] \in Goal
    BY GraphAssumption DEF Run
  <2>2. PICK to :
          /\ itemStatus' = [itemStatus EXCEPT ![r[1]] = to]
          /\ IF to = "failed" THEN FailGoal(GoalOf[r[1]])
                              ELSE UNCHANGED <<goalState, goalRow, reported>>
    BY <1>7 DEF ExecutionFails, VerificationFails, HandleFailure
  <2>3. CASE to # "failed"
    BY <2>2, <2>3
  <2>4. CASE to = "failed" /\ GoalOf[r[1]] # g
    BY <2>1, <2>2, <2>4 DEF FailGoal, TypeOK
  <2>5. CASE to = "failed" /\ GoalOf[r[1]] = g
    <3>1. r[1] \in ItemsOf(g) /\ itemStatus'[r[1]] = "failed"
      BY <2>1, <2>2, <2>5 DEF ItemsOf, TypeOK
    <3> QED
      BY <2>1, <2>2, <2>5, <3>1 DEF FailGoal, TypeOK
  <2> QED
    BY <2>3, <2>4, <2>5
<1>8. CASE Crash
  BY <1>8 DEF Crash, store
<1> QED
  BY <1>1, <1>2, <1>3, <1>4, <1>5, <1>6, <1>7, <1>8, QuietSteps DEF Execution

(* A goal reported as failed keeps a failed item.                          *)
LEMMA FailedStep ==
  ASSUME TypeOK, RunsMatchItems, FreshGoals, FailedGoals, [Next]_vars
  PROVE  FailedGoals'
<1> SUFFICES ASSUME NEW g \in Goal, "failed" \in reported'[g]
             PROVE  \E i \in ItemsOf(g) : itemStatus'[i] = "failed"
  BY DEF FailedGoals, ItemsOf
<1>1. ASSUME "failed" \in reported[g]
      PROVE  \E i \in ItemsOf(g) : itemStatus'[i] = "failed"
  BY <1>1, EndedStays DEF FailedGoals, ItemsOf
<1> QED
  BY <1>1, NewReports

(* A completed goal keeps its items done and without a live run.           *)
LEMMA CompletedStep ==
  ASSUME TypeOK, RunsMatchItems, FreshGoals, CompletedGoalsAreDone, [Next]_vars
  PROVE  CompletedGoalsAreDone'
<1> SUFFICES ASSUME NEW g \in Goal,
                    "completed" \in reported'[g] \/ goalRow'[g] = "completed"
             PROVE  /\ AllComplete(g)'
                    /\ \A r \in Run : InFlight(r)' => GoalOf[r[1]] # g
  BY DEF CompletedGoalsAreDone
<1>1. AllComplete(g)
  BY NewReports DEF CompletedGoalsAreDone
<1>2. AllComplete(g)'
  BY <1>1, EndedStays DEF AllComplete, ItemsOf
<1>3. ASSUME NEW r \in Run, InFlight(r)' PROVE GoalOf[r[1]] # g
  <2>1. phase'[r] \in {"executing", "verifying"}
    BY <1>3, TypeStep DEF InFlight, TypeOK, Phase
  <2>2. itemStatus'[r[1]] # "done" /\ r[1] \in Item
    BY <2>1, RunsStep DEF RunsMatchItems, Run
  <2> QED
    BY <1>2, <2>2 DEF AllComplete, ItemsOf
<1> QED
  BY <1>2, <1>3

---------------------------------------------------------------------------
(* The inductive invariant holds in every reachable state.                 *)
THEOREM Invariance == Spec => []IInv
<1>1. Init => IInv
  <2> SUFFICES ASSUME Init PROVE IInv
    OBVIOUS
  <2>1. TypeOK
    BY TypeInit
  <2>2. \A l \in Lane : RunsIn(l) = {} /\ laneActive[l] = 0 /\ MaxConcurrency[l] \in Nat
    BY LimitAssumption DEF Init, RunsIn, InFlight
  <2>3. LaneAccounting
    BY <2>2, FS_EmptySet DEF LaneAccounting
  <2>4. DependencySafety /\ RunsMatchItems
    BY DEF Init, DependencySafety, RunsMatchItems, InFlight, Run
  <2>5. CompletedGoalsAreDone /\ FailedGoals
    BY DEF Init, CompletedGoalsAreDone, FailedGoals
  <2>6. FreshGoals
    BY DEF Init, FreshGoals, ItemsOf
  <2> QED
    BY <2>1, <2>3, <2>4, <2>5, <2>6 DEF IInv
<1>2. IInv /\ [Next]_vars => IInv'
  BY TypeStep, DependencyStep, RunsStep, LanesStep, CompletedStep, FreshStep, FailedStep
  DEF IInv
<1> QED
  BY <1>1, <1>2, PTL DEF Spec

(* Work never starts, and nothing is done, before its dependencies.        *)
THEOREM DependenciesHold == Spec => []DependencySafety
BY Invariance, PTL DEF IInv

(* Every lane's counter is exact and within the limit, in every state of   *)
(* every system, through cancellations, stops and crashes.                 *)
THEOREM LanesHold == Spec => []LaneAccounting
BY Invariance, PTL DEF IInv

(* No item is worked on twice at a time.                                   *)
THEOREM RunsHold == Spec => []RunsMatchItems
BY Invariance, PTL DEF IInv

(* A completed goal is finished work.                                      *)
THEOREM CompletionHolds == Spec => []CompletedGoalsAreDone
BY Invariance, PTL DEF IInv

(* No goal is ever reported both completed and failed.                     *)
THEOREM OutcomeHolds == Spec => []OneOutcome
<1>1. IInv => OneOutcome
  <2> SUFFICES ASSUME IInv, NEW g \in Goal, reported[g] = {"completed", "failed"}
               PROVE  FALSE
    BY DEF OneOutcome
  <2>1. PICK i \in ItemsOf(g) : itemStatus[i] = "failed"
    BY DEF IInv, FailedGoals
  <2>2. itemStatus[i] = "done"
    BY DEF IInv, CompletedGoalsAreDone, AllComplete
  <2> QED
    BY <2>1, <2>2
<1> QED
  BY <1>1, Invariance, PTL

---------------------------------------------------------------------------
(* How far a goal may overspend its budget: the runs that are executing    *)
(* have slots, so there are no more of them than the goal's lanes have     *)
(* slots, and none of them starts when the budget is used up.              *)

SlotsOn(g, l) == IF l \in LanesOf(g) THEN {l} \X (1..MaxConcurrency[l]) ELSE {}

(* A run holds a slot of a lane its goal may use.                          *)
LanesKept == \A r \in Run : InFlight(r) => runLane[r] \in LanesOf(GoalOf[r[1]])

---------------------------------------------------------------------------
(* Counting *)

(* Sets that are no larger than disjoint ones have no larger union.        *)
LEMMA UnionAtMost ==
  ASSUME NEW A, NEW B, NEW S, NEW T,
         IsFiniteSet(A), IsFiniteSet(B), IsFiniteSet(S), IsFiniteSet(T),
         Cardinality(A) <= Cardinality(S), Cardinality(B) <= Cardinality(T),
         S \cap T = {}
  PROVE  /\ IsFiniteSet(A \cup B) /\ IsFiniteSet(S \cup T)
         /\ Cardinality(A \cup B) <= Cardinality(S \cup T)
<1>1. IsFiniteSet(A \cap B)
  BY FS_Intersection
<1>2. /\ Cardinality(A) \in Nat /\ Cardinality(B) \in Nat
      /\ Cardinality(S) \in Nat /\ Cardinality(T) \in Nat
      /\ Cardinality(A \cap B) \in Nat
  BY <1>1, FS_CardinalityType
<1>3. Cardinality(A \cup B) = Cardinality(A) + Cardinality(B) - Cardinality(A \cap B)
  BY FS_Union
<1>4. Cardinality(S \cup T) = Cardinality(S) + Cardinality(T) - 0
  BY FS_Union, FS_EmptySet
<1>5. Cardinality(A \cup B) <= Cardinality(S \cup T)
  <2> DEFINE a == Cardinality(A) b == Cardinality(B) c == Cardinality(A \cap B)
             m == Cardinality(S) n == Cardinality(T)
  <2>1. /\ a \in Nat /\ b \in Nat /\ c \in Nat /\ m \in Nat /\ n \in Nat
        /\ a <= m /\ b <= n
    BY <1>2
  <2>2. Cardinality(A \cup B) = a + b - c /\ Cardinality(S \cup T) = m + n - 0
    BY <1>3, <1>4
  <2> HIDE DEF a, b, c, m, n
  <2> QED
    BY <2>1, <2>2
<1> QED
  BY <1>5, FS_Union

(* More runs cost no less, and one run less costs one run's cost less.     *)
LEMMA CostOfRuns ==
  ASSUME NEW m \in Nat, NEW k \in Nat, NEW n \in Nat, k <= n
  PROVE  /\ m * k \in Nat
         /\ m * k <= m * n
         /\ m * (k + 1) = m * k + m
<1>1. PICK d \in Nat : n = k + d
  <2>1. n - k \in Nat /\ n = k + (n - k)
    OBVIOUS
  <2> QED
    BY <2>1
<1>2. m * k \in Nat /\ m * d \in Nat
  OBVIOUS
<1>3. m * n = m * k + m * d /\ m * (k + 1) = m * k + m
  BY <1>1
<1> QED
  BY <1>2, <1>3

(* A lane the goal may use has as many slots as its limit says.            *)
LEMMA SlotsOnLane ==
  ASSUME NEW g \in Goal, NEW l \in Lane
  PROVE  /\ IsFiniteSet(SlotsOn(g, l))
         /\ Cardinality(SlotsOn(g, l)) = IF l \in LanesOf(g) THEN MaxConcurrency[l] ELSE 0
<1>1. MaxConcurrency[l] \in Nat \ {0}
  BY LimitAssumption
<1>2. /\ IsFiniteSet(1..MaxConcurrency[l])
      /\ Cardinality(1..MaxConcurrency[l]) = MaxConcurrency[l]
  <2> DEFINE n == MaxConcurrency[l]
  <2>1. n \in Nat \ {0}
    BY <1>1
  <2> HIDE DEF n
  <2>2. IsFiniteSet(1..n) /\ Cardinality(1..n) = IF 1 > n THEN 0 ELSE n - 1 + 1
    BY <2>1, FS_Interval
  <2>3. (IF 1 > n THEN 0 ELSE n - 1 + 1) = n
    BY <2>1
  <2> QED BY <2>2, <2>3 DEF n
<1>3. IsFiniteSet({l}) /\ Cardinality({l}) = 1
  BY FS_Singleton
<1>4. /\ IsFiniteSet({l} \X (1..MaxConcurrency[l]))
      /\ Cardinality({l} \X (1..MaxConcurrency[l])) = MaxConcurrency[l]
  <2> DEFINE n == MaxConcurrency[l]
             T == 1..MaxConcurrency[l]
  <2>1. n \in Nat /\ IsFiniteSet(T) /\ Cardinality(T) = n
    BY <1>1, <1>2
  <2> HIDE DEF n, T
  <2>2. IsFiniteSet({l} \X T) /\ Cardinality({l} \X T) = Cardinality({l}) * Cardinality(T)
    BY <1>3, <2>1, FS_Product
  <2>3. Cardinality({l} \X T) = n
    BY <1>3, <2>1, <2>2
  <2> QED BY <2>2, <2>3 DEF n, T
<1> QED
  BY <1>1, <1>4, FS_EmptySet DEF SlotsOn

(* Runs on lanes of a goal, on each no more than its limit, are no more    *)
(* than the goal's slots.                                                  *)
LEMMA RunsFitSlots ==
  ASSUME NEW g \in Goal, NEW E \in SUBSET Run, NEW lane \in [Run -> Lane],
         \A r \in E : lane[r] \in LanesOf(g),
         \A l \in Lane : Cardinality({r \in E : lane[r] = l}) <= MaxConcurrency[l]
  PROVE  /\ IsFiniteSet(E) /\ IsFiniteSet(SlotsOf(g))
         /\ Cardinality(E) <= Cardinality(SlotsOf(g))
<1> DEFINE On(l) == {r \in E : lane[r] = l}
<1>1. ASSUME NEW l \in Lane
      PROVE  /\ IsFiniteSet(On(l)) /\ IsFiniteSet(SlotsOn(g, l))
             /\ Cardinality(On(l)) <= Cardinality(SlotsOn(g, l))
  <2>1. On(l) \in SUBSET Run
    OBVIOUS
  <2>2. IsFiniteSet(On(l))
    BY <2>1, RunFinite, FS_Subset
  <2>3. l \notin LanesOf(g) => On(l) = {}
    OBVIOUS
  <2> QED
    BY <2>2, <2>3, SlotsOnLane, FS_EmptySet
<1>2. \A k, l \in Lane : k # l => SlotsOn(g, k) \cap SlotsOn(g, l) = {}
  BY DEF SlotsOn
<1> DEFINE E2 == On("main") \cup On("subagent")
           E3 == E2 \cup On("cron")
           S2 == SlotsOn(g, "main") \cup SlotsOn(g, "subagent")
           S3 == S2 \cup SlotsOn(g, "cron")
<1>3. "main" \in Lane /\ "subagent" \in Lane /\ "cron" \in Lane /\ "session" \in Lane
  BY DEF Lane
<1>4. S2 \cap SlotsOn(g, "cron") = {} /\ S3 \cap SlotsOn(g, "session") = {}
  BY <1>2, <1>3
<1>5. IsFiniteSet(E2) /\ IsFiniteSet(S2) /\ Cardinality(E2) <= Cardinality(S2)
  BY <1>1, <1>2, <1>3, UnionAtMost
<1>6. IsFiniteSet(E3) /\ IsFiniteSet(S3) /\ Cardinality(E3) <= Cardinality(S3)
  BY <1>1, <1>3, <1>4, <1>5, UnionAtMost
<1>7. /\ IsFiniteSet(E3 \cup On("session")) /\ IsFiniteSet(S3 \cup SlotsOn(g, "session"))
      /\ Cardinality(E3 \cup On("session")) <= Cardinality(S3 \cup SlotsOn(g, "session"))
  BY <1>1, <1>3, <1>4, <1>6, UnionAtMost
<1>8. E3 \cup On("session") = E
  BY DEF Lane
<1>9. S3 \cup SlotsOn(g, "session") = SlotsOf(g)
  <2>1. LanesOf(g) \subseteq Lane
    BY GraphAssumption DEF LanesOf, ItemsOf, Lane
  <2>2. \A l \in Lane : SlotsOn(g, l) \subseteq SlotsOf(g)
    BY DEF SlotsOf, SlotsOn
  <2>3. ASSUME NEW x \in SlotsOf(g)
        PROVE  \E l \in Lane : x \in SlotsOn(g, l)
    <3>1. PICK l \in LanesOf(g) : x \in {l} \X (1..MaxConcurrency[l])
      BY DEF SlotsOf
    <3> QED
      BY <2>1, <3>1 DEF SlotsOn
  <2> HIDE DEF On
  <2> QED
    BY <1>3, <2>2, <2>3 DEF Lane
<1> QED
  BY <1>7, <1>8, <1>9

---------------------------------------------------------------------------
(* Steps *)

(* A started run holds the lane its item asks for, or the main one.        *)
LEMMA LanesKeptStep ==
  ASSUME TypeOK, LanesKept, [Next]_vars
  PROVE  LanesKept'
<1>a. ASSUME UNCHANGED runLane, \A r \in Run : phase'[r] # "idle" => phase[r] # "idle"
      PROVE  LanesKept'
  BY <1>a DEF LanesKept, InFlight
<1>1. CASE Quiet
  BY <1>1, <1>a DEF Quiet
<1>2. ASSUME NEW g \in Goal, CreateGoal(g) \/ CompleteGoal(g) \/ NothingToStart(g)
      PROVE  LanesKept'
  BY <1>2, <1>a DEF CreateGoal, CompleteGoal, NothingToStart, runVars
<1>3. ASSUME NEW g \in Goal, NEW i \in Item, StartWorkItem(g, i) PROVE LanesKept'
  <2> DEFINE run == <<i, runCount[i] + 1>>
  <2>1. run \in Run /\ GoalOf[i] = g
    BY <1>3, StartedRun
  <2>2. SelectLane(i) \in LanesOf(g)
    BY <2>1 DEF SelectLane, LanesOf, ItemsOf
  <2>3. /\ phase' = [phase EXCEPT ![run] = "executing"]
        /\ runLane' = [runLane EXCEPT ![run] = SelectLane(i)]
    BY <1>3 DEF StartWorkItem
  <2>4. ASSUME NEW r \in Run, phase'[r] # "idle"
        PROVE  runLane'[r] \in LanesOf(GoalOf[r[1]])
    <3>1. CASE r = run
      BY <2>1, <2>2, <2>3, <3>1 DEF TypeOK
    <3>2. CASE r # run
      BY <2>1, <2>3, <2>4, <3>2 DEF TypeOK, LanesKept, InFlight
    <3> QED
      BY <3>1, <3>2
  <2> QED
    BY <2>4 DEF LanesKept, InFlight
<1>4. ASSUME NEW r \in Run, Execution(r) PROVE LanesKept'
  BY <1>4, <1>a
  DEF Execution, ExecutionSucceeds, VerificationPasses, ExecutionFails, VerificationFails,
      HandleFailure, Release, Resumes, TypeOK
<1>5. CASE Crash
  BY <1>5 DEF Crash, LanesKept, InFlight
<1> QED
  BY <1>1, <1>2, <1>3, <1>4, <1>5, QuietSteps

(* What a step does to a goal's spending and to its executing runs.        *)
LEMMA SpendingStep ==
  ASSUME TypeOK, [Next]_vars, NEW g \in Goal
  PROVE  \/ spent'[g] = spent[g] /\ ExecutingOf(g)' \subseteq ExecutingOf(g)
         \/ \E i \in Item : StartWorkItem(g, i)
         \/ \E r \in ExecutingOf(g) : /\ ExecutingOf(g)' = ExecutingOf(g) \ {r}
                                      /\ spent'[g] <= spent[g] + MaxRunCost
<1>a. ASSUME UNCHANGED <<phase, spent>>
      PROVE  spent'[g] = spent[g] /\ ExecutingOf(g)' \subseteq ExecutingOf(g)
  BY <1>a DEF ExecutingOf
<1>1. CASE UNCHANGED vars
  BY <1>1, <1>a DEF vars, store, runVars
<1>2. ASSUME NEW h \in Goal, \/ CreateGoal(h) \/ RequestCancel(h) \/ DeliverSubmit(h)
                             \/ DeliverCancel(h)
      PROVE  UNCHANGED <<phase, spent>>
  BY <1>2 DEF CreateGoal, RequestCancel, DeliverSubmit, DeliverCancel, store, runVars
<1>3. ASSUME NEW h \in Goal, \/ HandleBudgetExceeded(h) \/ CompleteGoal(h)
                             \/ NothingToStart(h)
      PROVE  UNCHANGED <<phase, spent>>
  BY <1>3 DEF HandleBudgetExceeded, CompleteGoal, NothingToStart, Seeking, Processing, runVars
<1>4. ASSUME NEW h \in Goal, NEW i \in Item, StartWorkItem(h, i), h # g
      PROVE  spent'[g] = spent[g] /\ ExecutingOf(g)' \subseteq ExecutingOf(g)
  <2> DEFINE run == <<i, runCount[i] + 1>>
  <2>1. run \in Run /\ GoalOf[run[1]] = h
    BY <1>4, StartedRun
  <2>2. phase' = [phase EXCEPT ![run] = "executing"] /\ spent' = spent
    BY <1>4 DEF StartWorkItem, Seeking, Processing
  <2> QED
    BY <1>4, <2>1, <2>2 DEF ExecutingOf, TypeOK
<1>5. ASSUME NEW r \in Run, ExecutionSucceeds(r) \/ \E f \in BOOLEAN : ExecutionFails(r, f)
      PROVE  \/ spent'[g] = spent[g] /\ ExecutingOf(g)' \subseteq ExecutingOf(g)
             \/ \E s \in ExecutingOf(g) : /\ ExecutingOf(g)' = ExecutingOf(g) \ {s}
                                          /\ spent'[g] <= spent[g] + MaxRunCost
  <2>1. /\ phase[r] = "executing" /\ Spend(r)
        /\ \/ phase' = [phase EXCEPT ![r] = "verifying"]
           \/ phase' = [phase EXCEPT ![r] = "idle"]
    BY <1>5 DEF ExecutionSucceeds, ExecutionFails, HandleFailure, Release, Resumes
  <2>2. PICK cost \in 0..MaxRunCost : spent' = [spent EXCEPT ![GoalOf[r[1]]] = @ + cost]
    BY <2>1, CostInRange
  <2>3. CASE GoalOf[r[1]] = g
    <3>1. r \in ExecutingOf(g) /\ ExecutingOf(g)' = ExecutingOf(g) \ {r}
      BY <2>1, <2>3 DEF ExecutingOf, TypeOK
    <3>2. spent'[g] = spent[g] + cost /\ spent[g] \in Nat
      BY <2>2, <2>3 DEF TypeOK
    <3>3. spent'[g] <= spent[g] + MaxRunCost
      BY <3>2, LimitAssumption
    <3> QED
      BY <3>1, <3>3
  <2>4. CASE GoalOf[r[1]] # g
    <3>1. ExecutingOf(g)' \subseteq ExecutingOf(g)
      BY <2>1, <2>4 DEF ExecutingOf, TypeOK
    <3>2. spent'[g] = spent[g]
      BY <2>2, <2>4 DEF TypeOK
    <3> QED
      BY <3>1, <3>2
  <2> QED
    BY <2>3, <2>4
<1>6. ASSUME NEW r \in Run, VerificationPasses(r) \/ \E f \in BOOLEAN : VerificationFails(r, f)
      PROVE  spent'[g] = spent[g] /\ ExecutingOf(g)' \subseteq ExecutingOf(g)
  <2>1. spent' = spent /\ phase' = [phase EXCEPT ![r] = "idle"]
    BY <1>6 DEF VerificationPasses, VerificationFails, HandleFailure, Release
  <2> QED
    BY <2>1 DEF ExecutingOf, TypeOK
<1>7. CASE BeginTick \/ EndTick \/ Pause \/ Stop \/ Resume \/ Boot
  BY <1>7, <1>a DEF BeginTick, EndTick, Pause, Stop, Resume, Boot, store, runVars
<1>8. CASE Crash
  BY <1>8 DEF Crash, store, ExecutingOf
<1> QED
  BY <1>1, <1>2, <1>3, <1>4, <1>5, <1>6, <1>7, <1>8, <1>a DEF Next, ProcessGoal, Execution

(* In a state of the invariant a goal's executing runs fit its slots.      *)
LEMMA ExecutingFit ==
  ASSUME TypeOK', LaneAccounting', LanesKept', NEW g \in Goal
  PROVE  /\ IsFiniteSet(ExecutingOf(g)') /\ IsFiniteSet(SlotsOf(g))
         /\ Cardinality(ExecutingOf(g)') <= Cardinality(SlotsOf(g))
<1>1. ExecutingOf(g)' \in SUBSET Run /\ runLane' \in [Run -> Lane]
  BY DEF ExecutingOf, TypeOK
<1>2. \A r \in ExecutingOf(g)' : runLane'[r] \in LanesOf(g)
  BY DEF ExecutingOf, LanesKept, InFlight
<1>3. ASSUME NEW l \in Lane
      PROVE  Cardinality({r \in ExecutingOf(g)' : runLane'[r] = l}) <= MaxConcurrency[l]
  <2> DEFINE E == {r \in ExecutingOf(g)' : runLane'[r] = l}
  <2>1. E \in SUBSET (RunsIn(l)')
    BY DEF ExecutingOf, RunsIn, InFlight
  <2>2. /\ IsFiniteSet(E) /\ IsFiniteSet(RunsIn(l)')
        /\ Cardinality(E) <= Cardinality(RunsIn(l)')
    BY <2>1, RunsInFinite, FS_Subset
  <2>3. Cardinality(RunsIn(l)') <= MaxConcurrency[l]
    BY DEF LaneAccounting
  <2>4. /\ Cardinality(E) \in Nat /\ Cardinality(RunsIn(l)') \in Nat
        /\ MaxConcurrency[l] \in Nat
    BY <2>2, FS_CardinalityType, LimitAssumption
  <2>5. ASSUME NEW a \in Nat, NEW b \in Nat, NEW c \in Nat, a <= b, b <= c
        PROVE  a <= c
    BY <2>5
  <2>6. Cardinality(E) <= MaxConcurrency[l]
    <3> HIDE DEF E
    <3> QED
      BY <2>2, <2>3, <2>4, <2>5
  <2> QED
    BY <2>6
<1> QED
  BY <1>1, <1>2, <1>3, RunsFitSlots

(* The budget is read when a run starts: spending, executing runs and the  *)
(* slots of the goal's lanes keep their relation in every step.            *)
LEMMA OverspendStep ==
  ASSUME TypeOK, TypeOK', LaneAccounting', LanesKept', OverspendBounded, [Next]_vars
  PROVE  OverspendBounded'
<1> SUFFICES ASSUME NEW g \in Goal
             PROVE  spent'[g] + MaxRunCost * Cardinality(ExecutingOf(g)')
                      <= StartsWithin(g) + MaxRunCost * Cardinality(SlotsOf(g))
  BY DEF OverspendBounded, StartsWithin, SlotsOf, LanesOf, ItemsOf
<1> DEFINE k == Cardinality(ExecutingOf(g))
           l == Cardinality(ExecutingOf(g)')
           n == Cardinality(SlotsOf(g))
<1>1. IsFiniteSet(ExecutingOf(g)') /\ IsFiniteSet(SlotsOf(g)) /\ l <= n
  BY ExecutingFit
<1>2. IsFiniteSet(ExecutingOf(g))
  <2>1. ExecutingOf(g) \in SUBSET Run
    BY DEF ExecutingOf
  <2> QED
    BY <2>1, RunFinite, FS_Subset
<1>3. k \in Nat /\ l \in Nat /\ n \in Nat
  BY <1>1, <1>2, FS_CardinalityType
<1>4. /\ spent[g] \in Nat /\ spent'[g] \in Nat /\ MaxRunCost \in Nat
      /\ StartsWithin(g) \in Nat
  BY LimitAssumption DEF TypeOK, StartsWithin
<1>5. spent[g] + MaxRunCost * k <= StartsWithin(g) + MaxRunCost * n
  BY DEF OverspendBounded
<1>6. CASE spent'[g] = spent[g] /\ ExecutingOf(g)' \subseteq ExecutingOf(g)
  <2>1. l <= k
    BY <1>2, <1>6, FS_Subset
  <2> HIDE DEF k, l, n
  <2>2. MaxRunCost * l <= MaxRunCost * k
    BY <1>3, <1>4, <2>1, CostOfRuns
  <2>3. MaxRunCost * l \in Nat /\ MaxRunCost * k \in Nat /\ MaxRunCost * n \in Nat
    BY <1>3, <1>4
  <2> QED
    BY <1>4, <1>5, <1>6, <2>2, <2>3 DEF k, l, n
<1>7. ASSUME NEW i \in Item, StartWorkItem(g, i)
      PROVE  spent'[g] + MaxRunCost * l <= StartsWithin(g) + MaxRunCost * n
  <2>1. spent'[g] = spent[g] /\ ~Exceeded(g)
    BY <1>7 DEF StartWorkItem, Seeking, Processing
  <2>2. spent[g] <= StartsWithin(g)
    BY <1>4, <2>1, LimitAssumption DEF Exceeded, StartsWithin
  <2> HIDE DEF k, l, n
  <2>3. MaxRunCost * l <= MaxRunCost * n
    BY <1>1, <1>3, <1>4, CostOfRuns
  <2>4. MaxRunCost * l \in Nat /\ MaxRunCost * n \in Nat
    BY <1>3, <1>4
  <2> QED
    BY <1>4, <2>1, <2>2, <2>3, <2>4
<1>8. ASSUME NEW r \in ExecutingOf(g), ExecutingOf(g)' = ExecutingOf(g) \ {r},
             spent'[g] <= spent[g] + MaxRunCost
      PROVE  spent'[g] + MaxRunCost * l <= StartsWithin(g) + MaxRunCost * n
  <2>1. k = l + 1
    <3>1. l = k - 1
      BY <1>2, <1>8, FS_RemoveElement
    <3> QED
      BY <1>3, <3>1
  <2> HIDE DEF k, l, n
  <2>2. MaxRunCost * k = MaxRunCost * l + MaxRunCost
    BY <1>3, <1>4, <2>1, CostOfRuns
  <2>3. MaxRunCost * l \in Nat /\ MaxRunCost * n \in Nat
    BY <1>3, <1>4
  <2> QED
    BY <1>4, <1>5, <1>8, <2>2, <2>3
<1> QED
  BY <1>6, <1>7, <1>8, SpendingStep

(* A new goal has spent nothing.                                           *)
LEMMA OverspendInit == Init => LanesKept /\ OverspendBounded
<1> SUFFICES ASSUME Init PROVE LanesKept /\ OverspendBounded
  OBVIOUS
<1>1. LanesKept
  BY DEF Init, LanesKept, InFlight
<1>2. ASSUME NEW g \in Goal
      PROVE  spent[g] + MaxRunCost * Cardinality(ExecutingOf(g))
               <= StartsWithin(g) + MaxRunCost * Cardinality(SlotsOf(g))
  <2>1. spent[g] = 0 /\ ExecutingOf(g) = {}
    BY DEF Init, ExecutingOf
  <2>2. IsFiniteSet(SlotsOf(g))
    <3>1. {} \in SUBSET Run /\ runLane \in [Run -> Lane]
      BY DEF Init, Lane
    <3>2. \A l \in Lane : Cardinality({r \in {} : runLane[r] = l}) <= MaxConcurrency[l]
      <4>1. \A l \in Lane : {r \in {} : runLane[r] = l} = {}
        OBVIOUS
      <4> QED
        BY <4>1, FS_EmptySet, LimitAssumption
    <3> QED
      BY <3>1, <3>2, RunsFitSlots
  <2>3. Cardinality(SlotsOf(g)) \in Nat /\ Cardinality({}) = 0
    BY <2>2, FS_CardinalityType, FS_EmptySet
  <2>4. MaxRunCost * Cardinality(SlotsOf(g)) \in Nat /\ MaxRunCost * 0 = 0
    BY <2>3, LimitAssumption
  <2>5. StartsWithin(g) \in Nat
    BY LimitAssumption DEF StartsWithin
  <2> QED
    BY <2>1, <2>3, <2>4, <2>5
<1> QED
  BY <1>1, <1>2 DEF OverspendBounded

(* A goal passes its budget by less than the cost of as many runs as its   *)
(* lanes have slots, in every system, whatever a run costs at most,        *)
(* through cancellations and crashes: the budget is read at the start of a *)
(* run, updateGoalSpending called at its end.                              *)
THEOREM OverspendHolds == Spec => []OverspendBounded
<1>1. IInv /\ IInv' /\ LanesKept /\ OverspendBounded /\ [Next]_vars
        => LanesKept' /\ OverspendBounded'
  <2> SUFFICES ASSUME IInv, IInv', LanesKept, OverspendBounded, [Next]_vars
               PROVE  LanesKept' /\ OverspendBounded'
    OBVIOUS
  <2>1. TypeOK /\ TypeOK' /\ LaneAccounting'
    BY DEF IInv
  <2>2. LanesKept'
    BY <2>1, LanesKeptStep
  <2> QED
    BY <2>1, <2>2, OverspendStep
<1> QED
  BY <1>1, OverspendInit, Invariance, PTL DEF Spec
-----------------------------------------------------------------------------
(* The refinement of DagExecution, and the steps the scheduler never takes *)

(* What the abstract specification sees of a state.                        *)
StageMap == [i \in Item |-> StageOf(itemStatus[i])]
OutcomeMap == [g \in Goal |-> OutcomeOf(reported[g])]

(* A step after which every item is in the stage it was in, and no goal is *)
(* reported, is invisible.                                                 *)
LEMMA SameStages ==
  ASSUME UNCHANGED reported, \A i \in Item : StageOf(itemStatus'[i]) = StageOf(itemStatus[i])
  PROVE  UNCHANGED <<StageMap, OutcomeMap>>
BY DEF StageMap, OutcomeMap

(* Promotion moves an item between two statuses of the same stage.         *)
LEMMA PromotedStages ==
  ASSUME TypeOK, NEW g \in Goal, NEW i \in Item
  PROVE  StageOf(Promoted(g)[i]) = StageOf(itemStatus[i])
BY DEF Promoted, StageOf

(* Starting a work item begins it.                                         *)
LEMMA StartBegins ==
  ASSUME IInv, NEW g \in Goal, NEW i \in Item, StartWorkItem(g, i)
  PROVE  Dag!Begin(i)
<1>1. /\ Promoted(g)[i] = "ready" /\ GoalOf[i] = g
      /\ itemStatus' = [Promoted(g) EXCEPT ![i] = "in_progress"]
      /\ UNCHANGED reported
  BY StartedRun DEF StartWorkItem, Seeking, IInv, NextItems, ReadyItems, ItemsOf
<1>2. /\ itemStatus[i] \in {"queued", "ready"}
      /\ Satisfied(itemStatus, i)
  BY <1>1 DEF Promoted, IInv, DependencySafety
<1>3. "completed" \notin reported[g]
  BY <1>1, <1>2 DEF IInv, CompletedGoalsAreDone, AllComplete, ItemsOf
<1>4. OutcomeOf(reported[GoalOf[i]]) # "completed"
  BY <1>1, <1>3 DEF OutcomeOf
<1>5. StageOf(itemStatus[i]) = "waiting" /\ StageOf(itemStatus'[i]) = "running"
  BY <1>1, <1>2, PromotedType DEF StageOf, IInv
<1>6. ASSUME NEW j \in Item, j # i PROVE StageOf(itemStatus'[j]) = StageOf(itemStatus[j])
  BY <1>1, <1>6, PromotedType, PromotedStages DEF IInv
<1>7. \A d \in Deps[i] : d \in Item /\ StageOf(itemStatus[d]) = "done"
  BY <1>2, GraphAssumption DEF Satisfied, StageOf
<1>8. StageMap' = [StageMap EXCEPT ![i] = "running"]
  BY <1>5, <1>6 DEF StageMap
<1>9. GoalOf[i] \in Goal
  BY GraphAssumption
<1> QED
  BY <1>1, <1>4, <1>5, <1>7, <1>8, <1>9 DEF Dag!Begin, StageMap

(* A run that passes its gates finishes its item, whatever it releases.    *)
LEMMA PassingFinishes ==
  ASSUME IInv, NEW r \in Run, VerificationPasses(r)
  PROVE  Dag!Finish(r[1])
<1>1. r[1] \in Item /\ itemStatus[r[1]] = "verify"
  BY DEF Run, VerificationPasses, Resumes, IInv, RunsMatchItems
<1>2. itemStatus' = Done(r[1]) /\ UNCHANGED reported
  BY DEF VerificationPasses
<1>3. itemStatus'[r[1]] = "done"
  BY <1>1, <1>2 DEF Done, IInv, TypeOK
<1>4. ASSUME NEW j \in Item, j # r[1] PROVE StageOf(itemStatus'[j]) = StageOf(itemStatus[j])
  <2>1. \/ itemStatus'[j] = itemStatus[j]
        \/ itemStatus[j] = "queued" /\ itemStatus'[j] = "ready"
    BY <1>1, <1>2, <1>4 DEF Done, IInv, TypeOK
  <2> QED
    BY <2>1 DEF StageOf
<1>5. StageOf(itemStatus[r[1]]) = "running" /\ StageOf(itemStatus'[r[1]]) = "done"
  BY <1>1, <1>3 DEF StageOf
<1>6. StageMap' = [StageMap EXCEPT ![r[1]] = "done"]
  BY <1>1, <1>4, <1>5 DEF StageMap
<1> QED
  BY <1>1, <1>2, <1>5, <1>6 DEF Dag!Finish, StageMap

(* A run that fails sends its item back, fails it with its goal, or, when  *)
(* both attempts to record the failure are rejected, shows nothing.        *)
LEMMA FailureRetriesOrFails ==
  ASSUME IInv, NEW r \in Run, NEW recoverable \in BOOLEAN,
         ExecutionFails(r, recoverable) \/ VerificationFails(r, recoverable)
  PROVE  \/ Dag!Retry(r[1]) \/ Dag!Fail(r[1])
         \/ UNCHANGED <<StageMap, OutcomeMap>>
<1>1. /\ r[1] \in Item /\ GoalOf[r[1]] \in Goal
      /\ itemStatus[r[1]] \in {"in_progress", "verify"}
      /\ HandleFailure(r, recoverable)
  BY GraphAssumption
  DEF Run, ExecutionFails, VerificationFails, Resumes, IInv, RunsMatchItems
<1>2. PICK to \in AfterFailure(r[1], recoverable) :
        /\ itemStatus' = [itemStatus EXCEPT ![r[1]] = to]
        /\ IF to = "failed" THEN FailGoal(GoalOf[r[1]])
                            ELSE UNCHANGED <<goalState, goalRow, reported>>
  BY <1>1 DEF HandleFailure
<1>3. to = itemStatus[r[1]] \/ to = "failed" \/ to = "queued"
  BY <1>1, FailureMove DEF IInv
<1>4. StageOf(itemStatus[r[1]]) = "running"
  BY <1>1 DEF StageOf
<1>5. StageMap' = [StageMap EXCEPT ![r[1]] = StageOf(to)]
  BY <1>1, <1>2 DEF StageMap, IInv, TypeOK
<1>6. CASE to = itemStatus[r[1]]
  <2>1. UNCHANGED reported /\ StageOf(to) = StageOf(itemStatus[r[1]])
    BY <1>1, <1>2, <1>6
  <2>2. \A i \in Item : StageOf(itemStatus'[i]) = StageOf(itemStatus[i])
    BY <1>1, <1>2, <1>6 DEF IInv, TypeOK
  <2> QED
    BY <2>1, <2>2, SameStages
<1>7. CASE to = "queued"
  <2>1. UNCHANGED reported /\ StageOf(to) = "waiting"
    BY <1>2, <1>7 DEF StageOf
  <2> QED
    BY <1>1, <1>4, <1>5, <2>1 DEF Dag!Retry, StageMap
<1>8. CASE to = "failed"
  <2>1. reported' = [reported EXCEPT ![GoalOf[r[1]]] = @ \cup {"failed"}]
    BY <1>2, <1>8 DEF FailGoal
  <2>2. "completed" \notin reported[GoalOf[r[1]]]
    BY <1>1 DEF IInv, CompletedGoalsAreDone, AllComplete, ItemsOf
  <2>3. /\ OutcomeOf(reported[GoalOf[r[1]]]) # "completed"
        /\ OutcomeOf(reported'[GoalOf[r[1]]]) = "failed"
    BY <1>1, <2>1, <2>2 DEF OutcomeOf, IInv, TypeOK
  <2>4. OutcomeMap' = [OutcomeMap EXCEPT ![GoalOf[r[1]]] = "failed"]
    BY <1>1, <2>1, <2>3 DEF OutcomeMap, IInv, TypeOK
  <2>5. StageOf(to) = "failed"
    BY <1>8 DEF StageOf
  <2> QED
    BY <1>1, <1>4, <1>5, <2>3, <2>4, <2>5 DEF Dag!Fail, StageMap, OutcomeMap
<1> QED
  BY <1>3, <1>6, <1>7, <1>8

(* Completing a goal completes it once; repeating the report is invisible. *)
LEMMA CompletionCompletes ==
  ASSUME IInv, NEW g \in Goal, CompleteGoal(g)
  PROVE  Dag!Complete(g) \/ UNCHANGED <<StageMap, OutcomeMap>>
<1>1. /\ AllComplete(g) /\ UNCHANGED itemStatus
      /\ reported' = [reported EXCEPT ![g] = @ \cup {"completed"}]
  BY DEF CompleteGoal
<1>2. UNCHANGED StageMap
  BY <1>1 DEF StageMap
<1>3. "failed" \notin reported[g]
  BY <1>1 DEF IInv, FailedGoals, AllComplete, ItemsOf
<1>4. CASE "completed" \in reported[g]
  <2>1. reported' = reported
    BY <1>1, <1>4 DEF IInv, TypeOK
  <2> QED
    BY <1>2, <2>1 DEF OutcomeMap
<1>5. CASE "completed" \notin reported[g]
  <2>1. OutcomeOf(reported[g]) = "open" /\ OutcomeOf(reported'[g]) = "completed"
    BY <1>1, <1>3, <1>5 DEF OutcomeOf, IInv, TypeOK
  <2>2. OutcomeMap' = [OutcomeMap EXCEPT ![g] = "completed"]
    BY <1>1, <2>1 DEF OutcomeMap, IInv, TypeOK
  <2>3. \A i \in Item : GoalOf[i] = g => StageOf(itemStatus[i]) = "done"
    BY <1>1 DEF AllComplete, ItemsOf, StageOf
  <2> QED
    BY <1>2, <2>1, <2>2, <2>3 DEF Dag!Complete, StageMap, OutcomeMap
<1> QED
  BY <1>4, <1>5

(* Every step of the scheduler is a step of the abstract specification, or *)
(* changes nothing it sees.                                                *)
LEMMA StepRefines ==
  ASSUME IInv, [Next]_vars
  PROVE  [Dag!Advance]_(Dag!dagVars)
<1> DEFINE Unseen == UNCHANGED <<StageMap, OutcomeMap>>
<1> SUFFICES Dag!Advance \/ Unseen
  BY DEF Dag!dagVars, StageMap, OutcomeMap
<1>1. CASE Quiet
  BY <1>1, SameStages DEF Quiet
<1>2. ASSUME NEW g \in Goal, CreateGoal(g) PROVE Unseen
  <2>1. \A i \in Item : \/ itemStatus'[i] = itemStatus[i]
                        \/ itemStatus[i] = "queued" /\ itemStatus'[i] = "ready"
    BY <1>2 DEF CreateGoal, IInv, TypeOK, FreshGoals, ItemsOf
  <2> QED
    BY <1>2, <2>1, SameStages DEF CreateGoal, StageOf
<1>3. ASSUME NEW g \in Goal, NothingToStart(g) PROVE Unseen
  BY <1>3, SameStages, PromotedStages DEF NothingToStart, Seeking, IInv
<1>4. ASSUME NEW g \in Goal, CompleteGoal(g) PROVE Dag!Advance \/ Unseen
  BY <1>4, CompletionCompletes DEF Dag!Advance
<1>5. ASSUME NEW g \in Goal, NEW i \in Item, StartWorkItem(g, i) PROVE Dag!Advance
  BY <1>5, StartBegins DEF Dag!Advance
<1>6. ASSUME NEW r \in Run, Execution(r) PROVE Dag!Advance \/ Unseen
  <2>1. r[1] \in Item
    BY DEF Run
  <2>2. CASE ExecutionSucceeds(r)
    <3>1. /\ itemStatus[r[1]] = "in_progress"
          /\ itemStatus' = [itemStatus EXCEPT ![r[1]] = "verify"]
          /\ UNCHANGED reported
      BY <2>2 DEF ExecutionSucceeds, Resumes, IInv, RunsMatchItems
    <3>2. \A i \in Item : StageOf(itemStatus'[i]) = StageOf(itemStatus[i])
      BY <2>1, <3>1 DEF StageOf, IInv, TypeOK
    <3> QED
      BY <3>1, <3>2, SameStages
  <2>3. CASE VerificationPasses(r)
    BY <2>1, <2>3, PassingFinishes DEF Dag!Advance
  <2>4. ASSUME NEW recoverable \in BOOLEAN,
               ExecutionFails(r, recoverable) \/ VerificationFails(r, recoverable)
        PROVE  Dag!Advance \/ Unseen
    BY <2>1, <2>4, FailureRetriesOrFails DEF Dag!Advance
  <2> QED
    BY <1>6, <2>2, <2>3, <2>4 DEF Execution
<1>7. CASE Crash
  BY <1>7, SameStages DEF Crash, store
<1> QED
  BY <1>1, <1>2, <1>3, <1>4, <1>5, <1>6, <1>7, QuietSteps DEF IInv

(* The scheduler, with its lanes, budgets, retries, cancellations, stops   *)
(* and crashes, implements the execution of a dependency graph.            *)
THEOREM Refinement == Spec => ImplementsDag
<1>1. Init => Dag!Start
  BY DEF Init, Dag!Start, StageOf, OutcomeOf
<1>2. IInv /\ [Next]_vars => [Dag!Advance]_(Dag!dagVars)
  BY StepRefines
<1> QED
  BY <1>1, <1>2, Invariance, PTL DEF Spec, ImplementsDag, Dag!DagSpec

---------------------------------------------------------------------------
(* A cancelled goal has left the list the ticks walk, and a tick walks     *)
(* only goals that are still in that list.                                 *)
TickInv ==
  /\ ~ticking => tickTodo = {}
  /\ tickTodo \subseteq activeGoals
  /\ \A g \in Goal : goalState[g] = "cancelled" => g \notin activeGoals

(* Every step keeps that so.                                               *)
LEMMA TickStep ==
  ASSUME TypeOK, TickInv, [Next]_vars
  PROVE  TickInv'
<1>1. ASSUME NEW g \in Goal, CreateGoal(g) \/ RequestCancel(g) PROVE TickInv'
  BY <1>1 DEF CreateGoal, RequestCancel, TickInv, tickVars
<1>2. ASSUME NEW g \in Goal, DeliverSubmit(g) PROVE TickInv'
  BY <1>2 DEF DeliverSubmit, Submitted, TickInv, tickVars
<1>3. ASSUME NEW g \in Goal, DeliverCancel(g) PROVE TickInv'
  BY <1>3 DEF DeliverCancel, Cancelled, TickInv, tickVars, TypeOK
<1>4. BeginTick \/ EndTick => TickInv'
  BY DEF BeginTick, EndTick, TickInv
<1>5. ASSUME NEW g \in Goal, ProcessGoal(g) PROVE TickInv'
  <2>1. Processing(g)
    BY <1>5 DEF ProcessGoal, HandleBudgetExceeded, CompleteGoal, NothingToStart,
                StartWorkItem, Seeking
  <2>2. ticking' /\ tickTodo' \subseteq tickTodo /\ UNCHANGED activeGoals
    BY <2>1 DEF Processing
  <2>3. \/ UNCHANGED goalState
        \/ \E s \in {"paused", "completed", "running"} : goalState' = [goalState EXCEPT ![g] = s]
    BY <1>5 DEF ProcessGoal, HandleBudgetExceeded, CompleteGoal, NothingToStart, StartWorkItem
  <2>4. \A h \in Goal : goalState'[h] = "cancelled" => goalState[h] = "cancelled"
    BY <2>3 DEF TypeOK
  <2> QED
    BY <2>2, <2>4 DEF TickInv
<1>6. ASSUME NEW r \in Run, Execution(r) PROVE TickInv'
  <2>1. /\ UNCHANGED <<ticking, tickTodo, activeGoals>>
        /\ \A h \in Goal : goalState'[h] = "cancelled" => goalState[h] = "cancelled"
    BY <1>6 DEF Execution, ExecutionSucceeds, ExecutionFails, VerificationPasses,
                VerificationFails, HandleFailure, FailGoal, Resumes, tickVars, TypeOK
  <2> QED
    BY <2>1 DEF TickInv
<1>7. Pause \/ Stop \/ Resume \/ Crash \/ Boot \/ UNCHANGED vars => TickInv'
  BY DEF Pause, Stop, Resume, Crash, Boot, Submitted, TickInv, tickVars, vars
<1> QED
  BY <1>1, <1>2, <1>3, <1>4, <1>5, <1>6, <1>7 DEF Next

(* A step that brings a run to life started it, in a tick of its goal.     *)
LEMMA RunsStartInTicks ==
  ASSUME TypeOK, [Next]_vars, NEW r \in Run, phase[r] = "idle", phase'[r] # "idle"
  PROVE  GoalOf[r[1]] \in tickTodo
<1>1. \/ \E g \in Goal : CreateGoal(g) \/ CompleteGoal(g) \/ NothingToStart(g)
      \/ \E g \in Goal, i \in Item : StartWorkItem(g, i)
      \/ \E s \in Run : Execution(s)
      \/ Crash
  BY QuietSteps DEF Quiet
<1>2. ~(\E g \in Goal : CreateGoal(g) \/ CompleteGoal(g) \/ NothingToStart(g)) /\ ~Crash
  BY DEF CreateGoal, CompleteGoal, NothingToStart, Crash, runVars
<1>3. ASSUME NEW s \in Run, Execution(s) PROVE FALSE
  BY <1>3 DEF Execution, ExecutionSucceeds, ExecutionFails, VerificationPasses,
              VerificationFails, HandleFailure, Release, Resumes, TypeOK
<1>4. PICK g \in Goal, i \in Item : StartWorkItem(g, i)
  BY <1>1, <1>2, <1>3
<1>5. r = <<i, runCount[i] + 1>> /\ GoalOf[i] = g /\ g \in tickTodo
  BY <1>4, StartedRun DEF StartWorkItem, Seeking, Processing, TypeOK, NextItems,
                          ReadyItems, ItemsOf
<1> QED
  BY <1>5

(* No tick starts work for a goal that was cancelled, or that ended and was *)
(* dropped.                                                                *)
THEOREM EndedGoalsRest == Spec => NoWorkAfterEnd
<1> DEFINE NoStart == \A r \in Run :
             LET g == GoalOf[r[1]]
             IN  /\ \/ goalState[g] = "cancelled"
                    \/ goalState[g] \in Terminal /\ g \notin activeGoals
                 /\ ~InFlight(r)
                 => phase'[r] = "idle"
<1>1. Init => TickInv
  BY DEF Init, TickInv
<1>2. TypeOK /\ TickInv /\ [Next]_vars => TickInv'
  BY TickStep
<1>3. TypeOK /\ TickInv /\ [Next]_vars => NoStart
  BY RunsStartInTicks, GraphAssumption DEF TickInv, InFlight, Run
<1> QED
  BY <1>1, <1>2, <1>3, TypeCorrect, PTL DEF Spec, NoWorkAfterEnd

---------------------------------------------------------------------------
(* Goals that are not finished *)

(* What has been announced of a goal stays announced, also over a crash.   *)
LEMMA ReportsGrow ==
  ASSUME TypeOK, [Next]_vars, NEW g \in Goal
  PROVE  reported[g] \subseteq reported'[g]
<1>1. CASE Quiet
  BY <1>1 DEF Quiet
<1>2. ASSUME NEW h \in Goal,
             CreateGoal(h) \/ NothingToStart(h) \/ \E i \in Item : StartWorkItem(h, i)
      PROVE  reported' = reported
  BY <1>2 DEF CreateGoal, NothingToStart, StartWorkItem, Seeking
<1>3. ASSUME NEW h \in Goal, CompleteGoal(h) PROVE reported[g] \subseteq reported'[g]
  BY <1>3 DEF CompleteGoal, TypeOK
<1>4. ASSUME NEW r \in Run, ExecutionSucceeds(r) \/ VerificationPasses(r)
      PROVE  reported' = reported
  BY <1>4 DEF ExecutionSucceeds, VerificationPasses
<1>5. ASSUME NEW r \in Run, NEW recoverable \in BOOLEAN,
             ExecutionFails(r, recoverable) \/ VerificationFails(r, recoverable)
      PROVE  reported[g] \subseteq reported'[g]
  <2>1. FailGoal(GoalOf[r[1]]) \/ reported' = reported
    BY <1>5 DEF ExecutionFails, VerificationFails, HandleFailure
  <2> QED
    BY <2>1 DEF FailGoal, TypeOK
<1>6. CASE Crash
  BY <1>6 DEF Crash
<1> QED
  BY <1>1, <1>2, <1>3, <1>4, <1>5, <1>6, QuietSteps DEF Execution

(* Crashes are only counted up.                                            *)
LEMMA CrashesCounted ==
  ASSUME TypeOK, [Next]_vars, crashes > 0
  PROVE  crashes' > 0
<1>1. crashes' = crashes \/ crashes' = crashes + 1
  BY DEF Next, CreateGoal, RequestCancel, DeliverSubmit, DeliverCancel, ProcessGoal,
         HandleBudgetExceeded, CompleteGoal, NothingToStart, StartWorkItem, Seeking,
         Processing, BeginTick, EndTick, Execution, ExecutionSucceeds, ExecutionFails,
         VerificationPasses, VerificationFails, Resumes, Pause, Stop, Resume, Crash,
         Boot, vars
<1> QED
  BY <1>1 DEF TypeOK

(* Where a failed run leaves its item: out of progress, or, if its gates   *)
(* failed, perhaps in verify.                                              *)
LEMMA FailureLeaves ==
  ASSUME TypeOK, NEW i \in Item, NEW recoverable \in BOOLEAN,
         NEW to \in AfterFailure(i, recoverable)
  PROVE  /\ itemStatus[i] = "in_progress" => to \in {"queued", "failed"}
         /\ itemStatus[i] = "verify" => to \in {"failed", "verify"}
<1>1. FailureTarget(recoverable) \in {"queued", "failed"}
  BY DEF FailureTarget
<1>2. CASE itemStatus[i] = "in_progress"
  <2>1. CanMove(i, FailureTarget(recoverable))
    BY <1>1, <1>2 DEF CanMove, ValidTransitions
  <2> QED
    BY <1>1, <1>2, <2>1 DEF AfterFailure
<1>3. CASE itemStatus[i] = "verify"
  <2>1. CanMove(i, "failed") /\ ~CanMove(i, "queued")
    BY <1>3 DEF CanMove, ValidTransitions
  <2> QED
    BY <1>1, <1>3, <2>1 DEF AfterFailure, FailureTarget
<1> QED
  BY <1>2, <1>3

(* Whoever takes an item into progress or verify stays with it until it    *)
(* has left.                                                               *)
LEMMA HandStep ==
  ASSUME IInv, ItemsInHand, [Next]_vars
  PROVE  ItemsInHand'
<1>0. TypeOK /\ RunsMatchItems /\ FreshGoals
  BY DEF IInv
<1> SUFFICES ASSUME NEW i \in Item
             PROVE  /\ itemStatus'[i] # "blocked"
                    /\ itemStatus'[i] = "failed" => "failed" \in reported'[GoalOf[i]]
                    /\ itemStatus'[i] \in {"in_progress", "verify"}
                         => Underway(i)' \/ LeftBehind(i)'
  BY DEF ItemsInHand
<1> DEFINE Working == itemStatus'[i] \in {"in_progress", "verify"}
           Fine == /\ itemStatus'[i] = "failed" => "failed" \in reported'[GoalOf[i]]
                   /\ Working => Underway(i)' \/ LeftBehind(i)'
<1>1. itemStatus'[i] # "blocked"
  BY <1>0, StepMoves DEF Moves, ItemsInHand
<1>2. "failed" \in reported[GoalOf[i]] => "failed" \in reported'[GoalOf[i]]
  BY <1>0, ReportsGrow, GraphAssumption
<1>3. crashes > 0 => crashes' > 0
  BY <1>0, CrashesCounted
<1>4. ASSUME itemStatus'[i] = "failed" \/ Working => itemStatus'[i] = itemStatus[i],
             \A r \in Run : r[1] = i /\ phase[r] # "idle" => phase'[r] # "idle"
      PROVE  Fine
  <2>1. itemStatus'[i] = "failed" => "failed" \in reported'[GoalOf[i]]
    BY <1>2, <1>4 DEF ItemsInHand
  <2>2. Working => Underway(i) \/ LeftBehind(i)
    BY <1>4 DEF ItemsInHand
  <2>3. Underway(i) => Underway(i)'
    BY <1>4 DEF Underway, InFlight
  <2>4. Working /\ LeftBehind(i) => LeftBehind(i)'
    BY <1>3, <1>4 DEF LeftBehind
  <2> QED
    BY <2>1, <2>2, <2>3, <2>4
<1>5. ASSUME Quiet PROVE Fine
  BY <1>4, <1>5 DEF Quiet
<1>6. ASSUME NEW g \in Goal, CreateGoal(g) PROVE Fine
  BY <1>4, <1>6 DEF CreateGoal, runVars
<1>7. ASSUME NEW g \in Goal, CompleteGoal(g) PROVE Fine
  BY <1>4, <1>7 DEF CompleteGoal, runVars
<1>8. ASSUME NEW g \in Goal, NothingToStart(g) PROVE Fine
  BY <1>4, <1>8 DEF NothingToStart, Promoted, runVars
<1>9. ASSUME NEW g \in Goal, NEW j \in Item, StartWorkItem(g, j) PROVE Fine
  <2> DEFINE run == <<j, runCount[j] + 1>>
  <2>1. /\ run \in Run /\ run[1] = j /\ phase' = [phase EXCEPT ![run] = "executing"]
        /\ itemStatus' = [Promoted(g) EXCEPT ![j] = "in_progress"]
    BY <1>0, <1>9, StartedRun DEF StartWorkItem
  <2> HIDE DEF run
  <2>2. phase'[run] # "idle" /\ \A r \in Run : r # run => phase'[r] = phase[r]
    BY <1>0, <2>1 DEF TypeOK
  <2>3. CASE i = j
    <3>1. Underway(i)'
      BY <2>1, <2>2, <2>3 DEF Underway, InFlight
    <3>2. itemStatus'[i] = "in_progress"
      BY <2>1, <2>3 DEF Promoted
    <3> QED
      BY <3>1, <3>2
  <2>4. CASE i # j
    <3>1. itemStatus'[i] = Promoted(g)[i]
      BY <2>1, <2>4 DEF Promoted
    <3>2. itemStatus'[i] = "failed" \/ Working => itemStatus'[i] = itemStatus[i]
      BY <3>1 DEF Promoted
    <3> QED
      BY <1>4, <2>1, <2>2, <2>4, <3>2
  <2> QED
    BY <2>3, <2>4
<1>10. ASSUME NEW r \in Run, Execution(r) PROVE Fine
  <2>1. r[1] \in Item /\ GoalOf[r[1]] \in Goal
    BY GraphAssumption DEF Run
  <2>2. CASE ExecutionSucceeds(r)
    <3>1. /\ itemStatus' = [itemStatus EXCEPT ![r[1]] = "verify"]
          /\ phase' = [phase EXCEPT ![r] = "verifying"]
      BY <2>2 DEF ExecutionSucceeds
    <3>2. \A s \in Run : phase[s] # "idle" => phase'[s] # "idle"
      BY <1>0, <3>1 DEF TypeOK
    <3>3. CASE i = r[1]
      <4>1. Underway(i)' /\ itemStatus'[i] = "verify"
        BY <1>0, <2>1, <3>1, <3>3 DEF Underway, InFlight, TypeOK
      <4> QED
        BY <4>1
    <3>4. CASE i # r[1]
      <4>1. itemStatus'[i] = itemStatus[i]
        BY <1>0, <3>1, <3>4 DEF TypeOK
      <4> QED
        BY <1>4, <3>2, <4>1
    <3> QED
      BY <3>3, <3>4
  <2>3. ASSUME phase' = [phase EXCEPT ![r] = "idle"], i # r[1],
               itemStatus'[i] = "failed" \/ Working => itemStatus'[i] = itemStatus[i]
        PROVE  Fine
    <3>1. \A s \in Run : s[1] = i => phase'[s] = phase[s]
      BY <1>0, <2>3 DEF TypeOK
    <3> QED
      BY <1>4, <2>3, <3>1
  <2>4. CASE VerificationPasses(r)
    <3>1. itemStatus' = Done(r[1]) /\ phase' = [phase EXCEPT ![r] = "idle"]
      BY <2>4 DEF VerificationPasses, Release
    <3>2. CASE i = r[1]
      <4>1. itemStatus'[i] = "done"
        BY <1>0, <3>1, <3>2 DEF Done, TypeOK
      <4> QED
        BY <4>1
    <3>3. CASE i # r[1]
      <4>1. itemStatus'[i] = "ready" \/ itemStatus'[i] = itemStatus[i]
        BY <1>0, <2>1, <3>1, <3>3 DEF Done, TypeOK
      <4> QED
        BY <2>3, <3>1, <3>3, <4>1
    <3> QED
      BY <3>2, <3>3
  <2>5. ASSUME NEW recoverable \in BOOLEAN,
               ExecutionFails(r, recoverable) \/ VerificationFails(r, recoverable)
        PROVE  Fine
    <3>1. /\ itemStatus[r[1]] \in {"in_progress", "verify"}
          /\ itemStatus[r[1]] = "verify" => r[1] \in GatesMayFail
          /\ HandleFailure(r, recoverable)
      BY <1>0, <2>5 DEF ExecutionFails, VerificationFails, Resumes, RunsMatchItems
    <3>2. PICK to \in AfterFailure(r[1], recoverable) :
            /\ itemStatus' = [itemStatus EXCEPT ![r[1]] = to]
            /\ to = "failed" => FailGoal(GoalOf[r[1]])
            /\ phase' = [phase EXCEPT ![r] = "idle"]
      BY <3>1 DEF HandleFailure, Release
    <3>3. CASE i = r[1]
      <4>1. itemStatus'[i] = to
        BY <1>0, <3>2, <3>3 DEF TypeOK
      <4>2. \/ to = "queued"
            \/ to = "failed"
            \/ to = "verify" /\ i \in GatesMayFail
        BY <1>0, <3>1, <3>3, FailureLeaves
      <4>3. to = "failed" => "failed" \in reported'[GoalOf[i]]
        BY <1>0, <2>1, <3>2, <3>3 DEF FailGoal, TypeOK
      <4> QED
        BY <4>1, <4>2, <4>3 DEF LeftBehind
    <3>4. CASE i # r[1]
      <4>1. itemStatus'[i] = itemStatus[i]
        BY <1>0, <3>2, <3>4 DEF TypeOK
      <4> QED
        BY <2>3, <3>2, <3>4, <4>1
    <3> QED
      BY <3>3, <3>4
  <2> QED
    BY <1>10, <2>2, <2>4, <2>5 DEF Execution
<1>11. ASSUME Crash PROVE Fine
  <2>1. crashes' > 0 /\ itemStatus' = itemStatus
    BY <1>0, <1>11 DEF Crash, store, TypeOK
  <2> QED
    BY <1>2, <2>1 DEF LeftBehind, ItemsInHand
<1>12. Fine
  BY <1>0, <1>5, <1>6, <1>7, <1>8, <1>9, <1>10, <1>11, QuietSteps
<1> QED
  BY <1>1, <1>12

(* When no run is under way every lane has room.                           *)
LEMMA IdleLanesHaveRoom ==
  ASSUME LaneAccounting, \A r \in Run : ~InFlight(r), NEW l \in Lane
  PROVE  HasCapacity(l)
<1>1. RunsIn(l) = {}
  BY DEF RunsIn
<1>2. laneActive[l] = 0
  BY <1>1, FS_EmptySet DEF LaneAccounting
<1> QED
  BY <1>2, LimitAssumption DEF HasCapacity

(* A goal that has ready items has one that comes first.                   *)
LEMMA SomeComesFirst ==
  ASSUME NEW g \in Goal, ReadyItems(g) # {}
  PROVE  NextItems(g) # {}
<1> DEFINE R == OpToRel(<, Nat)
           V == {Rank[i] : i \in ReadyItems(g)}
<1>1. V \subseteq Nat /\ V # {}
  BY GraphAssumption DEF ReadyItems, ItemsOf
<1>2. \A x, y \in Nat : x < y => <<x, y>> \in R
  BY DEF OpToRel
<1>3. IsWellFoundedOn(R, Nat)
  BY NatLessThanWellFounded
<1> HIDE DEF R, V
<1>4. PICK v \in V : \A w \in V : ~(<<w, v>> \in R)
  <2>1. \E v \in V : \A w \in V : ~(<<w, v>> \in R)
    BY <1>1, <1>3, WFMin, Zenon
  <2> QED
    BY <2>1
<1>5. ASSUME NEW w \in V PROVE v <= w
  <2>1. v \in Nat /\ w \in Nat
    BY <1>1
  <2>2. ~(w < v)
    BY <1>2, <1>4, <2>1, Zenon
  <2> QED
    BY <2>1, <2>2
<1>6. PICK i \in ReadyItems(g) : v = Rank[i]
  BY <1>4 DEF V
<1>7. \A j \in ReadyItems(g) : Rank[j] \in V
  BY DEF V
<1> QED
  BY <1>5, <1>6, <1>7 DEF NextItems

(* What the daemon has been told of a queued goal. Commands and memory end *)
(* with the daemon; a goal it is about to be told of is not known to it.   *)
GoalsKnown ==
  /\ schedStatus = "down" => commands = {} /\ activeGoals = {} /\ currentItem = {}
  /\ \A g \in Goal : <<"submit_goal", g>> \in commands => g \notin activeGoals \cup currentItem
  /\ \A g \in currentItem : goalRow[g] # "none"
  /\ \A g \in Goal : goalRow[g] = "queued" =>
       /\ "failed" \notin reported[g]
       /\ schedStatus # "down" => \/ <<"submit_goal", g>> \in commands
                                  \/ g \in activeGoals /\ goalState[g] \notin Terminal

(* What a step that adds no queued goal and takes none out of the daemon's *)
(* hands may do.                                                           *)
LEMMA KnownAsBefore ==
  ASSUME GoalsKnown,
         schedStatus' = "down" <=> schedStatus = "down",
         UNCHANGED <<commands, activeGoals, currentItem>>,
         \A g \in Goal : /\ goalRow'[g] \in {"none", "queued"} => goalRow'[g] = goalRow[g]
                         /\ goalRow'[g] = "queued" => /\ reported'[g] = reported[g]
                                                      /\ \/ goalState'[g] = goalState[g]
                                                         \/ goalState'[g] \notin Terminal,
         currentItem \subseteq Goal
  PROVE  GoalsKnown'
<1>1. \A g \in currentItem : goalRow'[g] # "none"
  BY DEF GoalsKnown
<1>2. ASSUME NEW g \in Goal, goalRow'[g] = "queued"
      PROVE  /\ "failed" \notin reported'[g]
             /\ schedStatus' # "down" => \/ <<"submit_goal", g>> \in commands'
                                         \/ g \in activeGoals' /\ goalState'[g] \notin Terminal
  <2>1. /\ goalRow[g] = "queued" /\ reported'[g] = reported[g]
        /\ goalState'[g] \in Terminal => goalState'[g] = goalState[g]
    BY <1>2
  <2>2. /\ "failed" \notin reported[g]
        /\ schedStatus # "down" => \/ <<"submit_goal", g>> \in commands
                                   \/ g \in activeGoals /\ goalState[g] \notin Terminal
    BY <2>1 DEF GoalsKnown
  <2> QED
    BY <2>1, <2>2
<1> QED
  BY <1>1, <1>2 DEF GoalsKnown

(* The gateway tells a running daemon of every goal it creates, the daemon *)
(* takes up queued goals when it boots, and drops a goal only when its row *)
(* says another word.                                                      *)
LEMMA KnownStep ==
  ASSUME IInv, TickInv, GoalsKnown, [Next]_vars
  PROVE  GoalsKnown'
<1>0. TypeOK /\ FreshGoals /\ FailedGoals
  BY DEF IInv
<1>1. ASSUME NEW g \in Goal, CreateGoal(g) PROVE GoalsKnown'
  <2>1. /\ goalRow[g] = "none" /\ goalRow' = [goalRow EXCEPT ![g] = "queued"] /\ Send(<<"submit_goal", g>>)
        /\ UNCHANGED <<schedStatus, activeGoals, goalState, currentItem, reported>>
    BY <1>1 DEF CreateGoal
  <2>2. g \notin activeGoals \cup currentItem /\ "failed" \notin reported[g]
    BY <1>0, <2>1 DEF FreshGoals, FailedGoals, GoalsKnown, ItemsOf
  <2>3. \A h \in Goal : h # g => goalRow'[h] = goalRow[h]
    BY <1>0, <2>1 DEF TypeOK
  <2>4. goalRow'[g] = "queued"
    BY <1>0, <2>1 DEF TypeOK
  <2>5. CASE schedStatus = "down"
    <3>1. commands' = commands
      BY <2>1, <2>5 DEF Send
    <3> QED
      BY <1>0, <2>1, <2>2, <2>3, <2>4, <2>5, <3>1 DEF GoalsKnown, TypeOK
  <2>6. CASE schedStatus # "down"
    <3>1. commands' = commands \cup {<<"submit_goal", g>>}
      BY <2>1, <2>6 DEF Send
    <3> QED
      BY <1>0, <2>1, <2>2, <2>3, <2>4, <2>6, <3>1 DEF GoalsKnown, TypeOK
  <2> QED
    BY <2>5, <2>6
<1>2. ASSUME NEW g \in Goal, RequestCancel(g) PROVE GoalsKnown'
  <2>1. /\ goalRow' = [goalRow EXCEPT ![g] = "cancelled"]
        /\ schedStatus = "down" => commands' = commands
        /\ commands' \in {commands, commands \cup {<<"cancel_goal", g>>}}
        /\ UNCHANGED <<schedStatus, activeGoals, goalState, currentItem, reported>>
    BY <1>2 DEF RequestCancel, Send
  <2>2. \A h \in Goal : <<"submit_goal", h>> \in commands' <=> <<"submit_goal", h>> \in commands
    BY <2>1
  <2>3. \A h \in Goal : goalRow'[h] \in {"none", "queued"} => goalRow'[h] = goalRow[h]
    BY <1>0, <2>1 DEF TypeOK
  <2>4. \A h \in currentItem : goalRow'[h] # "none"
    BY <1>0, <2>1 DEF TypeOK, GoalsKnown
  <2> QED
    BY <2>1, <2>2, <2>3, <2>4 DEF GoalsKnown
<1>3. ASSUME NEW g \in Goal, DeliverSubmit(g) PROVE GoalsKnown'
  <2>1. /\ <<"submit_goal", g>> \in commands
        /\ commands' = commands \ {<<"submit_goal", g>>}
        /\ activeGoals' = activeGoals \cup {g} /\ currentItem' = currentItem \ {g}
        /\ goalState' = [h \in Goal |-> IF h \in {g} THEN "pending" ELSE goalState[h]]
        /\ UNCHANGED <<schedStatus, goalRow, reported>>
    BY <1>3 DEF DeliverSubmit, Submitted, store
  <2>2. schedStatus # "down"
    BY <2>1 DEF GoalsKnown
  <2>3. goalState'[g] \notin Terminal /\ \A h \in Goal : h # g => goalState'[h] = goalState[h]
    BY <2>1 DEF Terminal
  <2>4. \A h \in Goal : h # g => (<<"submit_goal", h>> \in commands'
                                    <=> <<"submit_goal", h>> \in commands)
    BY <2>1
  <2>5. <<"submit_goal", g>> \notin commands'
    BY <2>1
  <2> QED
    BY <2>1, <2>2, <2>3, <2>4, <2>5 DEF GoalsKnown
<1>4. ASSUME NEW g \in Goal, DeliverCancel(g) PROVE GoalsKnown'
  <2>1. /\ commands # {} /\ commands' = commands \ {<<"cancel_goal", g>>}
        /\ UNCHANGED <<schedStatus, currentItem, reported>>
        /\ \/ UNCHANGED <<goalState, activeGoals, goalRow>>
           \/ /\ goalState' = [goalState EXCEPT ![g] = "cancelled"]
              /\ goalRow' = [goalRow EXCEPT ![g] = "cancelled"]
              /\ activeGoals' = activeGoals \ {g}
    BY <1>4 DEF DeliverCancel, Cancelled
  <2>2. schedStatus # "down"
    BY <2>1 DEF GoalsKnown
  <2>3. \A h \in Goal : <<"submit_goal", h>> \in commands' <=> <<"submit_goal", h>> \in commands
    BY <2>1
  <2>4. \A h \in Goal : \/ goalRow'[h] = "cancelled"
                        \/ /\ goalRow'[h] = goalRow[h] /\ goalState'[h] = goalState[h]
                           /\ h \in activeGoals' <=> h \in activeGoals
    BY <1>0, <2>1 DEF TypeOK
  <2>5. activeGoals' \subseteq activeGoals /\ currentItem \subseteq Goal
    BY <1>0, <2>1 DEF TypeOK
  <2> QED
    BY <2>1, <2>2, <2>3, <2>4, <2>5 DEF GoalsKnown
<1>5. ASSUME NEW g \in Goal, ProcessGoal(g) PROVE GoalsKnown'
  <2>1. /\ g \in activeGoals /\ goalRow[g] # "none"
        /\ UNCHANGED <<schedStatus, activeGoals, commands>>
    BY <1>0, <1>5
    DEF ProcessGoal, HandleBudgetExceeded, CompleteGoal, NothingToStart, StartWorkItem,
        Seeking, Processing, TickInv, FreshGoals
  <2>2. CASE HandleBudgetExceeded(g) \/ NothingToStart(g) \/ \E i \in Item : StartWorkItem(g, i)
    <3>1. /\ currentItem' \in {currentItem, currentItem \cup {g}}
          /\ UNCHANGED <<goalRow, reported>>
          /\ \/ UNCHANGED goalState
             \/ \E s \in {"paused", "running"} : goalState' = [goalState EXCEPT ![g] = s]
      BY <2>2 DEF HandleBudgetExceeded, NothingToStart, StartWorkItem, Seeking
    <3>2. \A h \in Goal : goalState'[h] = goalState[h] \/ goalState'[h] \notin Terminal
      BY <1>0, <3>1 DEF TypeOK, Terminal
    <3>3. <<"submit_goal", g>> \notin commands /\ schedStatus # "down"
      BY <2>1 DEF GoalsKnown
    <3> QED
      BY <2>1, <3>1, <3>2, <3>3 DEF GoalsKnown
  <2>3. CASE CompleteGoal(g)
    <3>1. /\ goalRow' = [goalRow EXCEPT ![g] = "completed"]
          /\ goalState' = [goalState EXCEPT ![g] = "completed"]
          /\ reported' = [reported EXCEPT ![g] = @ \cup {"completed"}]
          /\ UNCHANGED currentItem
      BY <2>3 DEF CompleteGoal
    <3>2. /\ goalRow'[g] = "completed"
          /\ \A h \in Goal : h # g => /\ goalRow'[h] = goalRow[h]
                                      /\ goalState'[h] = goalState[h]
                                      /\ reported'[h] = reported[h]
      BY <1>0, <3>1 DEF TypeOK
    <3>3. currentItem \subseteq Goal
      BY <1>0 DEF TypeOK
    <3> QED
      BY <2>1, <3>1, <3>2, <3>3, KnownAsBefore
  <2> QED
    BY <1>5, <2>2, <2>3 DEF ProcessGoal
<1>6. CASE EndTick
  <2>1. /\ activeGoals' = {g \in activeGoals : goalState[g] \notin Terminal}
        /\ UNCHANGED <<schedStatus, goalRow, goalState, currentItem, commands, reported>>
    BY <1>6 DEF EndTick, store
  <2> QED
    BY <2>1 DEF GoalsKnown
<1>7. ASSUME NEW r \in Run, Execution(r) PROVE GoalsKnown'
  <2>1. /\ UNCHANGED <<schedStatus, activeGoals, currentItem, commands>>
        /\ UNCHANGED <<goalState, goalRow, reported>> \/ FailGoal(GoalOf[r[1]])
    BY <1>7
    DEF Execution, ExecutionSucceeds, ExecutionFails, VerificationPasses,
        VerificationFails, HandleFailure, Resumes
  <2>2. currentItem \subseteq Goal /\ GoalOf[r[1]] \in Goal
    BY <1>0, GraphAssumption DEF TypeOK, Run
  <2>3. CASE UNCHANGED <<goalState, goalRow, reported>>
    BY <2>1, <2>2, <2>3, KnownAsBefore
  <2>4. CASE FailGoal(GoalOf[r[1]])
    <3>1. /\ goalRow'[GoalOf[r[1]]] = "blocked"
          /\ \A h \in Goal : h # GoalOf[r[1]] => /\ goalRow'[h] = goalRow[h]
                                                 /\ goalState'[h] = goalState[h]
                                                 /\ reported'[h] = reported[h]
      BY <1>0, <2>2, <2>4 DEF FailGoal, TypeOK
    <3> QED
      BY <2>1, <2>2, <3>1, KnownAsBefore
  <2> QED
    BY <2>1, <2>3, <2>4
<1>8. CASE BeginTick \/ Pause \/ Stop \/ Resume \/ UNCHANGED vars
  <2>1. /\ schedStatus' = "down" <=> schedStatus = "down"
        /\ UNCHANGED <<goalRow, activeGoals, goalState, currentItem, commands, reported>>
    BY <1>8 DEF BeginTick, Pause, Stop, Resume, vars, store
  <2>2. currentItem \subseteq Goal
    BY <1>0 DEF TypeOK
  <2> QED
    BY <2>1, <2>2, KnownAsBefore
<1>9. CASE Crash
  BY <1>9 DEF Crash, store, GoalsKnown
<1>10. CASE Boot
  <2>1. /\ commands' = {} /\ currentItem' = {}
        /\ \A g \in Goal : goalRow'[g] = "queued"
             => /\ g \in activeGoals' /\ goalState'[g] = "pending"
                /\ "failed" \notin reported'[g]
    BY <1>10 DEF Boot, Submitted, store, GoalsKnown
  <2>2. schedStatus' = "running"
    BY <1>10 DEF Boot
  <2> QED
    BY <2>1, <2>2 DEF GoalsKnown, Terminal
<1> QED
  BY <1>1, <1>2, <1>3, <1>4, <1>5, <1>6, <1>7, <1>8, <1>9, <1>10 DEF Next

(* Before the first crash a goal of which no item was ever started has     *)
(* spent nothing, and nothing of it is going.                              *)
SpendersKnown ==
  crashes = 0 => \A g \in Goal : g \notin currentItem =>
                   /\ spent[g] = 0
                   /\ \A r \in Run : GoalOf[r[1]] = g => phase[r] = "idle"

(* Only a crash makes the daemon forget which goals it has worked on.      *)
LEMMA SpendersStep ==
  ASSUME TypeOK, GoalsKnown, SpendersKnown, [Next]_vars
  PROVE  SpendersKnown'
<1> SUFFICES ASSUME crashes' = 0, NEW g \in Goal, g \notin currentItem'
             PROVE  /\ spent'[g] = 0
                    /\ \A r \in Run : GoalOf[r[1]] = g => phase'[r] = "idle"
  BY DEF SpendersKnown
<1>0. crashes = 0
  BY CrashesCounted DEF TypeOK
<1>1. ASSUME currentItem \subseteq currentItem', UNCHANGED <<spent, phase>>
      PROVE  /\ spent'[g] = 0
             /\ \A r \in Run : GoalOf[r[1]] = g => phase'[r] = "idle"
  BY <1>0, <1>1 DEF SpendersKnown
<1>2. ASSUME NEW h \in Goal,
             \/ CreateGoal(h) \/ RequestCancel(h) \/ DeliverCancel(h)
             \/ HandleBudgetExceeded(h) \/ CompleteGoal(h) \/ NothingToStart(h)
      PROVE  currentItem' = currentItem /\ UNCHANGED <<spent, phase>>
  BY <1>2 DEF CreateGoal, RequestCancel, DeliverCancel, HandleBudgetExceeded, CompleteGoal,
              NothingToStart, Seeking, Processing, runVars
<1>3. ASSUME NEW h \in Goal, DeliverSubmit(h)
      PROVE  currentItem' = currentItem /\ UNCHANGED <<spent, phase>>
  <2>1. h \notin currentItem
    BY <1>3 DEF DeliverSubmit, GoalsKnown
  <2> QED
    BY <1>3, <2>1 DEF DeliverSubmit, Submitted, store, runVars
<1>4. ASSUME NEW h \in Goal, NEW i \in Item, StartWorkItem(h, i)
      PROVE  /\ spent'[g] = 0
             /\ \A r \in Run : GoalOf[r[1]] = g => phase'[r] = "idle"
  <2> DEFINE run == <<i, runCount[i] + 1>>
  <2>1. run \in Run /\ GoalOf[run[1]] = h
    BY <1>4, StartedRun
  <2>2. /\ phase' = [phase EXCEPT ![run] = "executing"] /\ spent' = spent
        /\ currentItem' = currentItem \cup {h}
    BY <1>4 DEF StartWorkItem, Seeking, Processing
  <2> QED
    BY <1>0, <2>1, <2>2 DEF SpendersKnown, TypeOK
<1>5. ASSUME NEW r \in Run, Execution(r)
      PROVE  /\ spent'[g] = 0
             /\ \A s \in Run : GoalOf[s[1]] = g => phase'[s] = "idle"
  <2>1. /\ phase[r] # "idle" /\ currentItem' = currentItem
        /\ \E p \in Phase : phase' = [phase EXCEPT ![r] = p]
        /\ spent' = spent \/ Spend(r)
    BY <1>5
    DEF Execution, ExecutionSucceeds, ExecutionFails, VerificationPasses,
        VerificationFails, HandleFailure, Release, Resumes, Phase
  <2>2. GoalOf[r[1]] # g
    BY <1>0, <2>1 DEF SpendersKnown
  <2>3. spent'[g] = spent[g]
    BY <2>1, <2>2, CostInRange DEF TypeOK
  <2>4. \A s \in Run : GoalOf[s[1]] = g => phase'[s] = phase[s]
    BY <2>1, <2>2 DEF TypeOK
  <2> QED
    BY <1>0, <2>1, <2>3, <2>4 DEF SpendersKnown
<1>6. BeginTick \/ EndTick \/ Pause \/ Stop \/ Resume \/ UNCHANGED vars
        => currentItem' = currentItem /\ UNCHANGED <<spent, phase>>
  BY DEF BeginTick, EndTick, Pause, Stop, Resume, vars, store, runVars
<1>7. Boot => currentItem \subseteq currentItem' /\ UNCHANGED <<spent, phase>>
  BY DEF Boot, Submitted, GoalsKnown, store, runVars
<1>8. ~Crash
  BY <1>0 DEF Crash
<1> QED
  BY <1>1, <1>2, <1>3, <1>4, <1>5, <1>6, <1>7, <1>8 DEF Next, ProcessGoal

(* An item that waits can still be run: the bound on runs holds nothing up *)
(* that the code would start.                                              *)
RunsLeft ==
  \A i \in Item : itemStatus[i] \in {"queued", "ready"} => runCount[i] < MaxRuns

(* A run is counted when it starts, and asks for another one only below    *)
(* the bound.                                                              *)
LEMMA RunsLeftStep ==
  ASSUME IInv, RunsLeft, [Next]_vars
  PROVE  RunsLeft'
<1>0. TypeOK /\ RunsMatchItems /\ FreshGoals
  BY DEF IInv
<1> SUFFICES ASSUME NEW i \in Item, itemStatus'[i] \in {"queued", "ready"}
             PROVE  runCount'[i] < MaxRuns
  BY DEF RunsLeft
<1>1. runCount'[i] = runCount[i]
  <2>1. ASSUME NEW g \in Goal, NEW j \in Item, StartWorkItem(g, j)
        PROVE  runCount'[i] = runCount[i]
    <3>1. /\ runCount' = [runCount EXCEPT ![j] = @ + 1]
          /\ itemStatus' = [Promoted(g) EXCEPT ![j] = "in_progress"]
      BY <2>1 DEF StartWorkItem
    <3>2. itemStatus'[j] = "in_progress"
      BY <3>1 DEF Promoted
    <3>3. i # j
      BY <3>2
    <3> QED
      BY <1>0, <3>1, <3>3 DEF TypeOK
  <2>2. \/ runCount' = runCount
        \/ \E g \in Goal, j \in Item : StartWorkItem(g, j)
    BY DEF Next, CreateGoal, RequestCancel, DeliverSubmit, DeliverCancel, ProcessGoal,
           HandleBudgetExceeded, CompleteGoal, NothingToStart, BeginTick, EndTick, Execution,
           ExecutionSucceeds, ExecutionFails, VerificationPasses, VerificationFails, Resumes,
           Pause, Stop, Resume, Crash, Boot, vars, store
  <2> QED
    BY <2>1, <2>2
<1>2. CASE itemStatus[i] \in {"queued", "ready"}
  BY <1>1, <1>2 DEF RunsLeft
<1>3. CASE itemStatus[i] \notin {"queued", "ready"}
  <2>1. itemStatus[i] = "in_progress" /\ itemStatus'[i] = "queued"
    BY <1>0, <1>3, StepMoves DEF Moves
  <2>2. PICK r \in Run : Execution(r)
    <3>1. ~Quiet /\ ~Crash
      BY <2>1 DEF Quiet, Crash, store
    <3>2. ASSUME NEW g \in Goal, CreateGoal(g) \/ CompleteGoal(g) \/ NothingToStart(g)
          PROVE  itemStatus'[i] \in {"ready", itemStatus[i]}
      BY <3>2 DEF CreateGoal, CompleteGoal, NothingToStart, Promoted
    <3>3. ASSUME NEW g \in Goal, NEW j \in Item, StartWorkItem(g, j)
          PROVE  itemStatus'[i] \in {"in_progress", "ready", itemStatus[i]}
      <4>1. itemStatus' = [Promoted(g) EXCEPT ![j] = "in_progress"]
        BY <3>3 DEF StartWorkItem
      <4> QED
        BY <4>1 DEF Promoted
    <3> QED
      BY <1>0, <2>1, <3>1, <3>2, <3>3, QuietSteps
  <2>3. r[1] \in Item
    BY DEF Run
  <2>4. ~ExecutionSucceeds(r) /\ ~VerificationPasses(r)
    BY <1>0, <2>1, <2>3 DEF ExecutionSucceeds, VerificationPasses, Done, TypeOK
  <2>5. PICK recoverable \in BOOLEAN :
          ExecutionFails(r, recoverable) \/ VerificationFails(r, recoverable)
    BY <2>2, <2>4 DEF Execution
  <2>6. PICK to \in AfterFailure(r[1], recoverable) : itemStatus' = [itemStatus EXCEPT ![r[1]] = to]
    BY <2>5 DEF ExecutionFails, VerificationFails, HandleFailure
  <2>7. r[1] = i /\ to = "queued"
    BY <1>0, <2>1, <2>3, <2>6 DEF TypeOK
  <2>8. ExecutionFails(r, recoverable)
    BY <1>0, <2>1, <2>5, <2>7 DEF VerificationFails, Resumes, RunsMatchItems
  <2>9. FailureTarget(recoverable) = "queued"
    <3>1. CanMove(i, FailureTarget(recoverable))
      BY <2>1 DEF CanMove, ValidTransitions, FailureTarget
    <3> QED
      BY <2>6, <2>7, <3>1 DEF AfterFailure
  <2> QED
    BY <1>1, <2>7, <2>8, <2>9 DEF ExecutionFails
<1> QED
  BY <1>2, <1>3

(* The tick that takes a goal can go on with it: a goal within its budget  *)
(* has a first unfinished item, in the order of its dependencies, that is  *)
(* ready or will not be finished; one over it has an item to ask about.    *)
LEMMA SomethingMoves ==
  ASSUME ValidDag, IInv, ItemsInHand, GoalsKnown, SpendersKnown, RunsLeft
  PROVE  NoGoalIsStuck
<1> SUFFICES ASSUME NEW g \in Goal, goalRow[g] = "queued", schedStatus # "down",
                    <<"submit_goal", g>> \notin commands
             PROVE  /\ g \in activeGoals
                    /\ (\A r \in Run : ~InFlight(r)) =>
                         \/ WouldPause(g) \/ WouldComplete(g) \/ WouldStart(g)
                         \/ EscalationBreaks(g)
                         \/ \E i \in ItemsOf(g) : LeftBehind(i)
  BY DEF NoGoalIsStuck
<1>1. g \in activeGoals /\ "failed" \notin reported[g]
  BY DEF GoalsKnown
<1> SUFFICES ASSUME \A r \in Run : ~InFlight(r), \A i \in ItemsOf(g) : ~LeftBehind(i),
                    ~WouldComplete(g), ~EscalationBreaks(g)
             PROVE  WouldPause(g) \/ WouldStart(g)
  BY <1>1
<1>2. TypeOK /\ LaneAccounting
  BY DEF IInv
<1>3. CASE Exceeded(g)
  <2>1. crashes = 0 => g \in currentItem
    <3>1. spent[g] # 0
      BY <1>2, <1>3, LimitAssumption DEF Exceeded, TypeOK
    <3> QED
      BY <3>1 DEF SpendersKnown
  <2>2. crashes > 0 \/ crashes = 0
    BY <1>2, LimitAssumption DEF TypeOK
  <2> QED
    BY <1>3, <2>1, <2>2 DEF WouldPause, EscalationBreaks
<1>4. CASE ~Exceeded(g)
  <2>1. ~AllComplete(g)
    BY <1>4 DEF WouldComplete
  <2>2. ASSUME NEW i \in NextItems(g)
        PROVE  HasCapacity(SelectLane(i)) /\ runCount[i] < MaxRuns
    <3>1. i \in Item /\ Promoted(g)[i] = "ready"
      BY DEF NextItems, ReadyItems, ItemsOf
    <3>2. itemStatus[i] \in {"queued", "ready"}
      BY <3>1 DEF Promoted
    <3> QED
      BY <1>2, <3>1, <3>2, IdleLanesHaveRoom, SelectLaneType DEF RunsLeft
  <2> DEFINE S == {i \in ItemsOf(g) : itemStatus[i] # "done"}
  <2>3. S \in SUBSET Item /\ S # {}
    BY <2>1 DEF ItemsOf, AllComplete
  <2>4. PICK i \in S : Deps[i] \cap S = {}
    BY <2>3 DEF ValidDag
  <2>5. i \in Item /\ GoalOf[i] = g /\ Satisfied(itemStatus, i)
    BY <2>4 DEF ItemsOf, ValidDag, Satisfied
  <2>6. itemStatus[i] \in {"queued", "ready"}
    <3>1. ~Underway(i)
      BY DEF Underway
    <3>2. itemStatus[i] \in ItemStatus
      BY <1>2, <2>5 DEF TypeOK
    <3> QED
      BY <1>1, <2>4, <2>5, <3>1, <3>2 DEF ItemsInHand, ItemStatus
  <2>7. i \in ReadyItems(g)
    BY <2>4, <2>5, <2>6 DEF ReadyItems, Promoted
  <2>8. NextItems(g) # {}
    BY <2>7, SomeComesFirst
  <2> QED
    BY <1>4, <2>1, <2>2, <2>8 DEF WouldStart
<1> QED
  BY <1>3, <1>4

(* Items in progress are in somebody's hands.                              *)
LEMMA InHandAlways == Spec => []ItemsInHand
<1>1. Init => ItemsInHand
  BY DEF Init, ItemsInHand
<1> QED
  BY <1>1, HandStep, Invariance, PTL DEF Spec

(* Queued goals are in the daemon's hands, goals that spent have an item   *)
(* to ask about, and what waits can be run.                                *)
LEMMA KnownAlways == Spec => [](GoalsKnown /\ SpendersKnown /\ RunsLeft)
<1>1. Init => TickInv /\ GoalsKnown /\ SpendersKnown /\ RunsLeft
  BY LimitAssumption DEF Init, TickInv, GoalsKnown, SpendersKnown, RunsLeft
<1>2. IInv /\ TickInv /\ GoalsKnown /\ SpendersKnown /\ RunsLeft /\ [Next]_vars
        => (TickInv /\ GoalsKnown /\ SpendersKnown /\ RunsLeft)'
  <2>1. IInv => TypeOK
    BY DEF IInv
  <2> QED
    BY <2>1, TickStep, KnownStep, SpendersStep, RunsLeftStep
<1> QED
  BY <1>1, <1>2, Invariance, PTL DEF Spec

(* A running daemon can always go on with every queued goal: it walks it,  *)
(* and when nothing is under way, the tick that takes the goal pauses it,  *)
(* completes it or starts an item of it, for every valid graph, every set  *)
(* of goals, limit and budget. Left out are goals that lost an item to a   *)
(* crash or to failed gates, and recovered ones over their budget, whose   *)
(* escalation breaks.                                                      *)
THEOREM GoalsAreNeverStuck == ASSUME ValidDag PROVE Spec => []NoGoalIsStuck
<1>1. IInv /\ ItemsInHand /\ GoalsKnown /\ SpendersKnown /\ RunsLeft => NoGoalIsStuck
  BY SomethingMoves
<1> QED
  BY <1>1, Invariance, InHandAlways, KnownAlways, PTL
=============================================================================
