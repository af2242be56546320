---------------------------- MODULE CronDispatch ----------------------------
(***************************************************************************)
(* The dispatch of scheduled agents: AgentScheduler (src/scheduler-daemon/ *)
(* agent-scheduler.ts), the rows of cron_jobs and cron_job_runs it works   *)
(* on, the reconciliation of those rows at boot, and the recovery of       *)
(* queued goals. Several daemons may work on one database, as the tests    *)
(* of the repository have them do.                                         *)
(*                                                                         *)
(* dispatchOnce does not give the event loop back before it submits the    *)
(* goal, but each of its statements is a transaction of its own: a crash,  *)
(* and the statements of another daemon, fall between any two of them. One *)
(* action is one statement with the computation that follows it.           *)
(***************************************************************************)
EXTENDS Naturals, FiniteSets

CONSTANTS
  Daemon,      \* daemon processes
  Job,         \* agents with a schedule
  Every,       \* the schedule's interval
  Broken,      \* agents whose schedule cannot be computed
  Configs,     \* the sets of agents a boot may find enabled
  ClaimTtl,    \* claimTtlMs
  MayStall,    \* a dispatch may take longer than its claim lasts
  MayCancel,   \* users cancel goals
  MaxGoals,    \* bound: goals that are created
  MaxTime,     \* bound: the clock
  MaxCrashes   \* bound: crashes of daemons

ASSUME ScheduleAssumption ==
  /\ Every \in [Job -> Nat \ {0}]
  /\ Broken \subseteq Job
  /\ Configs \subseteq SUBSET Job
  /\ ClaimTtl \in Nat \ {0}
  /\ MayStall \in BOOLEAN /\ MayCancel \in BOOLEAN
  /\ MaxGoals \in Nat /\ MaxTime \in Nat \ {0} /\ MaxCrashes \in Nat

(* Instants are positive, 0 stands for NULL in a time column. Goals are    *)
(* numbered as they are created.                                           *)
Instant == 1..MaxTime
Goal == 1..MaxGoals
NoGoal == 0

VARIABLES
  now,
  \* cron_jobs
  enabled,       \* jobs whose enabled column is 1
  nextRun,       \* next_run_at_ms
  lastRun,       \* last_run_at_ms
  inFlight,      \* the instant of the run in in_flight_run_key
  claimExpires,  \* claim_expires_at_ms
  \* cron_job_runs, by agent_id and scheduled_for_ms
  runStatus,     \* status, "none" when there is no row
  runGoal,       \* goal_id
  \* goals
  goalRow,       \* "bare" is a queued goal that has no work item yet
  goalRun,       \* the run a goal was created for, and the instant after it
  \* memory of the daemons
  up,            \* daemons that run
  registry,      \* the agents a daemon's registry has enabled
  step,          \* the statement a daemon executes next
  task,          \* the job, run and goal it works on
  tracked,       \* inFlightByGoalId
  active,        \* goals its scheduler works on
  crashes

jobVars == <<enabled, nextRun, lastRun, inFlight, claimExpires>>
rowVars == <<runStatus, runGoal, goalRow, goalRun>>
memVars == <<up, registry, tracked, active>>
vars == <<now, jobVars, rowVars, memVars, step, task, crashes>>

Holding == {"claimed", "creating", "created", "stocked", "linked", "skipping", "releasing"}
Step == Holding \cup {"idle", "marked", "settling", "settled"}
Final == {"success", "failure"}
RunStatus == {"none", "claimed", "submitted"} \cup Final

NoRun == [job |-> "none", slot |-> 0, next |-> 0]
NoTask == [run |-> NoRun, goal |-> NoGoal]

---------------------------------------------------------------------------
(* Schedules *)

(* computeScheduleOutcome for an interval whose next_run_at_ms is set: the *)
(* firings missed so far are coalesced into the latest of them.            *)
ScheduledFor(j, t) == nextRun[j] + ((t - nextRun[j]) \div Every[j]) * Every[j]

(* Mutant: the schedule is not moved on. *)
AfterSame(j, s) == s

(* next_run_at_ms of the same outcome: the instant after the run's.        *)
After(j, s) == s + Every[j]

(* Mutant: the claim's expiry alone keeps others away. *)
ClaimableInFlight(j) ==
  /\ j \in enabled
  /\ nextRun[j] # 0 /\ nextRun[j] <= now
  /\ claimExpires[j] <= now

(* Mutant: claims are not looked at. *)
ClaimableTwice(j) ==
  /\ j \in enabled
  /\ nextRun[j] # 0 /\ nextRun[j] <= now
  /\ inFlight[j] = 0

(* The WHERE clause of claimDueCronJobs; backoff_until_ms is never set.    *)
Claimable(j) ==
  /\ j \in enabled
  /\ nextRun[j] # 0 /\ nextRun[j] <= now
  /\ inFlight[j] = 0
  /\ claimExpires[j] <= now

(* updateCronJobAfterOutcome: whoever calls it, the marker and the claim   *)
(* of the job are cleared.                                                 *)
AfterOutcome(j, next) ==
  /\ nextRun' = [nextRun EXCEPT ![j] = next]
  /\ inFlight' = [inFlight EXCEPT ![j] = 0]
  /\ claimExpires' = [claimExpires EXCEPT ![j] = 0]
  /\ UNCHANGED <<enabled, lastRun>>

---------------------------------------------------------------------------
Init ==
  /\ now = 1
  /\ enabled = {}
  /\ nextRun = [j \in Job |-> 0]
  /\ lastRun = [j \in Job |-> 0]
  /\ inFlight = [j \in Job |-> 0]
  /\ claimExpires = [j \in Job |-> 0]
  /\ runStatus = [j \in Job |-> [s \in Instant |-> "none"]]
  /\ runGoal = [j \in Job |-> [s \in Instant |-> NoGoal]]
  /\ goalRow = [g \in Goal |-> "none"]
  /\ goalRun = [g \in Goal |-> NoRun]
  /\ up = {}
  /\ registry = [d \in Daemon |-> {}]
  /\ step = [d \in Daemon |-> "idle"]
  /\ task = [d \in Daemon |-> NoTask]
  /\ tracked = [d \in Daemon |-> {}]
  /\ active = [d \in Daemon |-> {}]
  /\ crashes = 0

---------------------------------------------------------------------------
(* Outside the daemons *)

(* Bound: the clock stops at MaxTime. Without stalls no claim expires on a *)
(* daemon that is still dispatching: a dispatch takes a few statements,    *)
(* its claim lasts two ticks.                                              *)
Tick ==
  /\ now < MaxTime
  /\ MayStall \/ \A d \in Daemon : step[d] \in Holding
                                     => now + 1 < claimExpires[task[d].run.job]
  /\ now' = now + 1
  /\ UNCHANGED <<jobVars, rowVars, memVars, step, task, crashes>>

(* Nothing under src/src writes the first next_run_at_ms of a job: the     *)
(* tests do it with an UPDATE of their own.                                *)
Seed(j) ==
  /\ nextRun[j] = 0
  /\ nextRun' = [nextRun EXCEPT ![j] = now]
  /\ UNCHANGED <<now, enabled, lastRun, inFlight, claimExpires, rowVars, memVars,
                 step, task, crashes>>

(* goal.cancel reaches one daemon; cancelGoal emits no event.              *)
CancelGoal(d, g) ==
  /\ MayCancel /\ step[d] = "idle"
  /\ goalRow[g] = "queued" /\ g \in active[d]
  /\ goalRow' = [goalRow EXCEPT ![g] = "ended"]
  /\ active' = [active EXCEPT ![d] = @ \ {g}]
  /\ UNCHANGED <<now, jobVars, runStatus, runGoal, goalRun, up, registry, tracked,
                 step, task, crashes>>

---------------------------------------------------------------------------
(* A daemon's life *)

(* start: the registry is loaded once, reconcileCronJobsFromRegistry       *)
(* writes its enabled flags, recoverQueuedGoals submits what is queued.    *)
Boot(d) ==
  /\ d \notin up
  /\ up' = up \cup {d}
  /\ \E config \in Configs : /\ registry' = [registry EXCEPT ![d] = config]
                              /\ enabled' = config
  /\ active' = [active EXCEPT ![d] = {g \in Goal : goalRow[g] \in {"bare", "queued"}}]
  /\ UNCHANGED <<now, nextRun, lastRun, inFlight, claimExpires, rowVars, tracked,
                 step, task, crashes>>

Crash(d) ==
  /\ d \in up /\ crashes < MaxCrashes
  /\ crashes' = crashes + 1
  /\ up' = up \ {d}
  /\ step' = [step EXCEPT ![d] = "idle"]
  /\ task' = [task EXCEPT ![d] = NoTask]
  /\ tracked' = [tracked EXCEPT ![d] = {}]
  /\ active' = [active EXCEPT ![d] = {}]
  /\ UNCHANGED <<now, jobVars, rowVars, registry>>

---------------------------------------------------------------------------
(* dispatchOnce, with the default limit of one claim *)

At(d, here) == d \in up /\ step[d] = here /\ UNCHANGED <<now, crashes>>

Proceed(d, there) == step' = [step EXCEPT ![d] = there]

Finish(d) == Proceed(d, "idle") /\ task' = [task EXCEPT ![d] = NoTask]

(* claimDueCronJobs, then the agent is looked up and its schedule          *)
(* computed: a job that cannot be dispatched is released as it is.         *)
Claim(d, j) ==
  LET usable == j \in registry[d] \ Broken
      slot   == ScheduledFor(j, now)
  IN  /\ At(d, "idle")
      /\ Claimable(j)
      /\ \A k \in Job : Claimable(k) => nextRun[j] <= nextRun[k]
      /\ claimExpires' = [claimExpires EXCEPT ![j] = now + ClaimTtl]
      /\ Proceed(d, IF usable THEN "claimed" ELSE "releasing")
      /\ task' = [task EXCEPT ![d] =
                    [run  |-> [job  |-> j,
                               slot |-> slot,
                               next |-> IF usable THEN After(j, slot) ELSE nextRun[j]],
                     goal |-> NoGoal]]
      /\ UNCHANGED <<enabled, nextRun, lastRun, inFlight, rowVars, memVars>>

(* releaseClaim                                                            *)
Release(d) ==
  /\ At(d, "releasing")
  /\ AfterOutcome(task[d].run.job, task[d].run.next)
  /\ Finish(d)
  /\ UNCHANGED <<rowVars, memVars>>

(* Mutant: a run row is used again whether or not it has a goal.           *)
NextStepAnew(goal) == "creating"

(* Is the run that was found linked to a goal already?                     *)
NextStep(goal) == IF goal = NoGoal THEN "creating" ELSE "skipping"

(* getOrCreateCronJobRun: INSERT OR IGNORE, then SELECT.                   *)
GetOrCreateRun(d) ==
  LET r == task[d].run
  IN  /\ At(d, "claimed")
      /\ runStatus' = [runStatus EXCEPT ![r.job][r.slot] = IF @ = "none" THEN "claimed" ELSE @]
      /\ Proceed(d, NextStep(runGoal[r.job][r.slot]))
      /\ UNCHANGED <<jobVars, runGoal, goalRow, goalRun, memVars, task>>

(* The idempotent skip of a run that has a goal.                           *)
Skip(d) ==
  /\ At(d, "skipping")
  /\ AfterOutcome(task[d].run.job, task[d].run.next)
  /\ Finish(d)
  /\ UNCHANGED <<rowVars, memVars>>

CreateGoal(d, g) ==
  /\ At(d, "creating")
  /\ goalRow[g] = "none"
  /\ \A h \in Goal : h < g => goalRow[h] # "none"
  /\ goalRow' = [goalRow EXCEPT ![g] = "bare"]
  /\ goalRun' = [goalRun EXCEPT ![g] = task[d].run]
  /\ task' = [task EXCEPT ![d].goal = g]
  /\ Proceed(d, "created")
  /\ UNCHANGED <<jobVars, runStatus, runGoal, memVars>>

(* createWorkItem, updateWorkItemStatus: what the scheduler makes of an    *)
(* item that is still queued is the same.                                  *)
CreateWorkItem(d) ==
  /\ At(d, "created")
  /\ goalRow' = [goalRow EXCEPT ![task[d].goal] = IF @ = "bare" THEN "queued" ELSE @]
  /\ Proceed(d, "stocked")
  /\ UNCHANGED <<jobVars, runStatus, runGoal, goalRun, memVars, task>>

LinkRun(d) ==
  LET r == task[d].run
  IN  /\ At(d, "stocked")
      /\ runGoal' = [runGoal EXCEPT ![r.job][r.slot] = task[d].goal]
      /\ Proceed(d, "linked")
      /\ UNCHANGED <<jobVars, runStatus, goalRow, goalRun, memVars, task>>

MarkInFlight(d) ==
  LET r == task[d].run
  IN  /\ At(d, "linked")
      /\ inFlight' = [inFlight EXCEPT ![r.job] = r.slot]
      /\ lastRun' = [lastRun EXCEPT ![r.job] = r.slot]
      /\ claimExpires' = [claimExpires EXCEPT ![r.job] = 0]
      /\ Proceed(d, "marked")
      /\ UNCHANGED <<enabled, nextRun, rowVars, memVars, task>>

(* updateCronJobRunStatus, the entry of inFlightByGoalId, and submitGoal,  *)
(* which does not fail and does not wait.                                  *)
SubmitGoal(d) ==
  LET r == task[d].run
  IN  /\ At(d, "marked")
      /\ runStatus' = [runStatus EXCEPT ![r.job][r.slot] = "submitted"]
      /\ tracked' = [tracked EXCEPT ![d] = @ \cup {task[d].goal}]
      /\ active' = [active EXCEPT ![d] = @ \cup {task[d].goal}]
      /\ Finish(d)
      /\ UNCHANGED <<jobVars, runGoal, goalRow, goalRun, up, registry>>

---------------------------------------------------------------------------
(* The scheduler reports the outcome of a goal *)

(* The goal's row is written, then goal_completed or goal_failed reaches   *)
(* handleGoalOutcome, which knows only the goals of this process.          *)
EndGoal(d, g) ==
  /\ At(d, "idle")
  /\ g \in active[d]
  /\ goalRow' = [goalRow EXCEPT ![g] = "ended"]
  /\ active' = [active EXCEPT ![d] = @ \ {g}]
  /\ IF g \in tracked[d]
       THEN /\ Proceed(d, "settling")
            /\ task' = [task EXCEPT ![d] = [run |-> goalRun[g], goal |-> g]]
       ELSE UNCHANGED <<step, task>>
  /\ UNCHANGED <<jobVars, runStatus, runGoal, goalRun, up, registry, tracked>>

SettleRun(d) ==
  LET r == task[d].run
  IN  /\ At(d, "settling")
      /\ \E status \in Final : runStatus' = [runStatus EXCEPT ![r.job][r.slot] = status]
      /\ Proceed(d, "settled")
      /\ UNCHANGED <<jobVars, runGoal, goalRow, goalRun, memVars, task>>

(* Mutant: only goal_completed settles the job. *)
SettleJobIfSucceeded(d) ==
  LET r == task[d].run
  IN  /\ At(d, "settled")
      /\ IF runStatus[r.job][r.slot] = "success"
           THEN AfterOutcome(r.job, r.next)
           ELSE UNCHANGED jobVars
      /\ tracked' = [tracked EXCEPT ![d] = @ \ {task[d].goal}]
      /\ Finish(d)
      /\ UNCHANGED <<rowVars, up, registry, active>>

SettleJob(d) ==
  /\ At(d, "settled")
  /\ AfterOutcome(task[d].run.job, task[d].run.next)
  /\ tracked' = [tracked EXCEPT ![d] = @ \ {task[d].goal}]
  /\ Finish(d)
  /\ UNCHANGED <<rowVars, up, registry, active>>

---------------------------------------------------------------------------
Dispatch(d) ==
  \/ GetOrCreateRun(d) \/ \E g \in Goal : CreateGoal(d, g)
  \/ CreateWorkItem(d) \/ LinkRun(d) \/ MarkInFlight(d) \/ SubmitGoal(d)
  \/ Skip(d) \/ Release(d)
  \/ SettleRun(d) \/ SettleJob(d)

Next ==
  \/ Tick
  \/ \E j \in Job : Seed(j)
  \/ \E d \in Daemon : \/ Boot(d) \/ Crash(d) \/ Dispatch(d)
                        \/ \E j \in Job : Claim(d, j)
                        \/ \E g \in Goal : EndGoal(d, g) \/ CancelGoal(d, g)

Spec == Init /\ [][Next]_vars

(* The service manager starts daemons, a started statement returns, and    *)
(* the timer calls dispatchOnce again and again. A goal is assumed to end  *)
(* with an event, which holds of goals that are neither cancelled nor      *)
(* paused (see SchedulerCore). Ends of goals and claims compete for the    *)
(* event loop, which serves both.                                          *)
Fairness ==
  \A d \in Daemon : /\ WF_vars(Boot(d)) /\ WF_vars(Dispatch(d))
                    /\ \A j \in Job : SF_vars(Claim(d, j))
                    /\ \A g \in Goal : SF_vars(EndGoal(d, g))

FairSpec == Spec /\ WF_vars(Tick) /\ Fairness

---------------------------------------------------------------------------
(* Properties *)

RunRef == [job : Job \cup {"none"}, slot : Nat, next : Nat]

(* The columns and the memory hold what their types allow.                 *)
TypeOK ==
  /\ now \in Instant
  /\ enabled \subseteq Job
  /\ nextRun \in [Job -> Nat]
  /\ lastRun \in [Job -> Nat]
  /\ inFlight \in [Job -> Nat]
  /\ claimExpires \in [Job -> Nat]
  /\ runStatus \in [Job -> [Instant -> RunStatus]]
  /\ runGoal \in [Job -> [Instant -> Goal \cup {NoGoal}]]
  /\ goalRow \in [Goal -> {"none", "bare", "queued", "ended"}]
  /\ goalRun \in [Goal -> RunRef]
  /\ up \subseteq Daemon
  /\ registry \in [Daemon -> SUBSET Job]
  /\ step \in [Daemon -> Step]
  /\ task \in [Daemon -> [run : RunRef, goal : Goal \cup {NoGoal}]]
  /\ tracked \in [Daemon -> SUBSET Goal]
  /\ active \in [Daemon -> SUBSET Goal]
  /\ crashes \in 0..MaxCrashes

Dispatching(d, j) == step[d] \in Holding \cup {"marked"} /\ task[d].run.job = j
Tracking(d, j) == \E g \in tracked[d] : goalRun[g].job = j
Owns(d, j) == Dispatching(d, j) \/ Tracking(d, j)

(* A job is in one pair of hands: at most one daemon dispatches it or      *)
(* waits for the goal of its run, and never both, whatever crashed before  *)
(* and whoever rebooted (the claim of claimDueCronJobs together with the   *)
(* in-flight marker).                                                      *)
SingleOwner ==
  \A j \in Job, d \in Daemon :
    /\ ~(Dispatching(d, j) /\ Tracking(d, j))
    /\ \A e \in Daemon \ {d} : ~(Owns(d, j) /\ Owns(e, j))

TaskMatches(d) ==
  LET r == task[d].run
  IN  /\ step[d] \in Holding => inFlight[r.job] = 0
      /\ step[d] = "marked" => inFlight[r.job] = r.slot

GoalMatches(g) ==
  LET r == goalRun[g] IN inFlight[r.job] = r.slot /\ runGoal[r.job][r.slot] = g

(* What a daemon remembers is what the row says: a dispatch that has not   *)
(* marked the job finds no marker, and the goals of inFlightByGoalId are   *)
(* the goals of the runs in flight. So updateCronJobAfterOutcome, which    *)
(* clears the marker and the claim of whoever holds them, clears only the  *)
(* caller's own.                                                           *)
MarkersMatch ==
  \A d \in Daemon : TaskMatches(d) /\ \A g \in tracked[d] : GoalMatches(g)

(* A job that is free to be claimed has its next instant after its last    *)
(* run: no instant is dispatched again, not even after a restart.          *)
NextAfterLast ==
  \A j \in Job : inFlight[j] = 0 /\ nextRun[j] # 0 => nextRun[j] > lastRun[j]

(* What the next statement of a daemon relies on: its claim has not        *)
(* expired, its run is later than the last one and has no goal but its     *)
(* own, and is not settled before the goal it waits for has ended.         *)
TaskOK(d) ==
  LET r == task[d].run
      g == task[d].goal
  IN  /\ d \notin up => step[d] = "idle" /\ tracked[d] = {}
      /\ step[d] # "idle" => r.job \in Job /\ r.slot \in Instant
      /\ step[d] \in Holding => /\ claimExpires[r.job] > now
                                /\ r.slot > lastRun[r.job] /\ r.next > lastRun[r.job]
                                /\ nextRun[r.job] # 0
      /\ step[d] \in Holding \ {"releasing"} => r.next > r.slot
      /\ step[d] \in {"creating", "created", "stocked"} => runGoal[r.job][r.slot] = NoGoal
      /\ step[d] \in {"created", "stocked", "linked", "marked"} =>
           g \in Goal /\ goalRow[g] # "none" /\ goalRun[g] = r
      /\ step[d] = "marked" => lastRun[r.job] = r.slot /\ r.next > r.slot
      /\ step[d] \in {"linked", "marked"} => /\ runGoal[r.job][r.slot] = g
                                             /\ runStatus[r.job][r.slot] \notin Final
      /\ step[d] \in {"settling", "settled"} => g \in tracked[d] /\ goalRun[g] = r

TrackedOK(d, g) ==
  LET r == goalRun[g]
  IN  /\ goalRow[g] # "none"
      /\ r.job \in Job /\ r.slot \in Instant
      /\ lastRun[r.job] = r.slot /\ r.next > r.slot
      /\ runStatus[r.job][r.slot] \in Final => step[d] = "settled" /\ task[d].goal = g

SettledRunsLinked ==
  \A j \in Job, s \in Instant : runStatus[j][s] \in Final => runGoal[j][s] # NoGoal

RunsAreSeeded == \A j \in Job : nextRun[j] = 0 => lastRun[j] = 0

(* The inductive invariant of the proofs. It needs dispatches that do not  *)
(* outlive their claims (MayStall = FALSE).                                *)
IInv ==
  /\ TypeOK
  /\ SingleOwner
  /\ MarkersMatch
  /\ NextAfterLast
  /\ \A d \in Daemon : TaskOK(d) /\ \A g \in tracked[d] : TrackedOK(d, g)
  /\ SettledRunsLinked
  /\ RunsAreSeeded

(* The goal's end is on its way to the daemon that waits for it, or being  *)
(* handled by it; a cancelled goal ends without an event.                  *)
Awaited(d, g) ==
  \/ g \in active[d]
  \/ step[d] \in {"settling", "settled"} /\ task[d].goal = g
  \/ MayCancel /\ goalRow[g] = "ended"

GoalsAwaited == \A d \in Daemon : \A g \in tracked[d] : Awaited(d, g)

(* A job stays marked in flight for two reasons only: a daemon crashed, or *)
(* its goal was cancelled. Otherwise one daemon is about to wait for the   *)
(* goal of its run, or waits for one that is worked on.                    *)
MarkersAreServed ==
  \A j \in Job : inFlight[j] # 0 /\ crashes = 0 =>
    \E d \in Daemon :
      \/ step[d] = "marked" /\ task[d].run.job = j
      \/ \E g \in tracked[d] : goalRun[g].job = j /\ Awaited(d, g)

(* Where the goal of a run may be: served, or in the hands of the daemon   *)
(* that created it. A scheduler works on goals that exist.                 *)
GoalsAccounted ==
  /\ \A d \in Daemon : \A g \in active[d] : goalRow[g] # "none"
  /\ \A g \in Goal : goalRow[g] # "none" =>
       /\ goalRun[g].job \in Job
       /\ \/ crashes > 0
          \/ goalRun[g].slot <= lastRun[goalRun[g].job]
          \/ \E d \in Daemon : /\ step[d] \in {"created", "stocked", "linked"}
                                /\ task[d].goal = g

(* An instant of a job is executed once: without a crash no two goals are  *)
(* created for it, whichever daemons compete for the job.                  *)
OneGoalPerInstant ==
  crashes = 0 =>
    \A g, h \in Goal :
      /\ goalRow[g] # "none" /\ goalRow[h] # "none"
      /\ goalRun[g].job = goalRun[h].job /\ goalRun[g].slot = goalRun[h].slot
      => g = h

(* Rows of cron_job_runs only move forward: the goal of a run is linked    *)
(* once, and a run that succeeded or failed stays so.                      *)
RunRowsMoveForward ==
  [][\A j \in Job, s \in Instant :
       /\ runGoal[j][s] # NoGoal => runGoal'[j][s] = runGoal[j][s]
       /\ runStatus[j][s] \in Final => runStatus'[j][s] = runStatus[j][s]]_vars

Runs == INSTANCE JobRuns WITH open <- inFlight, last <- lastRun

(* The rows of cron_jobs implement runs that follow each other.            *)
ImplementsJobRuns == Runs!JobRunsSpec

(* Every instant a job is due for is served, by a run of its own or by a   *)
(* later run it is coalesced into: a job that is scheduled at all catches  *)
(* up with the clock, to less than its interval.                           *)
DueInstantsRun ==
  \A j \in Job, t \in Instant :
    j \in enabled \ Broken /\ nextRun[j] # 0 /\ now >= t ~> lastRun[j] + Every[j] > t

(* Not so: durable jobs execute after a restart of the daemon. The marker  *)
(* of a run that was in flight is cleared only by the process that set it, *)
(* and a marked job is never claimed. A cancelled goal leaves it as well.  *)
InFlightEnds == \A j \in Job : inFlight[j] # 0 ~> inFlight[j] = 0
=============================================================================
