------------------------- MODULE CronDispatchProofs -------------------------
(***************************************************************************)
(* Proofs about CronDispatch for every set of daemons and agents, every    *)
(* interval and any number of crashes, as long as no dispatch outlives the *)
(* claim it works under.                                                   *)
(***************************************************************************)
EXTENDS CronDispatch, TLAPS

(* Coalescing picks an instant between the next one and the clock.         *)
LEMMA ScheduledForBounds ==
  ASSUME NEW j \in Job, NEW t \in Nat, nextRun[j] \in Nat, nextRun[j] <= t
  PROVE  /\ ScheduledFor(j, t) \in Nat
         /\ nextRun[j] <= ScheduledFor(j, t)
         /\ ScheduledFor(j, t) <= t
<1> DEFINE n == nextRun[j]
           e == Every[j]
           q == (t - n) \div e
<1>1. n \in Nat /\ e \in Nat /\ e > 0 /\ t - n \in Nat
  BY ScheduleAssumption
<1>2. q \in Nat /\ q * e <= t - n /\ q * e \in Nat
  <2> HIDE DEF n, e
  <2> QED
    BY <1>1
<1> QED
  BY <1>1, <1>2 DEF ScheduledFor

(* A daemon that is not idle works on a run, for a job it owns.            *)
LEMMA BusyDaemon ==
  ASSUME IInv, NEW d \in Daemon, step[d] # "idle"
  PROVE  /\ task[d].run \in RunRef
         /\ task[d].run.job \in Job
         /\ task[d].run.slot \in Instant
         /\ task[d].run.next \in Nat
         /\ task[d].goal \in Goal \cup {NoGoal}
         /\ Owns(d, task[d].run.job)
         /\ step[d] \in {"settling", "settled"} =>
              task[d].goal \in tracked[d] /\ goalRun[task[d].goal] = task[d].run
<1>1. task[d].run \in RunRef /\ task[d].goal \in Goal \cup {NoGoal} /\ step[d] \in Step
  BY DEF IInv, TypeOK
<1>2. TaskOK(d)
  BY DEF IInv
<1>3. step[d] \in {"settling", "settled"} =>
              task[d].goal \in tracked[d] /\ goalRun[task[d].goal] = task[d].run
  BY <1>2 DEF TaskOK
<1>4. task[d].run.job \in Job /\ task[d].run.slot \in Instant /\ task[d].run.next \in Nat
  BY <1>1, <1>2 DEF TaskOK, RunRef
<1>5. Owns(d, task[d].run.job)
  BY <1>1, <1>3 DEF Owns, Dispatching, Tracking, Step
<1> QED
  BY <1>1, <1>3, <1>4, <1>5

(* A job that can be claimed is in nobody's hands.                         *)
LEMMA ClaimableIsFree ==
  ASSUME IInv, NEW j \in Job, Claimable(j)
  PROVE  \A d \in Daemon : ~Owns(d, j)
<1> SUFFICES ASSUME NEW d \in Daemon PROVE ~Owns(d, j)
  OBVIOUS
<1>1. ~Tracking(d, j)
  BY DEF IInv, TrackedOK, MarkersMatch, GoalMatches, Tracking, Claimable, Instant
<1>2. TaskOK(d) /\ TaskMatches(d)
  BY DEF IInv, MarkersMatch
<1>3. now \in Nat /\ claimExpires[j] \in Nat /\ inFlight[j] = 0 /\ claimExpires[j] <= now
  BY DEF IInv, TypeOK, Claimable, Instant
<1>4. ~Dispatching(d, j)
  BY <1>2, <1>3 DEF TaskOK, TaskMatches, Dispatching, Instant, Holding
<1> QED
  BY <1>1, <1>4 DEF Owns

(* What a statement of daemon d about job j leaves alone.                  *)
Frame(d, j) ==
  /\ now' = now /\ up' = up
  /\ \A k \in Job \ {j} : /\ lastRun'[k] = lastRun[k] /\ inFlight'[k] = inFlight[k]
                          /\ nextRun'[k] = nextRun[k] /\ claimExpires'[k] = claimExpires[k]
                          /\ runGoal'[k] = runGoal[k] /\ runStatus'[k] = runStatus[k]
  /\ \A e \in Daemon \ {d} : step'[e] = step[e] /\ task'[e] = task[e] /\ tracked'[e] = tracked[e]
  /\ \A g \in Goal : goalRow[g] # "none" => goalRow'[g] # "none" /\ goalRun'[g] = goalRun[g]
  /\ step[d] # "idle" => task[d].run.job = j

Alone(d, j) == \A e \in Daemon \ {d} : ~Owns(e, j)

(* What daemon d must see to of its own.                                   *)
OwnPart(d, j) ==
  /\ TaskOK(d)' /\ TaskMatches(d)'
  /\ \A g \in tracked'[d] : goalRun[g].job = j \/ g \notin tracked[d]
                            => TrackedOK(d, g)' /\ GoalMatches(g)'
  /\ \A k \in Job : Owns(d, k)' => Owns(d, k) \/ k = j
  /\ \A k \in Job : ~(Dispatching(d, k) /\ Tracking(d, k))'
  /\ inFlight'[j] = 0 /\ nextRun'[j] # 0 => nextRun'[j] > lastRun'[j]
  /\ \A s \in Instant : runStatus'[j][s] \in Final => runGoal'[j][s] # NoGoal
  /\ nextRun'[j] = 0 => lastRun'[j] = 0

(* The others do not notice.                                               *)
LEMMA OthersKeep ==
  ASSUME IInv, NEW d \in Daemon, NEW j \in Job, Frame(d, j), Alone(d, j),
         NEW e \in Daemon, e # d
  PROVE  /\ TaskOK(e)' /\ TaskMatches(e)'
         /\ \A g \in tracked'[e] : TrackedOK(e, g)' /\ GoalMatches(g)'
         /\ \A k \in Job : Owns(e, k)' <=> Owns(e, k)
         /\ \A k \in Job : ~(Dispatching(e, k) /\ Tracking(e, k))'
<1>1. TaskOK(e) /\ TaskMatches(e) /\ \A g \in tracked[e] : TrackedOK(e, g) /\ GoalMatches(g)
  BY DEF IInv, MarkersMatch
<1>2. step'[e] = step[e] /\ task'[e] = task[e] /\ tracked'[e] = tracked[e]
  BY DEF Frame
<1>3. \A g \in tracked[e] : g \in Goal /\ goalRun'[g] = goalRun[g] /\ goalRow'[g] # "none"
  BY <1>1 DEF Frame, IInv, TypeOK, TrackedOK
<1>4. \A g \in tracked[e] : goalRun[g].job \in Job \ {j}
  BY <1>1 DEF Alone, Owns, Tracking, TrackedOK
<1>5. step[e] # "idle" => task[e].run.job \in Job \ {j}
  BY BusyDaemon DEF Alone
<1>6. ASSUME NEW g \in tracked'[e] PROVE TrackedOK(e, g)' /\ GoalMatches(g)'
  <2>1. TrackedOK(e, g) /\ GoalMatches(g)
    BY <1>1, <1>2
  <2>2. goalRun'[g] = goalRun[g] /\ goalRun[g].job \in Job \ {j} /\ goalRow'[g] # "none"
    BY <1>2, <1>3, <1>4
  <2> QED
    BY <2>1, <2>2, <1>2 DEF TrackedOK, GoalMatches, Frame
<1>7. TaskMatches(e)'
  BY <1>1, <1>2, <1>5 DEF TaskMatches, Frame, Holding
<1>8. TaskOK(e)'
  BY <1>1, <1>2, <1>3, <1>5 DEF TaskOK, Frame, Holding
<1>9. \A k \in Job : (Dispatching(e, k)' <=> Dispatching(e, k)) /\ (Tracking(e, k)' <=> Tracking(e, k))
  BY <1>2, <1>3 DEF Dispatching, Tracking
<1>10. \A k \in Job : ~(Dispatching(e, k) /\ Tracking(e, k))
  BY DEF IInv, SingleOwner
<1> QED
  BY <1>6, <1>7, <1>8, <1>9, <1>10 DEF Owns

(* The goals a daemon tracks for its other jobs are not touched.           *)
LEMMA OtherGoalsKeep ==
  ASSUME IInv, NEW d \in Daemon, NEW j \in Job, Frame(d, j),
         NEW g \in tracked[d], goalRun[g].job # j
  PROVE  TrackedOK(d, g)' /\ GoalMatches(g)'
<1>1. TrackedOK(d, g) /\ GoalMatches(g) /\ g \in Goal
  BY DEF IInv, MarkersMatch, TypeOK
<1>2. goalRun'[g] = goalRun[g] /\ goalRow'[g] # "none" /\ goalRun[g].job \in Job \ {j}
  BY <1>1 DEF Frame, TrackedOK
<1>3. step[d] = "settled" => task[d].goal # g
  BY BusyDaemon DEF Frame
<1>4. runStatus[goalRun[g].job][goalRun[g].slot] \notin Final
  BY <1>1, <1>3 DEF TrackedOK
<1> QED
  BY <1>1, <1>2, <1>4 DEF TrackedOK, GoalMatches, Frame

(* So a statement keeps the invariant when it keeps the types and sees to  *)
(* its own part.                                                           *)
LEMMA StatementKeeps ==
  ASSUME IInv, NEW d \in Daemon, NEW j \in Job, Frame(d, j), Alone(d, j),
         TypeOK', OwnPart(d, j)
  PROVE  IInv'
<1>1. \A e \in Daemon \ {d} :
        /\ TaskOK(e)' /\ TaskMatches(e)'
        /\ \A g \in tracked'[e] : TrackedOK(e, g)' /\ GoalMatches(g)'
        /\ \A k \in Job : Owns(e, k)' <=> Owns(e, k)
        /\ \A k \in Job : ~(Dispatching(e, k) /\ Tracking(e, k))'
  BY OthersKeep
<1>2. TaskOK(d)' /\ TaskMatches(d)'
  BY DEF OwnPart
<1>3. \A g \in tracked'[d] : TrackedOK(d, g)' /\ GoalMatches(g)'
  BY OtherGoalsKeep DEF OwnPart
<1>4. SingleOwner'
  <2>1. ASSUME NEW k \in Job, NEW a \in Daemon PROVE ~(Dispatching(a, k) /\ Tracking(a, k))'
    BY <1>1 DEF OwnPart
  <2>2. ASSUME NEW k \in Job, NEW a \in Daemon, NEW b \in Daemon \ {a}
        PROVE  ~(Owns(a, k)' /\ Owns(b, k)')
    <3>1. ~(Owns(a, k) /\ Owns(b, k))
      BY DEF IInv, SingleOwner
    <3>2. a # d /\ b # d => ~(Owns(a, k)' /\ Owns(b, k)')
      BY <3>1, <1>1
    <3>3. a = d => ~(Owns(a, k)' /\ Owns(b, k)')
      BY <3>1, <1>1 DEF OwnPart, Alone
    <3>4. b = d => ~(Owns(a, k)' /\ Owns(b, k)')
      BY <3>1, <1>1 DEF OwnPart, Alone
    <3> QED
      BY <3>2, <3>3, <3>4
  <2> QED
    BY <2>1, <2>2 DEF SingleOwner
<1>5. MarkersMatch'
  BY <1>1, <1>2, <1>3 DEF MarkersMatch
<1>6. NextAfterLast'
  <2> SUFFICES ASSUME NEW k \in Job, inFlight'[k] = 0 /\ nextRun'[k] # 0
               PROVE  nextRun'[k] > lastRun'[k]
    BY DEF NextAfterLast
  <2>1. CASE k = j
    BY <2>1 DEF OwnPart
  <2>2. CASE k # j
    BY <2>2 DEF Frame, IInv, NextAfterLast
  <2> QED
    BY <2>1, <2>2
<1>7. SettledRunsLinked'
  BY DEF OwnPart, Frame, IInv, SettledRunsLinked
<1>8. \A e \in Daemon : TaskOK(e)' /\ \A g \in tracked'[e] : TrackedOK(e, g)'
  BY <1>1, <1>2, <1>3
<1>9. RunsAreSeeded'
  BY DEF OwnPart, Frame, IInv, RunsAreSeeded
<1> QED
  BY <1>4, <1>5, <1>6, <1>7, <1>8, <1>9 DEF IInv

---------------------------------------------------------------------------
(* Types *)

(* The initial state is typed.                                             *)
LEMMA TypeInit == Init => TypeOK
BY ScheduleAssumption
DEF Init, TypeOK, Instant, Goal, NoGoal, NoTask, NoRun, RunRef, RunStatus, Step

(* Every action keeps every variable in its type.                          *)
LEMMA TypeStep == IInv /\ [Next]_vars => TypeOK'
<1> SUFFICES ASSUME IInv, [Next]_vars PROVE TypeOK'
  OBVIOUS
<1> USE DEF jobVars, rowVars, memVars
<1>0. TypeOK
  BY DEF IInv
<1>1. CASE Tick
  <2>1. now' \in Instant
    BY <1>0, <1>1, ScheduleAssumption DEF TypeOK, Tick, Instant
  <2> QED
    BY <1>0, <1>1, <2>1 DEF TypeOK, Tick
<1>2. CASE \E j \in Job : Seed(j)
  BY <1>0, <1>2 DEF TypeOK, Seed, Instant
<1>3. ASSUME NEW d \in Daemon, Boot(d) PROVE TypeOK'
  BY <1>0, <1>3, ScheduleAssumption DEF TypeOK, Boot
<1>4. ASSUME NEW d \in Daemon, Crash(d) PROVE TypeOK'
  <2>1. NoTask \in [run : RunRef, goal : Goal \cup {NoGoal}]
    BY DEF NoTask, NoRun, RunRef
  <2> QED
    BY <1>0, <1>4, <2>1, ScheduleAssumption DEF TypeOK, Crash, Step
<1>5. ASSUME NEW d \in Daemon, NEW g \in Goal, CancelGoal(d, g) PROVE TypeOK'
  BY <1>0, <1>5 DEF TypeOK, CancelGoal
<1>6. ASSUME NEW d \in Daemon PROVE [task EXCEPT ![d] = NoTask]
                                      \in [Daemon -> [run : RunRef, goal : Goal \cup {NoGoal}]]
  BY <1>0 DEF TypeOK, NoTask, NoRun, RunRef
<1>7. ASSUME NEW d \in Daemon, NEW j \in Job, Claim(d, j) PROVE TypeOK'
  <2> DEFINE slot == ScheduledFor(j, now)
             next == IF j \in registry[d] \ Broken THEN After(j, slot) ELSE nextRun[j]
  <2>1. slot \in Nat
    BY <1>0, <1>7, ScheduledForBounds DEF TypeOK, Claim, Claimable, Instant
  <2>2. next \in Nat
    BY <1>0, <2>1, ScheduleAssumption DEF TypeOK, After
  <2>3. task' \in [Daemon -> [run : RunRef, goal : Goal \cup {NoGoal}]]
    BY <1>0, <1>7, <2>1, <2>2 DEF TypeOK, Claim, RunRef
  <2> QED
    BY <1>0, <1>7, <2>3, ScheduleAssumption DEF TypeOK, Claim, At, Proceed, Step, Holding, Instant
<1>8. ASSUME NEW d \in Daemon, Dispatch(d) PROVE TypeOK'
  <2> DEFINE r == task[d].run
             g == task[d].goal
  <2>1. step[d] # "idle"
    BY <1>8 DEF Dispatch, At, GetOrCreateRun, CreateGoal, CreateWorkItem, LinkRun,
             MarkInFlight, SubmitGoal, Skip, Release, SettleRun, SettleJob
  <2>2. r \in RunRef /\ r.job \in Job /\ r.slot \in Instant /\ r.next \in Nat
        /\ g \in Goal \cup {NoGoal}
    BY <2>1, BusyDaemon
  <2>3. step[d] \in {"created", "stocked", "linked", "marked"} => g \in Goal
    BY DEF IInv, TaskOK
  <2> HIDE DEF r, g
  <2>4. CASE GetOrCreateRun(d)
    BY <1>0, <2>2, <2>4 DEF r, TypeOK, GetOrCreateRun, NextStep, At, Proceed, Step, Holding, RunStatus
  <2>5. ASSUME NEW h \in Goal, CreateGoal(d, h) PROVE TypeOK'
    <3>1. task' \in [Daemon -> [run : RunRef, goal : Goal \cup {NoGoal}]]
      BY <1>0, <2>5 DEF TypeOK, CreateGoal
    <3> QED
      BY <1>0, <2>2, <2>5, <3>1 DEF r, TypeOK, CreateGoal, At, Proceed, Step, Holding
  <2>6. CASE CreateWorkItem(d)
    BY <1>0, <2>2, <2>6 DEF g, TypeOK, CreateWorkItem, At, Proceed, Step, Holding
  <2>7. CASE LinkRun(d)
    BY <1>0, <2>2, <2>7 DEF r, g, TypeOK, LinkRun, At, Proceed, Step, Holding
  <2>8. CASE MarkInFlight(d)
    BY <1>0, <2>2, <2>8 DEF r, TypeOK, MarkInFlight, At, Proceed, Step, Instant
  <2>9. CASE SubmitGoal(d)
    BY <1>0, <1>6, <2>2, <2>3, <2>9
    DEF r, g, TypeOK, SubmitGoal, At, Proceed, Finish, Step, RunStatus
  <2>10. CASE Skip(d)
    BY <1>0, <1>6, <2>2, <2>10
    DEF r, TypeOK, Skip, AfterOutcome, At, Proceed, Finish, Step
  <2>13. CASE Release(d)
    BY <1>0, <1>6, <2>2, <2>13
    DEF r, TypeOK, Release, AfterOutcome, At, Proceed, Finish, Step
  <2>11. CASE SettleRun(d)
    BY <1>0, <2>2, <2>11 DEF r, TypeOK, SettleRun, At, Proceed, Step, RunStatus
  <2>12. CASE SettleJob(d)
    BY <1>0, <1>6, <2>2, <2>12
    DEF r, TypeOK, SettleJob, AfterOutcome, At, Proceed, Finish, Step
  <2> QED
    BY <1>8, <2>4, <2>5, <2>6, <2>7, <2>8, <2>9, <2>10, <2>11, <2>12, <2>13 DEF Dispatch
<1>9. ASSUME NEW d \in Daemon, NEW g \in Goal, EndGoal(d, g) PROVE TypeOK'
  <2>1. goalRun[g] \in RunRef /\ task \in [Daemon -> [run : RunRef, goal : Goal \cup {NoGoal}]]
    BY <1>0 DEF TypeOK
  <2>2. task' \in [Daemon -> [run : RunRef, goal : Goal \cup {NoGoal}]]
    BY <1>9, <2>1 DEF EndGoal
  <2> QED
    BY <1>0, <1>9, <2>2 DEF TypeOK, EndGoal, At, Proceed, Step
<1>10. CASE UNCHANGED vars
  BY <1>0, <1>10 DEF TypeOK, vars
<1> QED
  BY <1>1, <1>2, <1>3, <1>4, <1>5, <1>7, <1>8, <1>9, <1>10 DEF Next

---------------------------------------------------------------------------
(* The invariant *)

(* A daemon that is not idle is alone with its job, and tracks no goal of  *)
(* that job but the one it is settling.                                    *)
LEMMA BusyDaemonIsAlone ==
  ASSUME IInv, NEW d \in Daemon, step[d] # "idle"
  PROVE  /\ Alone(d, task[d].run.job)
         /\ step[d] \in Holding \cup {"marked"} =>
              \A g \in tracked[d] : goalRun[g].job # task[d].run.job
         /\ \A g, h \in tracked[d] : goalRun[g].job = goalRun[h].job => g = h
<1>1. task[d].run.job \in Job /\ Owns(d, task[d].run.job)
  BY BusyDaemon
<1>2. Alone(d, task[d].run.job)
  BY <1>1 DEF IInv, SingleOwner, Alone
<1>3. ~(Dispatching(d, task[d].run.job) /\ Tracking(d, task[d].run.job))
  BY <1>1 DEF IInv, SingleOwner
<1>4. \A g, h \in tracked[d] : goalRun[g].job = goalRun[h].job => g = h
  BY DEF IInv, MarkersMatch, GoalMatches
<1> QED
  BY <1>2, <1>3, <1>4 DEF Dispatching, Tracking

(* The clock: no claim expires under a dispatch.                           *)
LEMMA TickKeeps ==
  ASSUME IInv, MayStall = FALSE, Tick, TypeOK' PROVE IInv'
<1> USE DEF Tick, jobVars, rowVars, memVars
<1>1. ASSUME NEW d \in Daemon PROVE TaskOK(d)'
  <2>1. TaskOK(d) /\ TypeOK
    BY DEF IInv
  <2>2. step[d] \in Holding => now' < claimExpires'[task'[d].run.job]
    BY DEF Tick
  <2>3. step[d] \in Holding => claimExpires'[task'[d].run.job] > now'
    BY <2>1, <2>2, BusyDaemon, ScheduleAssumption DEF TypeOK, Instant, Holding
  <2> QED
    BY <2>1, <2>3 DEF TaskOK
<1>2. \A d \in Daemon : \A g \in tracked'[d] : TrackedOK(d, g)'
  BY DEF IInv, TrackedOK
<1>3. SingleOwner' /\ MarkersMatch' /\ NextAfterLast' /\ SettledRunsLinked' /\ RunsAreSeeded'
  BY DEF IInv, RunsAreSeeded, SingleOwner, Owns, Dispatching, Tracking, MarkersMatch, TaskMatches, GoalMatches,
         NextAfterLast, SettledRunsLinked
<1> QED
  BY <1>1, <1>2, <1>3 DEF IInv

(* Seeds, cancellations and boots do not touch what the invariant is about.*)
LEMMA OutsideKeeps ==
  ASSUME IInv, TypeOK',
         \/ \E j \in Job : Seed(j)
         \/ \E d \in Daemon : Boot(d) \/ \E g \in Goal : CancelGoal(d, g)
  PROVE  IInv'
<1>1. /\ now' = now /\ lastRun' = lastRun /\ inFlight' = inFlight
      /\ claimExpires' = claimExpires /\ runStatus' = runStatus /\ runGoal' = runGoal
      /\ goalRun' = goalRun /\ up \subseteq up' /\ tracked' = tracked
      /\ step' = step /\ task' = task
      /\ \A g \in Goal : goalRow[g] # "none" => goalRow'[g] # "none"
  BY DEF Seed, Boot, CancelGoal, jobVars, rowVars, memVars, IInv, TypeOK
<1>2. ASSUME NEW d \in Daemon PROVE TaskOK(d)'
  <2>1. TaskOK(d) /\ TypeOK
    BY DEF IInv
  <2>2. nextRun' = nextRun \/ \E j \in Job : nextRun' = [nextRun EXCEPT ![j] = now]
    BY DEF Seed, Boot, CancelGoal, jobVars
  <2>3. step[d] \in Holding => nextRun'[task[d].run.job] # 0
    <3> SUFFICES ASSUME step[d] \in Holding PROVE nextRun'[task[d].run.job] # 0
      OBVIOUS
    <3>1. task[d].run.job \in Job /\ nextRun[task[d].run.job] # 0
      BY <2>1, BusyDaemon DEF TaskOK, Holding
    <3>2. nextRun \in [Job -> Nat] /\ now # 0
      BY <2>1 DEF TypeOK, Instant
    <3> QED
      BY <2>2, <3>1, <3>2
  <2>4. step[d] \in {"created", "stocked", "linked", "marked"} => goalRow'[task[d].goal] # "none"
    BY <1>1, <2>1 DEF TaskOK
  <2> QED
    BY <1>1, <2>1, <2>3, <2>4 DEF TaskOK
<1>3. \A d \in Daemon : \A g \in tracked'[d] : TrackedOK(d, g)'
  BY <1>1 DEF IInv, TypeOK, TrackedOK
<1>4. SingleOwner' /\ MarkersMatch' /\ SettledRunsLinked'
  BY <1>1 DEF IInv, SingleOwner, Owns, Dispatching, Tracking, MarkersMatch, TaskMatches,
              GoalMatches, SettledRunsLinked
<1>5. NextAfterLast' /\ RunsAreSeeded'
  <2>1. CASE nextRun' = nextRun
    BY <1>1, <2>1 DEF IInv, NextAfterLast, RunsAreSeeded
  <2>2. ASSUME NEW j \in Job, Seed(j) PROVE NextAfterLast' /\ RunsAreSeeded'
    BY <1>1, <2>2 DEF IInv, Seed, TypeOK, Instant, NextAfterLast, RunsAreSeeded
  <2> QED
    BY <2>1, <2>2 DEF Boot, CancelGoal, jobVars
<1> QED
  BY <1>2, <1>3, <1>4, <1>5 DEF IInv

(* A crash forgets what one daemon owned, and nothing else.                *)
LEMMA CrashKeeps ==
  ASSUME IInv, TypeOK', NEW d \in Daemon, Crash(d) PROVE IInv'
<1>1. /\ now' = now /\ UNCHANGED jobVars /\ UNCHANGED rowVars
      /\ step'[d] = "idle" /\ tracked'[d] = {}
      /\ \A e \in Daemon \ {d} : /\ step'[e] = step[e] /\ task'[e] = task[e]
                                /\ tracked'[e] = tracked[e] /\ (e \in up' <=> e \in up)
  BY DEF Crash, IInv, TypeOK
<1> USE DEF jobVars, rowVars
<1>2. TaskOK(d)' /\ TaskMatches(d)' /\ \A k \in Job : ~Owns(d, k)'
  BY <1>1 DEF TaskOK, TaskMatches, Owns, Dispatching, Tracking, Holding
<1>3. ASSUME NEW e \in Daemon \ {d}
      PROVE  /\ TaskOK(e)' /\ TaskMatches(e)'
             /\ \A g \in tracked'[e] : TrackedOK(e, g)' /\ GoalMatches(g)'
             /\ \A k \in Job : (Dispatching(e, k)' <=> Dispatching(e, k))
                             /\ (Tracking(e, k)' <=> Tracking(e, k))
  <2>1. TaskOK(e) /\ TaskMatches(e) /\ \A g \in tracked[e] : TrackedOK(e, g) /\ GoalMatches(g)
    BY DEF IInv, MarkersMatch
  <2>2. TaskOK(e)' /\ TaskMatches(e)'
    BY <1>1, <2>1 DEF TaskOK, TaskMatches
  <2> QED
    BY <1>1, <2>1, <2>2 DEF TrackedOK, GoalMatches, Dispatching, Tracking
<1>4. SingleOwner'
  BY <1>2, <1>3 DEF IInv, SingleOwner, Owns
<1>5. MarkersMatch' /\ \A e \in Daemon : TaskOK(e)' /\ \A g \in tracked'[e] : TrackedOK(e, g)'
  BY <1>1, <1>2, <1>3 DEF MarkersMatch
<1>6. NextAfterLast' /\ SettledRunsLinked' /\ RunsAreSeeded'
  BY <1>1 DEF IInv, NextAfterLast, SettledRunsLinked, RunsAreSeeded
<1> QED
  BY <1>4, <1>5, <1>6 DEF IInv

(* A claim is taken on a job nobody owns, for an instant later than its    *)
(* last run.                                                               *)
LEMMA ClaimKeeps ==
  ASSUME IInv, TypeOK', NEW d \in Daemon, NEW j \in Job, Claim(d, j) PROVE IInv'
<1> DEFINE slot == ScheduledFor(j, now)
           run == task'[d].run
<1>1. \A e \in Daemon : ~Owns(e, j)
  BY ClaimableIsFree DEF Claim
<1>2. /\ slot \in Instant /\ nextRun[j] \in Nat \ {0} /\ nextRun[j] <= slot
      /\ lastRun[j] \in Nat /\ nextRun[j] > lastRun[j] /\ now \in Nat /\ inFlight[j] = 0
  <2>1. nextRun[j] \in Nat \ {0} /\ nextRun[j] <= now /\ now \in Instant /\ lastRun[j] \in Nat
    BY DEF Claim, Claimable, IInv, TypeOK
  <2>2. nextRun[j] > lastRun[j] /\ inFlight[j] = 0
    BY <2>1 DEF Claim, Claimable, IInv, NextAfterLast
  <2> QED
    BY <2>1, <2>2, ScheduledForBounds, ScheduleAssumption DEF Instant
<1>3. After(j, slot) \in Nat /\ After(j, slot) > slot
  BY <1>2, ScheduleAssumption DEF After, Instant
<1>4. /\ run.job = j /\ run.slot = slot
      /\ step'[d] \in {"claimed", "releasing"}
      /\ step'[d] = "claimed" => run.next = After(j, slot)
      /\ step'[d] = "releasing" => run.next = nextRun[j]
      /\ step[d] = "idle" /\ d \in up
  <2> HIDE DEF slot
  <2>1. task'[d] = [run  |-> [job  |-> j,
                              slot |-> slot,
                              next |-> IF j \in registry[d] \ Broken THEN After(j, slot) ELSE nextRun[j]],
                    goal |-> NoGoal]
    BY DEF slot, Claim, IInv, TypeOK
  <2>2. step'[d] = IF j \in registry[d] \ Broken THEN "claimed" ELSE "releasing"
    BY DEF Claim, Proceed, IInv, TypeOK
  <2> QED
    BY <2>1, <2>2 DEF Claim, At
<1>5. Frame(d, j) /\ Alone(d, j)
  BY <1>1, <1>4 DEF Frame, Alone, Claim, At, Proceed, rowVars, memVars, IInv, TypeOK
<1>6. /\ now' = now /\ up' = up /\ tracked' = tracked /\ goalRun' = goalRun
      /\ runGoal' = runGoal /\ runStatus' = runStatus
      /\ nextRun' = nextRun /\ lastRun' = lastRun /\ inFlight' = inFlight
      /\ claimExpires'[j] > now
  BY <1>2, ScheduleAssumption DEF Claim, At, rowVars, memVars, IInv, TypeOK
<1>7. OwnPart(d, j)
  <2>1. TaskOK(d)' /\ TaskMatches(d)'
    <3> HIDE DEF slot, run
    <3>1. task'[d].run = run
      BY DEF run
    <3> QED
      BY <1>2, <1>3, <1>4, <1>6, <3>1 DEF TaskOK, TaskMatches, Holding, Instant
  <2>2. \A g \in tracked'[d] : goalRun[g].job # j /\ g \in tracked[d]
    BY <1>1, <1>6 DEF Owns, Tracking
  <2>3. \A k \in Job : Owns(d, k)' => Owns(d, k) \/ k = j
    BY <1>4, <1>6 DEF Owns, Dispatching, Tracking
  <2>4. \A k \in Job : ~(Dispatching(d, k) /\ Tracking(d, k))'
    BY <1>1, <1>4, <1>6 DEF Owns, Dispatching, Tracking
  <2>5. \A s \in Instant : runStatus'[j][s] \in Final => runGoal'[j][s] # NoGoal
    BY <1>6 DEF IInv, SettledRunsLinked
  <2> QED
    BY <2>1, <2>2, <2>3, <2>4, <2>5, <1>2, <1>6 DEF OwnPart
<1> QED
  BY <1>5, <1>7, StatementKeeps

(* A dispatch that goes on with its run, or gives it up, takes nothing     *)
(* into its hands.                                                         *)
LEMMA StaysOnJob ==
  ASSUME IInv, TypeOK', NEW d \in Daemon, step[d] \in Holding \cup {"marked"},
         tracked'[d] = tracked[d],
         \A g \in Goal : goalRow[g] # "none" => goalRun'[g] = goalRun[g],
         \/ step'[d] = "idle"
         \/ step'[d] \in Holding \cup {"marked"} /\ task'[d].run = task[d].run
  PROVE  /\ \A g \in tracked'[d] : g \in tracked[d] /\ goalRun[g].job # task[d].run.job
         /\ \A k \in Job : Owns(d, k)' => Owns(d, k)
         /\ \A k \in Job : ~(Dispatching(d, k) /\ Tracking(d, k))'
<1>1. \A g \in tracked[d] : goalRun[g].job # task[d].run.job
  BY BusyDaemonIsAlone DEF Holding
<1>2. \A g \in tracked[d] : goalRun'[g] = goalRun[g]
  BY DEF IInv, TypeOK, TrackedOK
<1>3. \A k \in Job : Tracking(d, k)' <=> Tracking(d, k)
  BY <1>2 DEF Tracking
<1>4. \A k \in Job : Dispatching(d, k)' => Dispatching(d, k)
  BY DEF Dispatching, Holding
<1>5. \A k \in Job : ~(Dispatching(d, k) /\ Tracking(d, k))
  BY DEF IInv, SingleOwner
<1> QED
  BY <1>1, <1>3, <1>4, <1>5 DEF Owns

(* The run row is made sure of: a row found with a goal is skipped.        *)
LEMMA GetOrCreateRunKeeps ==
  ASSUME IInv, TypeOK', NEW d \in Daemon, GetOrCreateRun(d) PROVE IInv'
<1> DEFINE r == task[d].run
<1>1. /\ step[d] = "claimed" /\ d \in up /\ r.job \in Job /\ r.slot \in Instant
      /\ TaskOK(d) /\ TaskMatches(d)
  BY BusyDaemon DEF GetOrCreateRun, At, IInv, MarkersMatch
<1>2. /\ now' = now /\ up' = up /\ UNCHANGED jobVars
      /\ runGoal' = runGoal /\ goalRow' = goalRow /\ goalRun' = goalRun
      /\ tracked' = tracked /\ task' = task
  BY DEF GetOrCreateRun, At, memVars
<1> USE DEF jobVars
<1>3. /\ step'[d] = NextStep(runGoal[r.job][r.slot])
      /\ \A e \in Daemon \ {d} : step'[e] = step[e]
  BY DEF GetOrCreateRun, Proceed, IInv, TypeOK
<1>4. /\ \A k \in Job \ {r.job} : runStatus'[k] = runStatus[k]
      /\ \A s \in Instant : runStatus'[r.job][s] \in Final => runStatus[r.job][s] \in Final
  BY <1>1 DEF GetOrCreateRun, IInv, TypeOK, Final
<1>5. Frame(d, r.job) /\ Alone(d, r.job)
  BY <1>1, <1>2, <1>3, <1>4, BusyDaemonIsAlone DEF Frame
<1>6. OwnPart(d, r.job)
  <2>1. TaskOK(d)' /\ TaskMatches(d)'
    BY <1>1, <1>2, <1>3 DEF TaskOK, TaskMatches, NextStep, Holding
  <2>2. /\ \A g \in tracked'[d] : g \in tracked[d] /\ goalRun[g].job # r.job
        /\ \A k \in Job : Owns(d, k)' => Owns(d, k)
        /\ \A k \in Job : ~(Dispatching(d, k) /\ Tracking(d, k))'
    BY <1>1, <1>2, <1>3, StaysOnJob DEF NextStep, Holding
  <2>3. \A s \in Instant : runStatus'[r.job][s] \in Final => runGoal'[r.job][s] # NoGoal
    BY <1>1, <1>2, <1>4 DEF IInv, SettledRunsLinked
  <2> QED
    BY <2>1, <2>2, <2>3, <1>1, <1>2 DEF OwnPart, IInv, NextAfterLast, RunsAreSeeded
<1> QED
  BY <1>1, <1>5, <1>6, StatementKeeps

(* The dispatch is given up: the job is free, and due later than its last  *)
(* run.                                                                    *)
LEMMA GiveUpKeeps ==
  ASSUME IInv, TypeOK', NEW d \in Daemon, Skip(d) \/ Release(d) PROVE IInv'
<1> DEFINE r == task[d].run
<1>1. /\ step[d] \in {"skipping", "releasing"} /\ d \in up
      /\ r.job \in Job /\ r.slot \in Instant /\ r.next \in Nat
      /\ TaskOK(d) /\ TaskMatches(d)
  BY BusyDaemon DEF Skip, Release, At, IInv, MarkersMatch
<1>2. /\ now' = now /\ up' = up /\ lastRun' = lastRun
      /\ runGoal' = runGoal /\ goalRow' = goalRow /\ goalRun' = goalRun
      /\ tracked' = tracked /\ runStatus' = runStatus
      /\ nextRun' = [nextRun EXCEPT ![r.job] = r.next]
      /\ inFlight' = [inFlight EXCEPT ![r.job] = 0]
      /\ claimExpires' = [claimExpires EXCEPT ![r.job] = 0]
      /\ step' = [step EXCEPT ![d] = "idle"]
      /\ task' = [task EXCEPT ![d] = NoTask]
  BY DEF Skip, Release, AfterOutcome, Finish, Proceed, At, memVars, rowVars
<1> HIDE DEF r
<1>3. /\ step'[d] = "idle" /\ nextRun'[r.job] = r.next /\ inFlight'[r.job] = 0
      /\ \A e \in Daemon \ {d} : step'[e] = step[e] /\ task'[e] = task[e]
      /\ \A k \in Job \ {r.job} : /\ nextRun'[k] = nextRun[k] /\ inFlight'[k] = inFlight[k]
                                /\ claimExpires'[k] = claimExpires[k]
  BY <1>1, <1>2 DEF IInv, TypeOK
<1>4. Frame(d, r.job) /\ Alone(d, r.job)
  BY <1>1, <1>2, <1>3, BusyDaemonIsAlone DEF r, Frame
<1>5. OwnPart(d, r.job)
  <2>1. TaskOK(d)' /\ TaskMatches(d)'
    BY <1>1, <1>2, <1>3 DEF TaskOK, TaskMatches, Holding
  <2>2. /\ \A g \in tracked'[d] : g \in tracked[d] /\ goalRun[g].job # r.job
        /\ \A k \in Job : Owns(d, k)' => Owns(d, k)
        /\ \A k \in Job : ~(Dispatching(d, k) /\ Tracking(d, k))'
    BY <1>1, <1>2, <1>3, StaysOnJob DEF r, Holding
  <2>3. \A s \in Instant : runStatus'[r.job][s] \in Final => runGoal'[r.job][s] # NoGoal
    BY <1>1, <1>2 DEF IInv, SettledRunsLinked
  <2>4. r.next > lastRun'[r.job] /\ lastRun'[r.job] \in Nat
    BY <1>1, <1>2 DEF r, TaskOK, Holding, IInv, TypeOK
  <2> QED
    BY <2>1, <2>2, <2>3, <2>4, <1>1, <1>2, <1>3 DEF OwnPart
<1> QED
  BY <1>1, <1>4, <1>5, StatementKeeps

(* A new goal is nobody's yet.                                             *)
LEMMA CreateGoalKeeps ==
  ASSUME IInv, TypeOK', NEW d \in Daemon, NEW g \in Goal, CreateGoal(d, g) PROVE IInv'
<1> DEFINE r == task[d].run
<1>1. /\ step[d] = "creating" /\ d \in up /\ r.job \in Job /\ r.slot \in Instant
      /\ TaskOK(d) /\ TaskMatches(d) /\ goalRow[g] = "none"
  BY BusyDaemon DEF CreateGoal, At, IInv, MarkersMatch
<1>2. /\ now' = now /\ up' = up /\ UNCHANGED jobVars
      /\ runGoal' = runGoal /\ runStatus' = runStatus /\ tracked' = tracked
  BY DEF CreateGoal, At, memVars
<1> USE DEF jobVars
<1>3. /\ step'[d] = "created" /\ task'[d].run = r /\ task'[d].goal = g
      /\ goalRow'[g] # "none" /\ goalRun'[g] = r
      /\ \A h \in Goal \ {g} : goalRow'[h] = goalRow[h] /\ goalRun'[h] = goalRun[h]
      /\ \A e \in Daemon \ {d} : step'[e] = step[e] /\ task'[e] = task[e]
  BY DEF CreateGoal, Proceed, IInv, TypeOK
<1> HIDE DEF r
<1>4. Frame(d, r.job) /\ Alone(d, r.job)
  BY <1>1, <1>2, <1>3, BusyDaemonIsAlone DEF r, Frame
<1>5. OwnPart(d, r.job)
  <2>1. TaskOK(d)' /\ TaskMatches(d)'
    BY <1>1, <1>2, <1>3 DEF r, TaskOK, TaskMatches, Holding
  <2>2. /\ \A h \in tracked'[d] : h \in tracked[d] /\ goalRun[h].job # r.job
        /\ \A k \in Job : Owns(d, k)' => Owns(d, k)
        /\ \A k \in Job : ~(Dispatching(d, k) /\ Tracking(d, k))'
    BY <1>1, <1>2, <1>3, StaysOnJob DEF r, Holding
  <2> QED
    BY <2>1, <2>2, <1>1, <1>2 DEF OwnPart, IInv, NextAfterLast, RunsAreSeeded, SettledRunsLinked
<1> QED
  BY <1>1, <1>4, <1>5, StatementKeeps

(* Its work item is stored with it.                                        *)
LEMMA CreateWorkItemKeeps ==
  ASSUME IInv, TypeOK', NEW d \in Daemon, CreateWorkItem(d) PROVE IInv'
<1> DEFINE r == task[d].run
<1>1. /\ step[d] = "created" /\ d \in up /\ r.job \in Job /\ r.slot \in Instant
      /\ TaskOK(d) /\ TaskMatches(d)
  BY BusyDaemon DEF CreateWorkItem, At, IInv, MarkersMatch
<1>2. /\ now' = now /\ up' = up /\ UNCHANGED jobVars
      /\ runGoal' = runGoal /\ runStatus' = runStatus /\ tracked' = tracked
      /\ goalRun' = goalRun /\ task' = task
  BY DEF CreateWorkItem, At, memVars
<1> USE DEF jobVars
<1>3. /\ step'[d] = "stocked"
      /\ \A h \in Goal : goalRow[h] # "none" => goalRow'[h] # "none"
      /\ \A e \in Daemon \ {d} : step'[e] = step[e]
  BY DEF CreateWorkItem, Proceed, IInv, TypeOK
<1> HIDE DEF r
<1>4. Frame(d, r.job) /\ Alone(d, r.job)
  BY <1>1, <1>2, <1>3, BusyDaemonIsAlone DEF r, Frame
<1>5. OwnPart(d, r.job)
  <2>1. TaskOK(d)' /\ TaskMatches(d)'
    BY <1>1, <1>2, <1>3 DEF r, TaskOK, TaskMatches, Holding
  <2>2. /\ \A h \in tracked'[d] : h \in tracked[d] /\ goalRun[h].job # r.job
        /\ \A k \in Job : Owns(d, k)' => Owns(d, k)
        /\ \A k \in Job : ~(Dispatching(d, k) /\ Tracking(d, k))'
    BY <1>1, <1>2, <1>3, StaysOnJob DEF r, Holding
  <2> QED
    BY <2>1, <2>2, <1>1, <1>2 DEF OwnPart, IInv, NextAfterLast, RunsAreSeeded, SettledRunsLinked
<1> QED
  BY <1>1, <1>4, <1>5, StatementKeeps

(* The run is linked to its goal: it had none before.                      *)
LEMMA LinkRunKeeps ==
  ASSUME IInv, TypeOK', NEW d \in Daemon, LinkRun(d) PROVE IInv'
<1> DEFINE r == task[d].run
           g == task[d].goal
<1>1. /\ step[d] = "stocked" /\ d \in up /\ r.job \in Job /\ r.slot \in Instant
      /\ g \in Goal /\ runGoal[r.job][r.slot] = NoGoal
      /\ TaskOK(d) /\ TaskMatches(d)
  BY BusyDaemon DEF LinkRun, At, IInv, MarkersMatch, TaskOK
<1>2. /\ now' = now /\ up' = up /\ UNCHANGED jobVars
      /\ runStatus' = runStatus /\ goalRow' = goalRow /\ goalRun' = goalRun
      /\ tracked' = tracked /\ task' = task
  BY DEF LinkRun, At, memVars
<1> USE DEF jobVars
<1>3. /\ step'[d] = "linked" /\ \A e \in Daemon \ {d} : step'[e] = step[e]
      /\ runGoal'[r.job][r.slot] = g
      /\ \A k \in Job \ {r.job} : runGoal'[k] = runGoal[k]
      /\ \A s \in Instant \ {r.slot} : runGoal'[r.job][s] = runGoal[r.job][s]
  BY <1>1 DEF LinkRun, Proceed, IInv, TypeOK
<1> HIDE DEF r, g
<1>4. runStatus[r.job][r.slot] \notin Final
  BY <1>1 DEF IInv, SettledRunsLinked
<1>5. Frame(d, r.job) /\ Alone(d, r.job)
  BY <1>1, <1>2, <1>3, BusyDaemonIsAlone DEF r, Frame
<1>6. OwnPart(d, r.job)
  <2>1. TaskOK(d)' /\ TaskMatches(d)'
    BY <1>1, <1>2, <1>3, <1>4 DEF r, g, TaskOK, TaskMatches, Holding
  <2>2. /\ \A h \in tracked'[d] : h \in tracked[d] /\ goalRun[h].job # r.job
        /\ \A k \in Job : Owns(d, k)' => Owns(d, k)
        /\ \A k \in Job : ~(Dispatching(d, k) /\ Tracking(d, k))'
    BY <1>1, <1>2, <1>3, StaysOnJob DEF r, Holding
  <2>3. \A s \in Instant : runStatus'[r.job][s] \in Final => runGoal'[r.job][s] # NoGoal
    BY <1>1, <1>2, <1>3, <1>4 DEF IInv, SettledRunsLinked
  <2> QED
    BY <2>1, <2>2, <2>3, <1>1, <1>2 DEF OwnPart, IInv, NextAfterLast, RunsAreSeeded
<1> QED
  BY <1>1, <1>5, <1>6, StatementKeeps

(* The marker takes over from the claim.                                   *)
LEMMA MarkInFlightKeeps ==
  ASSUME IInv, TypeOK', NEW d \in Daemon, MarkInFlight(d) PROVE IInv'
<1> DEFINE r == task[d].run
<1>1. /\ step[d] = "linked" /\ d \in up /\ r.job \in Job /\ r.slot \in Instant
      /\ TaskOK(d) /\ TaskMatches(d)
  BY BusyDaemon DEF MarkInFlight, At, IInv, MarkersMatch
<1>2. /\ now' = now /\ up' = up /\ nextRun' = nextRun
      /\ runStatus' = runStatus /\ runGoal' = runGoal
      /\ goalRow' = goalRow /\ goalRun' = goalRun
      /\ tracked' = tracked /\ task' = task
  BY DEF MarkInFlight, At, memVars, rowVars
<1>3. /\ step'[d] = "marked" /\ \A e \in Daemon \ {d} : step'[e] = step[e]
      /\ inFlight'[r.job] = r.slot /\ lastRun'[r.job] = r.slot
      /\ \A k \in Job \ {r.job} : /\ inFlight'[k] = inFlight[k] /\ lastRun'[k] = lastRun[k]
                                /\ claimExpires'[k] = claimExpires[k]
  BY <1>1 DEF MarkInFlight, Proceed, IInv, TypeOK
<1> HIDE DEF r
<1>4. Frame(d, r.job) /\ Alone(d, r.job)
  BY <1>1, <1>2, <1>3, BusyDaemonIsAlone DEF r, Frame
<1>5. OwnPart(d, r.job)
  <2>1. TaskOK(d)' /\ TaskMatches(d)'
    BY <1>1, <1>2, <1>3 DEF r, TaskOK, TaskMatches, Holding
  <2>2. /\ \A h \in tracked'[d] : h \in tracked[d] /\ goalRun[h].job # r.job
        /\ \A k \in Job : Owns(d, k)' => Owns(d, k)
        /\ \A k \in Job : ~(Dispatching(d, k) /\ Tracking(d, k))'
    BY <1>1, <1>2, <1>3, StaysOnJob DEF r, Holding
  <2>3. r.slot # 0 /\ nextRun[r.job] # 0
    BY <1>1 DEF r, TaskOK, Holding, Instant
  <2> QED
    BY <2>1, <2>2, <2>3, <1>1, <1>2, <1>3 DEF OwnPart, IInv, SettledRunsLinked
<1> QED
  BY <1>1, <1>4, <1>5, StatementKeeps

(* The goal of the run takes the job over from its dispatch.               *)
LEMMA SubmitGoalKeeps ==
  ASSUME IInv, TypeOK', NEW d \in Daemon, SubmitGoal(d) PROVE IInv'
<1> DEFINE r == task[d].run
           g == task[d].goal
<1>1. /\ step[d] = "marked" /\ d \in up /\ r.job \in Job /\ r.slot \in Instant
      /\ g \in Goal /\ goalRun[g] = r /\ goalRow[g] # "none" /\ runGoal[r.job][r.slot] = g
      /\ lastRun[r.job] = r.slot /\ r.next > r.slot /\ inFlight[r.job] = r.slot
      /\ Owns(d, r.job)
  BY BusyDaemon DEF SubmitGoal, At, IInv, MarkersMatch, TaskOK, TaskMatches
<1>2. /\ now' = now /\ up' = up /\ UNCHANGED jobVars
      /\ runGoal' = runGoal /\ goalRow' = goalRow /\ goalRun' = goalRun
  BY DEF SubmitGoal, At
<1> USE DEF jobVars
<1>3. /\ step'[d] = "idle" /\ tracked'[d] = tracked[d] \cup {g}
      /\ \A e \in Daemon \ {d} : step'[e] = step[e] /\ task'[e] = task[e] /\ tracked'[e] = tracked[e]
      /\ runStatus'[r.job][r.slot] = "submitted"
      /\ \A k \in Job \ {r.job} : runStatus'[k] = runStatus[k]
      /\ \A s \in Instant \ {r.slot} : runStatus'[r.job][s] = runStatus[r.job][s]
  <2>1. TypeOK /\ runStatus' = [runStatus EXCEPT ![r.job][r.slot] = "submitted"]
    BY DEF SubmitGoal, IInv
  <2>2. /\ runStatus'[r.job][r.slot] = "submitted"
        /\ \A k \in Job \ {r.job} : runStatus'[k] = runStatus[k]
        /\ \A s \in Instant \ {r.slot} : runStatus'[r.job][s] = runStatus[r.job][s]
    <3> HIDE DEF r
    <3> QED BY <1>1, <2>1 DEF TypeOK
  <2>3. /\ step'[d] = "idle" /\ tracked'[d] = tracked[d] \cup {g}
        /\ \A e \in Daemon \ {d} : step'[e] = step[e] /\ task'[e] = task[e] /\ tracked'[e] = tracked[e]
    BY <1>1, <2>1 DEF SubmitGoal, Finish, Proceed, TypeOK
  <2> QED BY <2>2, <2>3
<1> HIDE DEF r, g
<1>4. Frame(d, r.job) /\ Alone(d, r.job)
  BY <1>1, <1>2, <1>3, BusyDaemonIsAlone DEF r, Frame
<1>5. OwnPart(d, r.job)
  <2>1. TaskOK(d)' /\ TaskMatches(d)'
    BY <1>1, <1>2, <1>3 DEF TaskOK, TaskMatches, Holding
  <2>2. \A h \in Goal : h = g => TrackedOK(d, h)' /\ GoalMatches(h)'
    BY <1>1, <1>2, <1>3 DEF TrackedOK, GoalMatches, Final
  <2>3. \A h \in tracked[d] : goalRun[h].job # r.job
    BY <1>1, BusyDaemonIsAlone DEF r, Holding
  <2>4. \A h \in tracked'[d] : goalRun[h].job = r.job \/ h \notin tracked[d] => h = g
    BY <2>3, <1>3
  <2>5. \A k \in Job : Owns(d, k)' => Owns(d, k) \/ k = r.job
    BY <1>1, <1>2, <1>3 DEF Owns, Dispatching, Tracking, Holding
  <2>6. \A k \in Job : ~(Dispatching(d, k) /\ Tracking(d, k))'
    BY <1>3 DEF Dispatching, Holding
  <2>7. \A s \in Instant : runStatus'[r.job][s] \in Final => runGoal'[r.job][s] # NoGoal
    BY <1>1, <1>2, <1>3 DEF IInv, SettledRunsLinked, Final
  <2> QED
    BY <2>1, <2>2, <2>4, <2>5, <2>6, <2>7, <1>1, <1>2
    DEF OwnPart, IInv, NextAfterLast, RunsAreSeeded
<1> QED
  BY <1>1, <1>4, <1>5, StatementKeeps

(* A goal that ends while the daemon tracks it is settled next; one it     *)
(* does not know changes nothing.                                          *)
LEMMA EndGoalKeeps ==
  ASSUME IInv, TypeOK', NEW d \in Daemon, NEW g \in Goal, EndGoal(d, g) PROVE IInv'
<1> DEFINE r == goalRun[g]
<1>1. /\ now' = now /\ up' = up /\ UNCHANGED jobVars
      /\ runGoal' = runGoal /\ runStatus' = runStatus /\ goalRun' = goalRun /\ tracked' = tracked
      /\ step[d] = "idle" /\ d \in up
      /\ \A h \in Goal : goalRow[h] # "none" => goalRow'[h] # "none"
  BY DEF EndGoal, At, IInv, TypeOK
<1> USE DEF jobVars
<1>2. CASE g \in tracked[d]
  <2>1. /\ step'[d] = "settling" /\ task'[d].run = r /\ task'[d].goal = g
        /\ \A e \in Daemon \ {d} : step'[e] = step[e] /\ task'[e] = task[e]
    <3>1. task'[d] = [run |-> r, goal |-> g]
      BY <1>2 DEF EndGoal, IInv, TypeOK
    <3> QED
      BY <1>2, <3>1 DEF EndGoal, Proceed, IInv, TypeOK
  <2>2. /\ r.job \in Job /\ r.slot \in Instant /\ lastRun[r.job] = r.slot /\ r.next > r.slot
        /\ inFlight[r.job] = r.slot /\ runGoal[r.job][r.slot] = g /\ goalRow[g] # "none"
        /\ runStatus[r.job][r.slot] \notin Final
        /\ Tracking(d, r.job)
    BY <1>1, <1>2 DEF IInv, MarkersMatch, GoalMatches, TrackedOK, Tracking
  <2> HIDE DEF r
  <2>3. Frame(d, r.job) /\ Alone(d, r.job)
    BY <1>1, <2>1, <2>2 DEF Frame, Alone, Owns, IInv, SingleOwner
  <2>4. OwnPart(d, r.job)
    <3>1. TaskOK(d)' /\ TaskMatches(d)'
      BY <1>1, <1>2, <2>1, <2>2 DEF r, TaskOK, TaskMatches, Holding
    <3>2. \A h \in tracked[d] : TrackedOK(d, h) /\ GoalMatches(h) /\ goalRow'[h] # "none"
      BY <1>1 DEF IInv, MarkersMatch, TrackedOK, TypeOK
    <3>3. \A h \in tracked'[d] : TrackedOK(d, h)' /\ GoalMatches(h)'
      BY <3>2, <1>1 DEF TrackedOK, GoalMatches
    <3>4. \A k \in Job : ~Dispatching(d, k)' /\ (Tracking(d, k)' <=> Tracking(d, k))
      BY <1>1, <2>1 DEF Dispatching, Tracking, Holding
    <3> QED
      BY <3>1, <3>3, <3>4, <1>1, <2>2 DEF OwnPart, Owns, IInv, NextAfterLast, RunsAreSeeded, SettledRunsLinked
  <2> QED
    BY <2>2, <2>3, <2>4, StatementKeeps
<1>3. CASE g \notin tracked[d]
  <2>1. step' = step /\ task' = task
    BY <1>3 DEF EndGoal
  <2>2. ASSUME NEW e \in Daemon
        PROVE  TaskOK(e)' /\ TaskMatches(e)' /\ \A h \in tracked'[e] : TrackedOK(e, h)' /\ GoalMatches(h)'
    <3>1. TaskOK(e) /\ TaskMatches(e) /\ \A h \in tracked[e] : TrackedOK(e, h) /\ GoalMatches(h) /\ h \in Goal
      BY DEF IInv, MarkersMatch, TypeOK
    <3>2. TaskOK(e)' /\ TaskMatches(e)'
      BY <3>1, <1>1, <2>1 DEF TaskOK, TaskMatches
    <3> QED
      BY <3>1, <3>2, <1>1, <2>1 DEF TrackedOK, GoalMatches
  <2>3. SingleOwner' /\ NextAfterLast' /\ SettledRunsLinked' /\ RunsAreSeeded'
    BY <1>1, <2>1 DEF IInv, SingleOwner, Owns, Dispatching, Tracking, NextAfterLast,
                      SettledRunsLinked, RunsAreSeeded
  <2> QED
    BY <2>2, <2>3 DEF IInv, MarkersMatch
<1> QED
  BY <1>2, <1>3

(* The run is settled first ...                                            *)
LEMMA SettleRunKeeps ==
  ASSUME IInv, TypeOK', NEW d \in Daemon, SettleRun(d) PROVE IInv'
<1> DEFINE r == task[d].run
           g == task[d].goal
<1>1. /\ step[d] = "settling" /\ d \in up /\ r.job \in Job /\ r.slot \in Instant
      /\ g \in tracked[d] /\ g \in Goal /\ goalRun[g] = r
      /\ runGoal[r.job][r.slot] = g /\ g # NoGoal
      /\ TaskOK(d) /\ TaskMatches(d) /\ TrackedOK(d, g) /\ GoalMatches(g)
      /\ \A h \in tracked[d] : goalRun[h].job = r.job => h = g
  <2>1. /\ step[d] = "settling" /\ d \in up /\ TaskOK(d) /\ TaskMatches(d)
    BY DEF SettleRun, At, IInv, MarkersMatch
  <2>2. /\ r.job \in Job /\ r.slot \in Instant /\ g \in tracked[d] /\ goalRun[g] = r
    BY <2>1, BusyDaemon
  <2>3. TrackedOK(d, g) /\ GoalMatches(g) /\ g \in Goal
    BY <2>2 DEF IInv, MarkersMatch, TypeOK
  <2>4. \A h \in tracked[d] : goalRun[h].job = r.job => h = g
    BY <2>1, <2>2, BusyDaemonIsAlone
  <2> QED
    BY <2>1, <2>2, <2>3, <2>4 DEF GoalMatches, Goal, NoGoal
<1>2. /\ now' = now /\ up' = up /\ UNCHANGED jobVars
      /\ runGoal' = runGoal /\ goalRow' = goalRow /\ goalRun' = goalRun
      /\ tracked' = tracked /\ task' = task
  BY DEF SettleRun, At, memVars
<1> USE DEF jobVars
<1>3. /\ step'[d] = "settled" /\ \A e \in Daemon \ {d} : step'[e] = step[e]
      /\ \A k \in Job \ {r.job} : runStatus'[k] = runStatus[k]
      /\ \A s \in Instant \ {r.slot} : runStatus'[r.job][s] = runStatus[r.job][s]
  <2>1. TypeOK
    BY DEF IInv
  <2>2. step' = [step EXCEPT ![d] = "settled"]
    BY DEF SettleRun, Proceed
  <2>3. /\ \A k \in Job \ {r.job} : runStatus'[k] = runStatus[k]
        /\ \A s \in Instant \ {r.slot} : runStatus'[r.job][s] = runStatus[r.job][s]
    <3>1. PICK status \in Final : runStatus' = [runStatus EXCEPT ![r.job][r.slot] = status]
      BY DEF SettleRun
    <3> HIDE DEF r
    <3> QED BY <1>1, <2>1, <3>1 DEF TypeOK
  <2> QED BY <2>1, <2>2, <2>3 DEF TypeOK
<1> HIDE DEF r, g
<1>4. Frame(d, r.job) /\ Alone(d, r.job)
  BY <1>1, <1>2, <1>3, BusyDaemonIsAlone DEF r, Frame
<1>5. OwnPart(d, r.job)
  <2>1. TaskOK(d)' /\ TaskMatches(d)'
    BY <1>1, <1>2, <1>3 DEF r, g, TaskOK, TaskMatches, Holding
  <2>2. \A h \in Goal : h = g => TrackedOK(d, h)' /\ GoalMatches(h)'
    BY <1>1, <1>2, <1>3 DEF g, TrackedOK, GoalMatches
  <2>3. \A k \in Job : ~Dispatching(d, k)' /\ (Tracking(d, k)' <=> Tracking(d, k))
    BY <1>2, <1>3 DEF Dispatching, Tracking, Holding
  <2>4. \A s \in Instant : runStatus'[r.job][s] \in Final => runGoal'[r.job][s] # NoGoal
    BY <1>1, <1>2, <1>3 DEF IInv, SettledRunsLinked
  <2> QED
    BY <2>1, <2>2, <2>3, <2>4, <1>1, <1>2 DEF OwnPart, Owns, IInv, NextAfterLast, RunsAreSeeded
<1> QED
  BY <1>1, <1>4, <1>5, StatementKeeps

(* ... and the job freed then, to be due after the run that has ended.     *)
LEMMA SettleJobKeeps ==
  ASSUME IInv, TypeOK', NEW d \in Daemon, SettleJob(d) PROVE IInv'
<1> DEFINE r == task[d].run
           g == task[d].goal
<1>1. /\ step[d] = "settled" /\ d \in up /\ r.job \in Job /\ r.slot \in Instant /\ r.next \in Nat
      /\ g \in tracked[d] /\ goalRun[g] = r
      /\ lastRun[r.job] = r.slot /\ r.next > r.slot
      /\ \A h \in tracked[d] : goalRun[h].job = r.job => h = g
  BY BusyDaemon, BusyDaemonIsAlone DEF SettleJob, At, IInv, TrackedOK
<1>2. /\ now' = now /\ up' = up /\ lastRun' = lastRun
      /\ runGoal' = runGoal /\ goalRow' = goalRow /\ goalRun' = goalRun /\ runStatus' = runStatus
      /\ nextRun' = [nextRun EXCEPT ![r.job] = r.next]
      /\ inFlight' = [inFlight EXCEPT ![r.job] = 0]
      /\ claimExpires' = [claimExpires EXCEPT ![r.job] = 0]
      /\ step' = [step EXCEPT ![d] = "idle"]
      /\ task' = [task EXCEPT ![d] = NoTask]
      /\ tracked' = [tracked EXCEPT ![d] = @ \ {g}]
  BY DEF SettleJob, AfterOutcome, Finish, Proceed, At, rowVars
<1> HIDE DEF r, g
<1>3. /\ step'[d] = "idle" /\ nextRun'[r.job] = r.next /\ tracked'[d] = tracked[d] \ {g}
      /\ \A e \in Daemon \ {d} : step'[e] = step[e] /\ task'[e] = task[e] /\ tracked'[e] = tracked[e]
      /\ \A k \in Job \ {r.job} : /\ nextRun'[k] = nextRun[k] /\ inFlight'[k] = inFlight[k]
                                /\ claimExpires'[k] = claimExpires[k]
  BY <1>1, <1>2 DEF IInv, TypeOK
<1>4. Frame(d, r.job) /\ Alone(d, r.job)
  BY <1>1, <1>2, <1>3, BusyDaemonIsAlone DEF r, Frame
<1>5. OwnPart(d, r.job)
  <2>1. TaskOK(d)' /\ TaskMatches(d)'
    BY <1>1, <1>2, <1>3 DEF TaskOK, TaskMatches, Holding
  <2>2. \A h \in tracked'[d] : h \in tracked[d] /\ goalRun[h].job # r.job
    BY <1>1, <1>3
  <2>3. \A k \in Job : ~Dispatching(d, k)' /\ (Tracking(d, k)' => Tracking(d, k))
    BY <1>2, <1>3 DEF Dispatching, Tracking, Holding
  <2>4. r.next # 0 /\ r.next > lastRun[r.job]
    BY <1>1 DEF Instant
  <2>5. \A s \in Instant : runStatus'[r.job][s] \in Final => runGoal'[r.job][s] # NoGoal
    BY <1>1, <1>2 DEF IInv, SettledRunsLinked
  <2> QED
    BY <2>1, <2>2, <2>3, <2>4, <2>5, <1>2, <1>3 DEF OwnPart, Owns
<1> QED
  BY <1>1, <1>4, <1>5, StatementKeeps

(* Before the first boot nobody works on anything.                         *)
LEMMA InitIInv == Init => IInv
<1> SUFFICES ASSUME Init PROVE IInv
  OBVIOUS
<1>1. \A d \in Daemon : step[d] = "idle" /\ tracked[d] = {}
  BY DEF Init
<1>2. SingleOwner /\ MarkersMatch
  BY <1>1 DEF SingleOwner, MarkersMatch, TaskMatches, Owns, Dispatching, Tracking, Holding
<1>3. \A d \in Daemon : TaskOK(d) /\ \A g \in tracked[d] : TrackedOK(d, g)
  BY <1>1 DEF TaskOK, Holding
<1>4. NextAfterLast /\ SettledRunsLinked /\ RunsAreSeeded
  BY DEF Init, NextAfterLast, SettledRunsLinked, RunsAreSeeded, Final
<1> QED
  BY <1>2, <1>3, <1>4, TypeInit DEF IInv

(* Every step keeps the invariant, if no dispatch outlives its claim.      *)
LEMMA StepKeeps == ASSUME MayStall = FALSE PROVE IInv /\ [Next]_vars => IInv'
<1> SUFFICES ASSUME IInv, [Next]_vars PROVE IInv'
  OBVIOUS
<1>1. TypeOK'
  BY TypeStep
<1>2. CASE Tick
  BY <1>1, <1>2, TickKeeps
<1>3. CASE \/ \E j \in Job : Seed(j)
           \/ \E d \in Daemon : Boot(d) \/ \E g \in Goal : CancelGoal(d, g)
  BY <1>1, <1>3, OutsideKeeps
<1>4. ASSUME NEW d \in Daemon, Crash(d) PROVE IInv'
  BY <1>1, <1>4, CrashKeeps
<1>5. ASSUME NEW d \in Daemon, NEW j \in Job, Claim(d, j) PROVE IInv'
  BY <1>1, <1>5, ClaimKeeps
<1>6. ASSUME NEW d \in Daemon, NEW g \in Goal, EndGoal(d, g) PROVE IInv'
  BY <1>1, <1>6, EndGoalKeeps
<1>7. ASSUME NEW d \in Daemon, Dispatch(d) PROVE IInv'
  BY <1>1, <1>7, GetOrCreateRunKeeps, CreateGoalKeeps, CreateWorkItemKeeps, LinkRunKeeps,
     MarkInFlightKeeps, SubmitGoalKeeps, GiveUpKeeps, SettleRunKeeps, SettleJobKeeps
  DEF Dispatch
<1>8. CASE UNCHANGED vars
  <2> USE <1>8 DEF vars, jobVars, rowVars, memVars
  <2>1. SingleOwner'
    BY DEF IInv, SingleOwner, Owns, Dispatching, Tracking
  <2>2. MarkersMatch'
    BY DEF IInv, MarkersMatch, TaskMatches, GoalMatches, Owns, Dispatching, Tracking
  <2>3. \A d \in Daemon : TaskOK(d)' /\ \A g \in tracked'[d] : TrackedOK(d, g)'
    BY DEF IInv, TaskOK, TrackedOK
  <2>4. (NextAfterLast /\ SettledRunsLinked /\ RunsAreSeeded)'
    BY DEF IInv, NextAfterLast, SettledRunsLinked, RunsAreSeeded
  <2> QED BY <1>1, <2>1, <2>2, <2>3, <2>4 DEF IInv
<1> QED
  BY <1>2, <1>3, <1>4, <1>5, <1>6, <1>7, <1>8 DEF Next

---------------------------------------------------------------------------
(* Theorems *)

(* IInv holds throughout: it is inductive.                                 *)
THEOREM InvariantHolds == ASSUME MayStall = FALSE PROVE Spec => []IInv
BY InitIInv, StepKeeps, PTL DEF Spec

(* No job is ever in two pairs of hands (the claim of claimDueCronJobs and *)
(* the in-flight marker exclude all daemons but one).                      *)
THEOREM OneOwner == ASSUME MayStall = FALSE PROVE Spec => []SingleOwner
<1>1. IInv => SingleOwner
  BY DEF IInv
<1> QED
  BY <1>1, InvariantHolds, PTL

(* The marker of a job is the run its owner remembers, so clearing it      *)
(* without a condition clears nobody else's.                               *)
THEOREM MarkersAreTheOwners == ASSUME MayStall = FALSE PROVE Spec => []MarkersMatch
<1>1. IInv => MarkersMatch
  BY DEF IInv
<1> QED
  BY <1>1, InvariantHolds, PTL

(* A free job is next due after its last run.                              *)
THEOREM ScheduleMovesOn == ASSUME MayStall = FALSE PROVE Spec => []NextAfterLast
<1>1. IInv => NextAfterLast
  BY DEF IInv
<1> QED
  BY <1>1, InvariantHolds, PTL

(* A statement writes the row of its own run only.                         *)
LEMMA RunRowsStep ==
  IInv /\ [Next]_vars =>
    \A j \in Job, s \in Instant :
       /\ runGoal[j][s] # NoGoal => runGoal'[j][s] = runGoal[j][s]
       /\ runStatus[j][s] \in Final => runStatus'[j][s] = runStatus[j][s]
<1> SUFFICES ASSUME IInv, [Next]_vars, NEW j \in Job, NEW s \in Instant
             PROVE  /\ runGoal[j][s] # NoGoal => runGoal'[j][s] = runGoal[j][s]
                    /\ runStatus[j][s] \in Final => runStatus'[j][s] = runStatus[j][s]
  OBVIOUS
<1>1. TypeOK /\ \A d \in Daemon : TaskOK(d) /\ \A g \in tracked[d] : TrackedOK(d, g)
  BY DEF IInv
<1>3. ASSUME NEW d \in Daemon, GetOrCreateRun(d)
      PROVE  runGoal' = runGoal /\ (runStatus[j][s] \in Final => runStatus'[j][s] = runStatus[j][s])
  <2> DEFINE r == task[d].run
             new == IF runStatus[r.job][r.slot] = "none" THEN "claimed"
                    ELSE runStatus[r.job][r.slot]
  <2>1. runGoal' = runGoal /\ runStatus' = [runStatus EXCEPT ![r.job][r.slot] = new]
    BY <1>3 DEF GetOrCreateRun
  <2>2. runStatus \in [Job -> [Instant -> RunStatus]]
    BY <1>1 DEF TypeOK
  <2>3. runStatus[r.job][r.slot] \in Final => new = runStatus[r.job][r.slot]
    BY DEF Final
  <2> HIDE DEF r, new
  <2> QED BY <2>1, <2>2, <2>3
<1>4. ASSUME NEW d \in Daemon, LinkRun(d)
      PROVE  runStatus' = runStatus /\ (runGoal[j][s] # NoGoal => runGoal'[j][s] = runGoal[j][s])
  <2>1. runGoal[task[d].run.job][task[d].run.slot] = NoGoal
    BY <1>1, <1>4 DEF LinkRun, At, TaskOK
  <2> QED
    BY <1>1, <1>4, <2>1 DEF LinkRun, TypeOK
<1>5. ASSUME NEW d \in Daemon, SubmitGoal(d)
      PROVE  runGoal' = runGoal /\ (runStatus[j][s] \in Final => runStatus'[j][s] = runStatus[j][s])
  <2>1. runStatus[task[d].run.job][task[d].run.slot] \notin Final
    BY <1>1, <1>5 DEF SubmitGoal, At, TaskOK
  <2> QED
    BY <1>1, <1>5, <2>1 DEF SubmitGoal, TypeOK
<1>6. ASSUME NEW d \in Daemon, SettleRun(d)
      PROVE  runGoal' = runGoal /\ (runStatus[j][s] \in Final => runStatus'[j][s] = runStatus[j][s])
  <2>1. runStatus[task[d].run.job][task[d].run.slot] \notin Final
    BY <1>1, <1>6, BusyDaemon DEF SettleRun, At, TrackedOK
  <2> QED
    BY <1>1, <1>6, <2>1 DEF SettleRun, TypeOK
<1>7. CASE \/ Tick \/ UNCHANGED vars \/ \E k \in Job : Seed(k)
           \/ \E d \in Daemon : \/ Boot(d) \/ Crash(d) \/ \E k \in Job : Claim(d, k)
                               \/ \E g \in Goal : EndGoal(d, g) \/ CancelGoal(d, g)
  <2>1. UNCHANGED <<runGoal, runStatus>>
    BY <1>7 DEF Tick, Seed, Boot, Crash, Claim, EndGoal, CancelGoal, vars, rowVars
  <2> QED
    BY <2>1
<1>8. ASSUME NEW d \in Daemon,
             \/ Release(d) \/ Skip(d) \/ CreateWorkItem(d) \/ \E g \in Goal : CreateGoal(d, g)
             \/ MarkInFlight(d) \/ SettleJob(d)
      PROVE  UNCHANGED <<runGoal, runStatus>>
  BY <1>8 DEF Release, Skip, CreateGoal, CreateWorkItem, MarkInFlight, SettleJob, rowVars
<1>9. ASSUME NEW d \in Daemon, Dispatch(d)
      PROVE  /\ runGoal[j][s] # NoGoal => runGoal'[j][s] = runGoal[j][s]
             /\ runStatus[j][s] \in Final => runStatus'[j][s] = runStatus[j][s]
  BY <1>3, <1>4, <1>5, <1>6, <1>8, <1>9 DEF Dispatch
<1> QED
  BY <1>7, <1>9 DEF Next

(* The link of a run and its outcome are final.                            *)
THEOREM RunRowsAreFinal == ASSUME MayStall = FALSE PROVE Spec => RunRowsMoveForward
<1>1. IInv /\ [Next]_vars =>
        [\A j \in Job, s \in Instant :
           /\ runGoal[j][s] # NoGoal => runGoal'[j][s] = runGoal[j][s]
           /\ runStatus[j][s] \in Final => runStatus'[j][s] = runStatus[j][s]]_vars
  BY RunRowsStep
<1> QED
  BY <1>1, InvariantHolds, PTL DEF Spec, RunRowsMoveForward

(* Marking a job starts a run, settling it ends the run, and every other   *)
(* write of a cron_jobs row leaves the runs as they are.                   *)
LEMMA RunsStep == IInv /\ [Next]_vars => [Runs!JNext]_<<inFlight, lastRun>>
<1> SUFFICES ASSUME IInv, [Next]_vars PROVE Runs!JNext \/ UNCHANGED <<inFlight, lastRun>>
  OBVIOUS
<1>1. TypeOK /\ \A d \in Daemon : TaskOK(d) /\ TaskMatches(d)
  BY DEF IInv, MarkersMatch
<1>2. ASSUME NEW d \in Daemon, MarkInFlight(d) PROVE Runs!JNext
  <2> DEFINE r == task[d].run
  <2>1. /\ r.job \in Job /\ r.slot \in Instant /\ inFlight[r.job] = 0 /\ r.slot > lastRun[r.job]
    BY <1>1, <1>2 DEF MarkInFlight, At, TaskOK, TaskMatches, Holding
  <2>2. Runs!Start(r.job, r.slot)
    BY <1>2, <2>1 DEF MarkInFlight, Runs!Start
  <2> QED
    BY <2>1, <2>2 DEF Runs!JNext
<1>3. ASSUME NEW d \in Daemon, Skip(d) \/ Release(d) PROVE UNCHANGED <<inFlight, lastRun>>
  <2>1. inFlight[task[d].run.job] = 0
    BY <1>1, <1>3 DEF Skip, Release, At, TaskMatches, Holding
  <2> QED
    BY <1>1, <1>3, <2>1 DEF Skip, Release, AfterOutcome, TypeOK
<1>4. ASSUME NEW d \in Daemon, SettleJob(d) PROVE Runs!JNext
  <2> DEFINE j == task[d].run.job
  <2>1. task[d].goal \in tracked[d] /\ goalRun[task[d].goal] = task[d].run /\ j \in Job
        /\ task[d].run.slot \in Instant
    BY <1>4, BusyDaemon DEF SettleJob, At
  <2>2. inFlight[j] # 0
    BY <2>1 DEF IInv, MarkersMatch, GoalMatches, Instant
  <2>3. Runs!Settle(j)
    BY <1>4, <2>2 DEF SettleJob, AfterOutcome, Runs!Settle
  <2> QED
    BY <2>1, <2>3 DEF Runs!JNext
<1>5. CASE \/ Tick \/ UNCHANGED vars \/ \E j \in Job : Seed(j)
           \/ \E d \in Daemon : \/ Boot(d) \/ Crash(d) \/ \E j \in Job : Claim(d, j)
                               \/ \E g \in Goal : EndGoal(d, g) \/ CancelGoal(d, g)
  <2>1. UNCHANGED <<inFlight, lastRun>>
    BY <1>5 DEF Tick, Seed, Boot, Crash, Claim, EndGoal, CancelGoal, vars, jobVars
  <2> QED
    BY <2>1
<1>6. ASSUME NEW d \in Daemon,
             \/ GetOrCreateRun(d) \/ CreateWorkItem(d) \/ \E g \in Goal : CreateGoal(d, g)
             \/ LinkRun(d) \/ SubmitGoal(d) \/ SettleRun(d)
      PROVE  UNCHANGED <<inFlight, lastRun>>
  BY <1>6 DEF GetOrCreateRun, CreateGoal, CreateWorkItem, LinkRun, SubmitGoal, SettleRun, jobVars
<1>7. ASSUME NEW d \in Daemon, Dispatch(d) PROVE Runs!JNext \/ UNCHANGED <<inFlight, lastRun>>
  BY <1>2, <1>3, <1>4, <1>6, <1>7 DEF Dispatch
<1> QED
  BY <1>5, <1>7 DEF Next

(* The rows of cron_jobs implement runs that follow each other.            *)
THEOREM RunsFollowEachOther == ASSUME MayStall = FALSE PROVE Spec => ImplementsJobRuns
<1>1. Init => Runs!JInit
  BY DEF Init, Runs!JInit
<1>2. IInv /\ [Next]_vars => [Runs!JNext]_<<inFlight, lastRun>>
  BY RunsStep
<1> QED
  BY <1>1, <1>2, InvariantHolds, PTL DEF Spec, ImplementsJobRuns, Runs!JobRunsSpec

---------------------------------------------------------------------------
(* Nothing is lost without a crash *)

(* What every step leaves of a goal's row, and of the daemons' counts.     *)
LEMMA GoalRowsStay ==
  ASSUME IInv, [Next]_vars, NEW g \in Goal, goalRow[g] # "none"
  PROVE  /\ goalRow'[g] # "none" /\ goalRun'[g] = goalRun[g]
         /\ goalRow[g] = "ended" => goalRow'[g] = "ended"
<1>1. TypeOK
  BY DEF IInv
<1>2. CASE \/ Tick \/ UNCHANGED vars \/ \E j \in Job : Seed(j)
           \/ \E d \in Daemon : \/ Boot(d) \/ Crash(d) \/ \E j \in Job : Claim(d, j)
  BY <1>2 DEF Tick, vars, Seed, Boot, Crash, Claim, rowVars
<1>3. ASSUME NEW d \in Daemon, NEW h \in Goal, EndGoal(d, h) \/ CancelGoal(d, h)
      PROVE  goalRow' = [goalRow EXCEPT ![h] = "ended"] /\ goalRun' = goalRun
  BY <1>3 DEF EndGoal, CancelGoal
<1>4. ASSUME NEW d \in Daemon, NEW h \in Goal, CreateGoal(d, h)
      PROVE  g # h /\ goalRow'[g] = goalRow[g] /\ goalRun'[g] = goalRun[g]
  BY <1>1, <1>4 DEF CreateGoal, TypeOK
<1>5. ASSUME NEW d \in Daemon, CreateWorkItem(d)
      PROVE  /\ \/ goalRow'[g] = goalRow[g]
                \/ goalRow[g] = "bare" /\ goalRow'[g] = "queued"
             /\ goalRun' = goalRun
  BY <1>1, <1>5 DEF CreateWorkItem, TypeOK
<1>6. ASSUME NEW d \in Daemon,
             \/ GetOrCreateRun(d) \/ LinkRun(d) \/ MarkInFlight(d) \/ SubmitGoal(d)
             \/ Skip(d) \/ Release(d) \/ SettleRun(d) \/ SettleJob(d)
      PROVE  goalRow' = goalRow /\ goalRun' = goalRun
  BY <1>6 DEF GetOrCreateRun, LinkRun, MarkInFlight, SubmitGoal, Skip, Release, SettleRun,
              SettleJob, rowVars
<1>7. goalRow[g] \in {"bare", "queued", "ended"}
  BY <1>1 DEF TypeOK
<1>8. ASSUME NEW d \in Daemon, NEW h \in Goal, EndGoal(d, h) \/ CancelGoal(d, h)
      PROVE  goalRow'[g] \in {goalRow[g], "ended"} /\ goalRun' = goalRun
  BY <1>1, <1>3, <1>8 DEF TypeOK
<1> QED
  BY <1>2, <1>4, <1>5, <1>6, <1>7, <1>8 DEF Next, Dispatch

(* The steps of a daemon, and what they leave alone of another's memory.   *)
StepOf(e) ==
  \/ Boot(e) \/ Crash(e) \/ Dispatch(e)
  \/ \E j \in Job : Claim(e, j)
  \/ \E g \in Goal : EndGoal(e, g) \/ CancelGoal(e, g)

(* A daemon writes no memory but its own.                                  *)
LEMMA OthersStay ==
  ASSUME TypeOK, NEW e \in Daemon, StepOf(e), NEW d \in Daemon, d # e
  PROVE  /\ step'[d] = step[d] /\ task'[d] = task[d]
         /\ tracked'[d] = tracked[d] /\ active'[d] = active[d]
<1>1. CASE Boot(e) \/ Crash(e)
  BY <1>1 DEF Boot, Crash, TypeOK
<1>2. ASSUME NEW j \in Job, Claim(e, j)
      PROVE  /\ step'[d] = step[d] /\ task'[d] = task[d]
             /\ tracked'[d] = tracked[d] /\ active'[d] = active[d]
  <2>1. /\ \E s : step' = [step EXCEPT ![e] = s]
        /\ \E t : task' = [task EXCEPT ![e] = t]
        /\ tracked' = tracked /\ active' = active
    BY <1>2 DEF Claim, Proceed, memVars
  <2> QED
    BY <2>1 DEF TypeOK
<1>3. ASSUME NEW g \in Goal, EndGoal(e, g) \/ CancelGoal(e, g)
      PROVE  /\ step'[d] = step[d] /\ task'[d] = task[d]
             /\ tracked'[d] = tracked[d] /\ active'[d] = active[d]
  BY <1>3 DEF EndGoal, CancelGoal, Proceed, TypeOK
<1>4. CASE Dispatch(e)
  <2>1. /\ \E s : step' = [step EXCEPT ![e] = s]
        /\ task' = task \/ \E t : task' = [task EXCEPT ![e] = t]
    BY <1>4 DEF Dispatch, GetOrCreateRun, CreateGoal, CreateWorkItem, LinkRun, MarkInFlight,
                SubmitGoal, Skip, Release, SettleRun, SettleJob, Proceed, Finish
  <2>2. /\ tracked' = tracked \/ \E t : tracked' = [tracked EXCEPT ![e] = t]
        /\ active' = active \/ \E a : active' = [active EXCEPT ![e] = a]
    BY <1>4 DEF Dispatch, GetOrCreateRun, CreateGoal, CreateWorkItem, LinkRun, MarkInFlight,
                SubmitGoal, Skip, Release, SettleRun, SettleJob, memVars
  <2> QED
    BY <2>1, <2>2 DEF TypeOK
<1> QED
  BY <1>1, <1>2, <1>3, <1>4 DEF StepOf

(* A step is a daemon's, or leaves the daemons' memory alone.              *)
LEMMA WhoseStep ==
  ASSUME [Next]_vars
  PROVE  \/ \E e \in Daemon : StepOf(e)
         \/ UNCHANGED <<inFlight, lastRun, rowVars, memVars, step, task, crashes>>
BY DEF Next, StepOf, Tick, Seed, vars, jobVars

(* Crashes are counted.                                                    *)
LEMMA CrashesCounted ==
  ASSUME TypeOK, [Next]_vars
  PROVE  crashes' = 0 => crashes = 0 /\ \A d \in Daemon : ~Crash(d)
<1>1. crashes \in Nat
  BY ScheduleAssumption DEF TypeOK
<1>2. ASSUME NEW d \in Daemon, Crash(d) PROVE crashes' # 0
  BY <1>1, <1>2 DEF Crash
<1>3. CASE \/ Tick \/ UNCHANGED vars \/ \E j \in Job : Seed(j)
           \/ \E d \in Daemon : \/ Boot(d) \/ \E j \in Job : Claim(d, j)
                               \/ \E g \in Goal : EndGoal(d, g) \/ CancelGoal(d, g)
  BY <1>2, <1>3 DEF Tick, vars, Seed, Boot, Claim, EndGoal, CancelGoal, At
<1>4. ASSUME NEW d \in Daemon, Dispatch(d) PROVE crashes' = crashes
  BY <1>4 DEF Dispatch, GetOrCreateRun, CreateGoal, CreateWorkItem, LinkRun, MarkInFlight,
              SubmitGoal, Skip, Release, SettleRun, SettleJob, At
<1> QED
  BY <1>2, <1>3, <1>4 DEF Next

(* A goal that a daemon waits for ends at that daemon, unless cancelled.   *)
LEMMA AwaitedStep ==
  ASSUME IInv, GoalsAwaited, [Next]_vars
  PROVE  GoalsAwaited'
<1> SUFFICES ASSUME NEW d \in Daemon, NEW g \in tracked'[d] PROVE Awaited(d, g)'
  BY DEF GoalsAwaited
<1>0. TypeOK /\ TypeOK'
  BY TypeStep DEF IInv
<1>1. g \in Goal
  BY <1>0 DEF TypeOK
<1> DEFINE Settling == step[d] \in {"settling", "settled"} /\ task[d].goal = g
<1>2. ASSUME g \in tracked[d],
             g \in active[d] => g \in active'[d],
             Settling => step'[d] \in {"settling", "settled"} /\ task'[d].goal = g
      PROVE  Awaited(d, g)'
  <2>1. Awaited(d, g) /\ goalRow[g] # "none"
    BY <1>2 DEF GoalsAwaited, IInv, TrackedOK
  <2>2. goalRow[g] = "ended" => goalRow'[g] = "ended"
    BY <1>1, <2>1, GoalRowsStay
  <2> QED
    BY <1>2, <2>1, <2>2 DEF Awaited
<1>3. CASE UNCHANGED <<inFlight, lastRun, rowVars, memVars, step, task, crashes>>
  BY <1>2, <1>3 DEF memVars
<1>4. ASSUME NEW e \in Daemon, StepOf(e), e # d PROVE Awaited(d, g)'
  <2>1. /\ step'[d] = step[d] /\ task'[d] = task[d]
        /\ tracked'[d] = tracked[d] /\ active'[d] = active[d]
    BY <1>0, <1>4, OthersStay
  <2> QED
    BY <1>2, <2>1
<1>5. ASSUME StepOf(d) PROVE Awaited(d, g)'
  <2>1. CASE Boot(d)
    BY <1>0, <2>1 DEF Boot, IInv, TaskOK
  <2>2. CASE Crash(d)
    BY <1>0, <2>2 DEF Crash, TypeOK
  <2>3. ASSUME NEW j \in Job, Claim(d, j) PROVE Awaited(d, g)'
    BY <1>2, <2>3 DEF Claim, At, memVars
  <2>4. ASSUME NEW h \in Goal, EndGoal(d, h) PROVE Awaited(d, g)'
    <3>1. /\ step[d] = "idle" /\ tracked' = tracked
          /\ active' = [active EXCEPT ![d] = @ \ {h}]
          /\ h \in tracked[d] => /\ step' = [step EXCEPT ![d] = "settling"]
                                 /\ task' = [task EXCEPT ![d] = [run |-> goalRun[h], goal |-> h]]
      BY <2>4 DEF EndGoal, At, Proceed
    <3>2. CASE g = h
      BY <1>0, <3>1, <3>2 DEF Awaited, TypeOK
    <3>3. CASE g # h
      BY <1>0, <1>2, <3>1, <3>3 DEF TypeOK
    <3> QED
      BY <3>2, <3>3
  <2>5. ASSUME NEW h \in Goal, CancelGoal(d, h) PROVE Awaited(d, g)'
    <3>1. /\ MayCancel /\ step[d] = "idle" /\ tracked' = tracked
          /\ active' = [active EXCEPT ![d] = @ \ {h}]
          /\ goalRow' = [goalRow EXCEPT ![h] = "ended"]
      BY <2>5 DEF CancelGoal
    <3>2. CASE g = h
      BY <1>0, <1>1, <3>1, <3>2 DEF Awaited, TypeOK
    <3>3. CASE g # h
      BY <1>0, <1>2, <3>1, <3>3 DEF TypeOK
    <3> QED
      BY <3>2, <3>3
  <2>6. ASSUME \/ GetOrCreateRun(d) \/ \E h \in Goal : CreateGoal(d, h)
               \/ CreateWorkItem(d) \/ LinkRun(d) \/ MarkInFlight(d) \/ Skip(d) \/ Release(d)
        PROVE  Awaited(d, g)'
    <3>1. /\ step[d] \notin {"settling", "settled"}
          /\ tracked' = tracked /\ active' = active
      BY <2>6 DEF GetOrCreateRun, CreateGoal, CreateWorkItem, LinkRun, MarkInFlight, Skip,
                  Release, At, memVars
    <3> QED
      BY <1>2, <3>1
  <2>7. CASE SubmitGoal(d)
    <3>1. /\ step[d] = "marked"
          /\ tracked'[d] = tracked[d] \cup {task[d].goal}
          /\ active'[d] = active[d] \cup {task[d].goal}
      BY <1>0, <2>7 DEF SubmitGoal, At, TypeOK
    <3>2. CASE g = task[d].goal
      BY <3>1, <3>2 DEF Awaited
    <3>3. CASE g # task[d].goal
      BY <1>2, <3>1, <3>3
    <3> QED
      BY <3>2, <3>3
  <2>8. CASE SettleRun(d)
    BY <1>0, <1>2, <2>8 DEF SettleRun, Proceed, memVars, TypeOK
  <2>9. CASE SettleJob(d)
    <3>1. active' = active /\ tracked'[d] = tracked[d] \ {task[d].goal}
      BY <1>0, <2>9 DEF SettleJob, TypeOK
    <3> QED
      BY <1>2, <3>1
  <2> QED
    BY <1>5, <2>1, <2>2, <2>3, <2>4, <2>5, <2>6, <2>7, <2>8, <2>9 DEF StepOf, Dispatch
<1> QED
  BY <1>3, <1>4, <1>5, WhoseStep

(* A marked job passes from the hands that mark it to the hands that wait  *)
(* for its goal, and is free when those let it go.                         *)
LEMMA ServedStep ==
  ASSUME IInv, GoalsAwaited, MarkersAreServed, [Next]_vars
  PROVE  MarkersAreServed'
<1>0. TypeOK /\ TypeOK' /\ GoalsAwaited'
  BY TypeStep, AwaitedStep DEF IInv
<1> SUFFICES ASSUME NEW j \in Job, inFlight'[j] # 0, crashes' = 0
             PROVE  \E d \in Daemon : \/ step'[d] = "marked" /\ task'[d].run.job = j
                                      \/ \E g \in tracked'[d] : goalRun'[g].job = j
  BY <1>0 DEF MarkersAreServed, GoalsAwaited
<1> DEFINE Held(d) == \/ step'[d] = "marked" /\ task'[d].run.job = j
                      \/ \E g \in tracked'[d] : goalRun'[g].job = j
<1>1. \A d \in Daemon : \A g \in tracked[d] : g \in Goal /\ goalRun'[g] = goalRun[g]
  BY <1>0, GoalRowsStay DEF IInv, TrackedOK, TypeOK
<1>2. crashes = 0 /\ \A d \in Daemon : ~Crash(d)
  BY CrashesCounted DEF IInv
<1>3. ASSUME NEW d \in Daemon, MarkInFlight(d), task[d].run.job = j PROVE Held(d)
  BY <1>0, <1>3 DEF MarkInFlight, Proceed, TypeOK
<1>4. ASSUME inFlight[j] = 0 PROVE \E d \in Daemon : Held(d)
  <2>1. CASE UNCHANGED <<inFlight, lastRun, rowVars, memVars, step, task, crashes>>
    BY <1>4, <2>1
  <2>2. ASSUME NEW d \in Daemon, StepOf(d) PROVE Held(d)
    <3>1. \/ MarkInFlight(d)
          \/ inFlight' = inFlight
          \/ \E k : inFlight' = [inFlight EXCEPT ![k] = 0]
      BY <1>2, <2>2 DEF StepOf, Boot, Dispatch, Claim, EndGoal, CancelGoal, GetOrCreateRun,
              CreateGoal, CreateWorkItem, LinkRun, SubmitGoal, Skip, Release, SettleRun,
              SettleJob, AfterOutcome, jobVars
    <3>2. MarkInFlight(d)
      BY <1>0, <1>4, <3>1 DEF TypeOK
    <3>3. task[d].run.job = j
      BY <1>0, <1>4, <3>2 DEF MarkInFlight, TypeOK
    <3> QED
      BY <1>3, <3>2, <3>3
  <2> QED
    BY <2>1, <2>2, WhoseStep
<1>5. ASSUME inFlight[j] # 0 PROVE \E d \in Daemon : Held(d)
  <2>1. PICK d \in Daemon : \/ step[d] = "marked" /\ task[d].run.job = j
                            \/ \E g \in tracked[d] : goalRun[g].job = j
    BY <1>2, <1>5 DEF MarkersAreServed
  <2>2. ASSUME step'[d] = step[d], task'[d] = task[d], tracked'[d] = tracked[d]
        PROVE  Held(d)
    BY <1>1, <2>1, <2>2
  <2>3. CASE UNCHANGED <<inFlight, lastRun, rowVars, memVars, step, task, crashes>>
    BY <2>2, <2>3 DEF memVars
  <2>4. ASSUME NEW e \in Daemon, StepOf(e), e # d PROVE Held(d)
    BY <1>0, <2>2, <2>4, OthersStay
  <2>5. ASSUME step[d] # "marked", tracked[d] \subseteq tracked'[d] PROVE Held(d)
    BY <1>1, <2>1, <2>5
  <2>6. ASSUME StepOf(d) PROVE Held(d)
    <3>1. CASE Boot(d)
      BY <2>2, <3>1 DEF Boot
    <3>2. CASE \/ \E k \in Job : Claim(d, k)
               \/ \E g \in Goal : EndGoal(d, g) \/ CancelGoal(d, g)
      <4>1. step[d] = "idle" /\ tracked' = tracked
        BY <3>2 DEF Claim, EndGoal, CancelGoal, At, memVars
      <4> QED
        BY <2>5, <4>1
    <3>3. CASE \/ GetOrCreateRun(d) \/ \E h \in Goal : CreateGoal(d, h)
               \/ CreateWorkItem(d) \/ LinkRun(d) \/ MarkInFlight(d) \/ Skip(d) \/ Release(d)
               \/ SettleRun(d)
      <4>1. step[d] # "marked" /\ tracked' = tracked
        BY <3>3 DEF GetOrCreateRun, CreateGoal, CreateWorkItem, LinkRun, MarkInFlight, Skip,
                    Release, SettleRun, At, memVars
      <4> QED
        BY <2>5, <4>1
    <3>4. CASE SubmitGoal(d)
      <4> DEFINE g == task[d].goal
      <4>1. /\ step[d] = "marked" /\ g \in Goal /\ goalRow[g] # "none"
            /\ goalRun[g] = task[d].run
        BY <3>4 DEF SubmitGoal, At, IInv, TaskOK
      <4>2. goalRun'[g] = goalRun[g]
        BY <4>1, GoalRowsStay
      <4>3. tracked'[d] = tracked[d] \cup {g}
        BY <1>0, <3>4 DEF SubmitGoal, TypeOK
      <4> HIDE DEF g
      <4> QED
        BY <1>1, <2>1, <4>1, <4>2, <4>3
    <3>5. CASE SettleJob(d)
      <4> DEFINE g == task[d].goal
      <4>1. /\ step[d] = "settled" /\ goalRun[g] = task[d].run
            /\ inFlight' = [inFlight EXCEPT ![task[d].run.job] = 0]
            /\ tracked'[d] = tracked[d] \ {g}
        BY <1>0, <3>5, BusyDaemon DEF SettleJob, At, AfterOutcome, TypeOK
      <4>2. task[d].run.job # j
        BY <1>0, <4>1 DEF TypeOK
      <4> HIDE DEF g
      <4>3. PICK h \in tracked[d] : goalRun[h].job = j
        BY <2>1, <4>1
      <4> QED
        BY <1>1, <4>1, <4>2, <4>3
    <3> QED
      BY <1>2, <2>6, <3>1, <3>2, <3>3, <3>4, <3>5 DEF StepOf, Dispatch
  <2> QED
    BY <2>3, <2>4, <2>6, WhoseStep
<1> QED
  BY <1>4, <1>5

(* Every goal is served, or in the hands of the daemon that created it.    *)
Placed(g) ==
  \/ goalRun[g].slot <= lastRun[goalRun[g].job]
  \/ \E d \in Daemon : step[d] \in {"created", "stocked", "linked"} /\ task[d].goal = g

(* The last run of a job only grows.                                       *)
LEMMA LastRunGrows ==
  ASSUME IInv, [Next]_vars, NEW j \in Job
  PROVE  lastRun[j] \in Nat /\ lastRun'[j] \in Nat /\ lastRun[j] <= lastRun'[j]
<1>1. TypeOK /\ TypeOK'
  BY TypeStep DEF IInv
<1>2. lastRun[j] \in Nat /\ lastRun'[j] \in Nat
  BY <1>1 DEF TypeOK
<1>3. ASSUME NEW d \in Daemon, MarkInFlight(d) PROVE lastRun[j] <= lastRun'[j]
  <2> DEFINE r == task[d].run
  <2>1. /\ r.slot > lastRun[r.job] /\ r.slot \in Nat
        /\ lastRun' = [lastRun EXCEPT ![r.job] = r.slot]
    BY <1>1, <1>3, BusyDaemon DEF MarkInFlight, At, Holding, IInv, TaskOK, Instant
  <2> HIDE DEF r
  <2> QED
    BY <1>1, <1>2, <2>1 DEF TypeOK
<1>4. CASE \/ Tick \/ UNCHANGED vars \/ \E k \in Job : Seed(k)
           \/ \E d \in Daemon : \/ Boot(d) \/ Crash(d) \/ \E k \in Job : Claim(d, k)
                               \/ \E g \in Goal : EndGoal(d, g) \/ CancelGoal(d, g)
  <2>1. lastRun' = lastRun
    BY <1>4 DEF Tick, vars, jobVars, Seed, Boot, Crash, Claim, EndGoal, CancelGoal
  <2> QED
    BY <1>2, <2>1
<1>5. ASSUME NEW d \in Daemon, Dispatch(d), ~MarkInFlight(d) PROVE lastRun' = lastRun
  BY <1>5 DEF Dispatch, GetOrCreateRun, CreateGoal, CreateWorkItem, LinkRun, SubmitGoal, Skip,
              Release, SettleRun, SettleJob, AfterOutcome, jobVars
<1> QED
  BY <1>2, <1>3, <1>4, <1>5 DEF Next

(* A goal passes from the hands that create it to the marker of its job.   *)
LEMMA PlacedStep ==
  ASSUME IInv, [Next]_vars, NEW g \in Goal, goalRow[g] # "none", goalRun[g].job \in Job,
         crashes' = 0, Placed(g)
  PROVE  Placed(g)'
<1> DEFINE j == goalRun[g].job
           Carries(d) == step[d] \in {"created", "stocked", "linked"} /\ task[d].goal = g
<1>1. TypeOK /\ goalRun'[g] = goalRun[g] /\ goalRun[g].slot \in Nat
  BY GoalRowsStay DEF IInv, TypeOK, RunRef
<1>2. CASE goalRun[g].slot <= lastRun[j]
  <2>1. lastRun[j] \in Nat /\ lastRun'[j] \in Nat /\ lastRun[j] <= lastRun'[j]
    BY LastRunGrows
  <2> QED
    BY <1>1, <1>2, <2>1 DEF Placed
<1>3. ASSUME NEW d \in Daemon, Carries(d) PROVE Placed(g)'
  <2>1. ASSUME Carries(d)' PROVE Placed(g)'
    BY <2>1 DEF Placed
  <2>2. CASE UNCHANGED <<inFlight, lastRun, rowVars, memVars, step, task, crashes>>
    BY <1>3, <2>1, <2>2
  <2>3. ASSUME NEW e \in Daemon, StepOf(e), e # d PROVE Placed(g)'
    BY <1>1, <1>3, <2>1, <2>3, OthersStay
  <2>4. ASSUME StepOf(d) PROVE Placed(g)'
    <3>1. ~Crash(d)
      BY <1>1, CrashesCounted
    <3>2. CASE Boot(d)
      BY <1>3, <2>1, <3>2 DEF Boot
    <3>3. CASE CreateWorkItem(d) \/ LinkRun(d)
      BY <1>1, <1>3, <2>1, <3>3 DEF CreateWorkItem, LinkRun, Proceed, TypeOK
    <3>4. CASE MarkInFlight(d)
      <4>1. goalRun[g] = task[d].run /\ step[d] = "linked"
        BY <1>3, <3>4 DEF MarkInFlight, At, IInv, TaskOK
      <4>2. lastRun'[j] = goalRun[g].slot
        BY <1>1, <3>4, <4>1 DEF MarkInFlight, TypeOK
      <4> QED
        BY <1>1, <4>2 DEF Placed
    <3>5. CASE \/ GetOrCreateRun(d) \/ \E h \in Goal : CreateGoal(d, h)
               \/ SubmitGoal(d) \/ Skip(d) \/ Release(d) \/ SettleRun(d) \/ SettleJob(d)
               \/ \E k \in Job : Claim(d, k)
               \/ \E h \in Goal : EndGoal(d, h) \/ CancelGoal(d, h)
      BY <1>3, <3>5 DEF GetOrCreateRun, CreateGoal, SubmitGoal, Skip, Release, SettleRun,
                        SettleJob, Claim, EndGoal, CancelGoal, At
    <3> QED
      BY <2>4, <3>1, <3>2, <3>3, <3>4, <3>5 DEF StepOf, Dispatch
  <2> QED
    BY <2>2, <2>3, <2>4, WhoseStep
<1> QED
  BY <1>2, <1>3 DEF Placed

(* Goals are worked on only once they exist.                               *)
LEMMA ActiveStep ==
  ASSUME IInv, [Next]_vars, \A d \in Daemon : \A g \in active[d] : goalRow[g] # "none"
  PROVE  \A d \in Daemon : \A g \in active'[d] : goalRow'[g] # "none"
<1> SUFFICES ASSUME NEW d \in Daemon, NEW g \in active'[d] PROVE goalRow'[g] # "none"
  OBVIOUS
<1>1. TypeOK /\ TypeOK' /\ g \in Goal
  BY TypeStep DEF IInv, TypeOK
<1>2. ASSUME goalRow[g] # "none" PROVE goalRow'[g] # "none"
  BY <1>1, <1>2, GoalRowsStay
<1>3. CASE g \in active[d]
  BY <1>2, <1>3
<1>4. CASE UNCHANGED <<inFlight, lastRun, rowVars, memVars, step, task, crashes>>
  BY <1>3, <1>4 DEF memVars
<1>5. ASSUME NEW e \in Daemon, StepOf(e), e # d PROVE goalRow'[g] # "none"
  BY <1>1, <1>3, <1>5, OthersStay
<1>6. ASSUME StepOf(d), g \notin active[d] PROVE goalRow'[g] # "none"
  <2>1. Boot(d) \/ SubmitGoal(d)
    <3>1. ASSUME \/ Crash(d)
                 \/ \E h \in Goal : EndGoal(d, h) \/ CancelGoal(d, h)
          PROVE  active'[d] \subseteq active[d]
      BY <1>1, <3>1 DEF Crash, EndGoal, CancelGoal, TypeOK
    <3>2. ASSUME \/ \E j \in Job : Claim(d, j)
                 \/ Dispatch(d) /\ ~SubmitGoal(d)
          PROVE  active' = active
      BY <3>2 DEF Claim, Dispatch, GetOrCreateRun, CreateGoal, CreateWorkItem, LinkRun,
              MarkInFlight, Skip, Release, SettleRun, SettleJob, memVars
    <3> QED
      BY <1>6, <3>1, <3>2 DEF StepOf
  <2>2. CASE Boot(d)
    BY <1>1, <1>2, <2>2 DEF Boot, TypeOK
  <2>3. CASE SubmitGoal(d)
    <3>1. g = task[d].goal /\ step[d] = "marked"
      BY <1>1, <1>6, <2>3 DEF SubmitGoal, At, TypeOK
    <3> QED
      BY <1>2, <3>1 DEF IInv, TaskOK
  <2> QED
    BY <2>1, <2>2, <2>3
<1> QED
  BY <1>3, <1>4, <1>5, <1>6, WhoseStep

(* Only CreateGoal makes a goal.                                           *)
LEMMA GoalsAreCreated ==
  ASSUME IInv, [Next]_vars, \A d \in Daemon : \A g \in active[d] : goalRow[g] # "none",
         NEW g \in Goal, goalRow[g] = "none", goalRow'[g] # "none"
  PROVE  \E d \in Daemon : CreateGoal(d, g)
<1>1. TypeOK
  BY DEF IInv
<1>2. CASE \/ Tick \/ UNCHANGED vars \/ \E j \in Job : Seed(j)
           \/ \E d \in Daemon : \/ Boot(d) \/ Crash(d) \/ \E j \in Job : Claim(d, j)
  BY <1>2 DEF Tick, vars, rowVars, Seed, Boot, Crash, Claim
<1>3. ASSUME NEW d \in Daemon, NEW h \in Goal, EndGoal(d, h) \/ CancelGoal(d, h) PROVE FALSE
  <2>1. goalRow' = [goalRow EXCEPT ![h] = "ended"] /\ goalRow[h] # "none"
    BY <1>3 DEF EndGoal, CancelGoal
  <2> QED
    BY <1>1, <2>1 DEF TypeOK
<1>4. ASSUME NEW d \in Daemon, CreateWorkItem(d) PROVE FALSE
  BY <1>1, <1>4 DEF CreateWorkItem, TypeOK
<1>5. ASSUME NEW d \in Daemon, NEW h \in Goal, CreateGoal(d, h) PROVE CreateGoal(d, g)
  BY <1>1, <1>5 DEF CreateGoal, TypeOK
<1>6. ASSUME NEW d \in Daemon,
             \/ GetOrCreateRun(d) \/ LinkRun(d) \/ MarkInFlight(d) \/ SubmitGoal(d)
             \/ Skip(d) \/ Release(d) \/ SettleRun(d) \/ SettleJob(d)
      PROVE  FALSE
  BY <1>6 DEF GetOrCreateRun, LinkRun, MarkInFlight, SubmitGoal, Skip, Release, SettleRun,
              SettleJob, rowVars
<1> QED
  BY <1>2, <1>3, <1>4, <1>5, <1>6 DEF Next, Dispatch

(* What CreateGoal makes of its goal.                                      *)
LEMMA CreatedGoal ==
  ASSUME IInv, NEW d \in Daemon, NEW g \in Goal, CreateGoal(d, g)
  PROVE  /\ goalRun'[g] = task[d].run /\ lastRun' = lastRun
         /\ step[d] = "creating" /\ step'[d] = "created" /\ task'[d].goal = g
         /\ task[d].run.job \in Job /\ task[d].run.slot \in Nat
         /\ lastRun[task[d].run.job] \in Nat
         /\ task[d].run.slot > lastRun[task[d].run.job]
<1>1. TypeOK /\ TaskOK(d) /\ step[d] = "creating"
  BY DEF IInv, CreateGoal, At
<1>2. task[d].run.job \in Job /\ task[d].run.slot \in Nat
  BY <1>1, BusyDaemon DEF Instant
<1>3. goalRun'[g] = task[d].run /\ step'[d] = "created" /\ task'[d].goal = g /\ lastRun' = lastRun
  BY <1>1 DEF CreateGoal, Proceed, TypeOK, jobVars
<1>4. lastRun[task[d].run.job] \in Nat /\ task[d].run.slot > lastRun[task[d].run.job]
  BY <1>1, <1>2 DEF TaskOK, Holding, TypeOK
<1> QED
  BY <1>1, <1>2, <1>3, <1>4

(* GoalsAccounted is kept.                                                 *)
LEMMA AccountedStep ==
  ASSUME IInv, GoalsAccounted, [Next]_vars
  PROVE  GoalsAccounted'
<1>1. TypeOK /\ TypeOK' /\ \A d \in Daemon : \A g \in active'[d] : goalRow'[g] # "none"
  BY TypeStep, ActiveStep DEF IInv, GoalsAccounted
<1>2. ASSUME NEW g \in Goal, goalRow'[g] # "none"
      PROVE  goalRun'[g].job \in Job /\ (crashes' > 0 \/ Placed(g)')
  <2>1. CASE goalRow[g] # "none"
    <3>1. goalRun'[g] = goalRun[g] /\ goalRun[g].job \in Job
      BY <2>1, GoalRowsStay DEF GoalsAccounted
    <3>2. crashes \in Nat /\ crashes' \in Nat
      BY <1>1, ScheduleAssumption DEF TypeOK
    <3>3. ASSUME crashes' = 0 PROVE Placed(g)'
      <4>1. crashes = 0
        BY <1>1, <3>3, CrashesCounted
      <4>2. Placed(g)
        BY <2>1, <4>1 DEF GoalsAccounted, Placed
      <4> QED
        BY <2>1, <3>1, <3>3, <4>2, PlacedStep
    <3> QED
      BY <3>1, <3>2, <3>3
  <2>2. CASE goalRow[g] = "none"
    <3>1. PICK d \in Daemon : CreateGoal(d, g)
      BY <1>2, <2>2, GoalsAreCreated DEF GoalsAccounted
    <3> QED
      BY <3>1, CreatedGoal DEF Placed
  <2> QED
    BY <2>1, <2>2
<1> QED
  BY <1>1, <1>2 DEF GoalsAccounted, Placed

(* A goal is created for a later instant than all goals of its job that    *)
(* are served, by the only daemon that has the job in its hands.           *)
LEMMA OnceStep ==
  ASSUME IInv, GoalsAccounted, OneGoalPerInstant, [Next]_vars
  PROVE  OneGoalPerInstant'
<1> DEFINE Same(g, h) == goalRun[g].job = goalRun[h].job /\ goalRun[g].slot = goalRun[h].slot
<1> SUFFICES ASSUME crashes' = 0, NEW g \in Goal, NEW h \in Goal,
                    goalRow'[g] # "none", goalRow'[h] # "none", Same(g, h)', g # h
             PROVE  FALSE
  BY DEF OneGoalPerInstant
<1>1. TypeOK /\ crashes = 0
  BY CrashesCounted DEF IInv
<1>2. ASSUME NEW a \in Goal, NEW b \in Goal, goalRow[a] = "none", goalRow[b] # "none",
             goalRow'[a] # "none", Same(a, b)'
      PROVE  FALSE
  <2>1. PICK d \in Daemon : CreateGoal(d, a)
    BY <1>2, GoalsAreCreated DEF GoalsAccounted
  <2> DEFINE r == task[d].run
  <2>2. /\ goalRun'[a] = r /\ step[d] = "creating" /\ r.job \in Job
        /\ r.slot \in Nat /\ lastRun[r.job] \in Nat /\ r.slot > lastRun[r.job]
    BY <2>1, CreatedGoal
  <2> HIDE DEF r
  <2>3. goalRun'[b] = goalRun[b]
    BY <1>2, GoalRowsStay
  <2>4. goalRun[b].job = r.job /\ goalRun[b].slot = r.slot
    BY <1>2, <2>2, <2>3
  <2>5. PICK e \in Daemon : step[e] \in {"created", "stocked", "linked"} /\ task[e].goal = b
    BY <1>1, <1>2, <2>2, <2>4 DEF GoalsAccounted
  <2>6. goalRun[b] = task[e].run
    BY <2>5 DEF IInv, TaskOK
  <2>7. e # d /\ Owns(e, r.job) /\ Owns(d, r.job)
    BY <2>2, <2>4, <2>5, <2>6 DEF r, Owns, Dispatching, Holding
  <2> QED
    BY <2>2, <2>7 DEF IInv, SingleOwner
<1>3. CASE goalRow[g] = "none" /\ goalRow[h] = "none"
  <2>1. PICK d \in Daemon : CreateGoal(d, g)
    BY <1>3, GoalsAreCreated DEF GoalsAccounted
  <2>2. goalRow'[h] = goalRow[h]
    BY <1>1, <2>1 DEF CreateGoal, TypeOK
  <2> QED
    BY <1>3, <2>2
<1>4. CASE goalRow[g] # "none" /\ goalRow[h] # "none"
  <2>1. goalRun'[g] = goalRun[g] /\ goalRun'[h] = goalRun[h]
    BY <1>4, GoalRowsStay
  <2> QED
    BY <1>1, <1>4, <2>1 DEF OneGoalPerInstant
<1> QED
  BY <1>2, <1>3, <1>4

(* Nothing is awaited, marked or created at first.                         *)
LEMMA InitServed == Init => GoalsAwaited /\ MarkersAreServed /\ GoalsAccounted /\ OneGoalPerInstant
BY DEF Init, GoalsAwaited, MarkersAreServed, GoalsAccounted, OneGoalPerInstant

(* A marker outlives its run only by a crash of a daemon or the cancelling *)
(* of a goal, which emits no event: without them the daemon that set the   *)
(* marker waits for a goal its scheduler works on, and the goal's end      *)
(* clears it.                                                              *)
THEOREM MarkersServed == ASSUME MayStall = FALSE PROVE Spec => []MarkersAreServed
<1> DEFINE Inv == IInv /\ GoalsAwaited /\ MarkersAreServed
<1>1. Init => Inv
  BY InitIInv, InitServed
<1>2. Inv /\ [Next]_vars => Inv'
  BY StepKeeps, AwaitedStep, ServedStep
<1>3. Inv => MarkersAreServed
  OBVIOUS
<1> QED
  BY <1>1, <1>2, <1>3, PTL DEF Spec

(* Daemons that compete for a job do not execute an instant of it twice.   *)
THEOREM OncePerInstant == ASSUME MayStall = FALSE PROVE Spec => []OneGoalPerInstant
<1> DEFINE Inv == IInv /\ GoalsAccounted /\ OneGoalPerInstant
<1>1. Init => Inv
  BY InitIInv, InitServed
<1>2. Inv /\ [Next]_vars => Inv'
  BY StepKeeps, AccountedStep, OnceStep
<1>3. Inv => OneGoalPerInstant
  OBVIOUS
<1> QED
  BY <1>1, <1>2, <1>3, PTL DEF Spec
=============================================================================
