# PonyBunny in TLA+

A verification project for PonyBunny, an autonomous agent that turns goals into
work items and executes them with language models. The modules here are
translated from the TypeScript source; file and line numbers are those of the
repository this directory accompanies (`src/...` below is the repository's own
`src` directory).

## 1. The system

### Components, their state and operations

| Component | State | Operations | What makes it correct |
|---|---|---|---|
| Scheduler core, `src/scheduler/core` | status, active goals, a `GoalExecutionState` per goal, tracked executions | `start pause resume stop submitGoal cancelGoal tick`, and the coroutine `executeWorkItem` | one run per item at a time, honest completion, one outcome per goal, ended goals rest, goals settle |
| Work item manager, `src/scheduler/work-item-manager` | none but the `work_items` rows | transition table, promotion to ready, next item, completion test, release of dependents | nothing starts before its dependencies, done is final |
| Lane selector, `src/scheduler/lane-selector` | active count per lane | choose, reserve, give back | counters exact, limits kept, no slot leaks |
| Budget tracker, `src/scheduler/budget-tracker` | none but `goals.spent_*` | level of a goal's spending | overspending bounded, escalated |
| Retry handler, quality gates | none | retry or fail; passed or not | a failed verification ends |
| Execution adapter | pending executions | `execute`, `abort` | an aborted run stops |
| Scheduler daemon, `src/scheduler-daemon/daemon.ts` | the process | boot, recovery of queued goals, commands, stop | a crash loses no work and repeats none |
| Cron dispatch, `agent-scheduler.ts`, `infra/scheduler` | `cron_jobs`, `cron_job_runs`, a map of goals in flight | reconcile, claim, dispatch, settle | one run per due time, jobs become due again |
| IPC link and bridge, `src/ipc`, `gateway/integration/ipc-bridge.ts` | sockets, send buffer, reconnect timer, half a line, clients, pending commands | connect, send, flush, reconnect, heartbeat, time out | events arrive in order or are known to be lost, the client never waits for nothing, a success was a success |
| Gateway connections, `src/gateway/connection`, `gateway-server.ts` | pending connections, sessions, counts per address, heartbeat | open, promote, close, check, stop, start | counts exact, limits kept, dead sessions end, a stop ends |
| Gateway authentication, `src/gateway/auth`, `protocol/message-router.ts` | pending challenges, pairing tokens | hello, pair, verify, token | a token is paired with one key |
| Gateway RPC, `src/gateway/rpc` | none but rows | `goal.submit`, `goal.cancel`, queries | rows and daemon agree in the end |
| Work cycle, `src/autonomy/react-integration.ts`, `app/lifecycle/execution` | locals of a loop of model and tools, rows of `runs` | classify, ask, call tools, conclude, record | cycles end, tokens are booked once |
| Model failover, `infra/llm/provider-manager` | the health cache | list endpoints, call, mark as failed | an endpoint is left alone while it is down, and given up only when it is |
| Conversations, `src/app/conversation` | sessions in memory, a state machine per session | process a message (analysis, goal, reply), end a session | one machine per session, the stored state is the machine's, ended sessions stay ended, what executes has a goal |
| Agent A, MCP client, OAuth accounts, permissions, agent registry | cursors, connections, a file of accounts | not modelled, see section 6 | |
| Store, `infra/persistence` | SQLite tables | single statements and one transaction (claims) | check constraints and foreign keys hold |

The gateway process and the scheduler daemon are two Node.js processes that
share one SQLite file and talk over a Unix socket. `goal.submit` writes a goal
and its items, then sends `submit_goal`; `goal.cancel` writes the row
`cancelled`, then sends `cancel_goal`. The daemon's interval timer runs `tick`,
which looks at each active goal in turn and starts at most one item per goal;
the item's coroutine runs on its own, and its end changes item, goal, lane and
budget. Events of the scheduler go to the gateway and to the cron dispatcher.

### What is hard

- **Coroutines.** Between the start of a run and its end, ticks, cancellations,
  stops and other runs of the same goal change the rows the coroutine read.
- **Cancellation that does not cancel.** `cancelGoal` and `stop` abort by run
  id, the adapter files its executions under a temporary id, so the run goes on.
- **Crashes.** Rows survive, the scheduler's memory does not; recovery looks at
  queued goals only.
- **Two writers.** Gateway and daemon both write `goals.status`.
- **Partial writes.** Cron dispatch writes four rows without a transaction.
- **Reconnects, timeouts, late answers** on the socket between the processes:
  events of an old connection after a new one was made, half lines, results
  after their request's time-out.
- **Awaits in the gateway.** A signature is verified while its connection times
  out, is closed, or the server stops; four places count connections down.
- **Messages of one conversation that overlap**, while it is ended under them.
- **Loops with several counters** around the model, and answers that are paid
  for whatever becomes of the cycle.
- **A cache shared by concurrent requests**, read before a call and written after.

`PROJECT.json` lists the hazards line by line with the properties that cover
them.

## 2. Modules

| Module | What it is |
|---|---|
| `DagExecution` | abstract specification: the execution of a dependency graph, by whomever |
| `SchedulerCore` | the scheduler, its collaborators, its store, the daemon's boot and crash; the properties |
| `MCSchedulerCore` | small instances for TLC |
| `SchedulerCoreProofs` | type correctness and the inductive invariant, with the safety theorems; how far a goal may overspend; the refinement; ended goals rest; goals are never stuck |
| `JobRuns` | abstract specification: the runs of a scheduled agent follow each other |
| `CronDispatch` | the dispatch of scheduled agents by several daemons, with its rows; the properties |
| `MCCronDispatch` | small instances for TLC |
| `CronDispatchProofs` | the inductive invariant, the safety theorems, the refinement, and what holds while no daemon has crashed |
| `LossyChannel` | abstract specification: events arrive in order, once, or not at all |
| `IpcLink` | client, sockets, server and bridge between daemon and gateway; the properties |
| `MCIpcLink`, `IpcLinkProofs` | small instances; the client's part of the inductive invariant and three theorems |
| `IpcLinkOrder` | where events may be and in what order: the whole invariant, that none is lost without a fault, the refinement |
| `GatewaySessions` | connections, authentication and sessions of the gateway; the properties |
| `MCGatewaySessions`, `GatewaySessionsProofs` | a small instance; the inductive invariant and four theorems |
| `WorkCycle` | the loop of model and tools, its runs and their booking; the properties |
| `MCWorkCycle`, `WorkCycleProofs` | a small instance; the inductive invariant and four theorems |
| `ModelFailover` | requests down a chain of models over endpoints with one health cache; the properties |
| `MCModelFailover`, `ModelFailoverProofs` | a small instance; the inductive invariant and two theorems |
| `Conversations` | messages to sessions, their state machines and the sessions' repository; the properties |
| `MCConversations`, `ConversationsProofs` | a small instance; the inductive invariant and three theorems |

The modules meet where the code does. `SchedulerCore` takes the socket as two
ordered commands per goal that a crash may lose, and `IpcLink` is that socket with
the commands abstract; `SchedulerCore` takes a run as a success or a failure that
costs something, and `WorkCycle` is what runs in between; `CronDispatch` takes
goals that end, the subject of `SchedulerCore`. `WorkCycle` takes an answer of the
model or its failure; `ModelFailover` is how the answer of an agent's or a
conversation's request is obtained. A goal that `Conversations` creates is one of
those `SchedulerCore` takes from anyone.

### SchedulerCore and the code

One action is what JavaScript runs without giving the event loop back.

*The tick.* `tick` awaits only promises that are already resolved, so nothing
but microtasks runs between two of its goals: no RPC, no socket data, no other
tick. The only coroutines that may resume inside a tick are runs that tick has
started itself (an agent tick whose runner is missing fails without any I/O).
`BeginTick`, one `ProcessGoal(g)` per active goal and `EndTick` (the cleanup)
are the tick; `tickTodo` is what the loop has left, in any order; `tickRuns`
is what it has started.

*`ProcessGoal(g)`* is one of `HandleBudgetExceeded`, `CompleteGoal`,
`NothingToStart`, `StartWorkItem`, with the guards in the order of
`processGoal`. Asking for the next item promotes items as a side effect, also
when nothing is started.

*A run* goes from `StartWorkItem` to `ExecutionSucceeds` or `ExecutionFails`,
and from the first to `VerificationPasses` or `VerificationFails`: two points
where the coroutine gives the loop back, the model call and the gates. The
`finally` clause (`Release`) is part of the action that ends the run.
A rejected transition throws into the catch clause of `executeWorkItem`, which
handles the failure again: `AfterFailure` has both attempts.

*The gateway* writes rows and sends commands (`CreateGoal`, `RequestCancel`);
`DeliverSubmit`, `DeliverCancel` are the daemon's handlers. The socket keeps the
order of the two commands of a goal; commands are lost when the daemon dies.

*Crash, Boot.* A crash (or the end of the process after `stop`) may come at any
point, inside a tick too; rows stay. `Boot` is a new scheduler, started, with
the queued goals submitted.

What is abstracted: item priorities and ages are `Rank`; the keywords that
choose a lane are `PreferredLane`; the three budgets are one, the one that binds; a
run adds any amount to what its goal has spent, up to `MaxRunCost`, which bounds the
instance and not the code, and a run that comes back within the tick that started it
has not reached a model and adds nothing; a missing budget is one that cannot be spent;
the patterns of error texts are the flag `recoverable`. Items are created with
`retry_count` 0 and `max_retries` 3 (`work-order-repository.ts:348-349`) and nothing
counts up, so there are always retries left and neither field is modelled.
`hasBlockingEscalations` answers false: `scheduler-factory.ts` gives the escalation handler a repository
whose `getOpenEscalations` is empty. Events are kept as the two outcomes a goal
has been reported with. `pause` and `resume` have no caller in `src`; they are
part of the scheduler's interface.

External assumption: the SQLite of better-sqlite3 is built with foreign keys on,
which `HandleBudgetExceeded` needs (an escalation without a work item fails).

### CronDispatch and the code

One action is one SQL statement (or, for claims, the one transaction) with the
computation that follows it. `dispatchOnce` runs to the submission of the goal
without giving the event loop back, but its statements commit one by one, so the
process may die between any two of them, and another daemon on the same database
may execute its own in between. `step[d]` is the statement daemon `d` executes
next, `task[d]` the job, run and goal it works on:

    Claim -> GetOrCreateRun -> CreateGoal -> CreateWorkItem -> LinkRun
          -> MarkInFlight -> SubmitGoal -> (idle) EndGoal -> SettleRun -> SettleJob
    Claim -> Release                       agent unknown or disabled, no schedule
    Claim -> GetOrCreateRun -> Skip        the run has a goal already

Some neighbouring statements that commute with what others do are one action:
`createWorkItem` and `updateWorkItemStatus`, `updateCronJobRunStatus` and
`submitGoal`, the goal's row and the event that reports it. Only the interval
kind of schedule is modelled; a cron expression differs in how the next instant
is found, not in what is done with it. The branch "not due after computation" is
left out (a claimed job is due by the same clock), and so is the branch after a
failed `submitGoal`, which does not fail in a daemon (`autoStart` is false).
`failure_count` is written and never read, `backoff_until_ms` never written.

The scheduler is reduced to what the dispatcher sees of it: a goal that was
submitted or recovered ends with an event (`EndGoal`), or is cancelled without one
(`CancelGoal`). `Seed` is external: no code under `src/src` writes the first
`next_run_at_ms` of a job, the end-to-end test does it with an `UPDATE`. Stopping
a daemon in order is `Crash` while it is idle.

`MayStall = FALSE` says that a dispatch does not outlive its claim: the clock does
not pass the expiry of a claim whose statements are under way. The code has no
guard for it; the claim lasts two tick intervals, the statements take
milliseconds. With `TRUE`, `SingleOwner` and `MarkersMatch` do not hold.

### IpcLink and the code

One action is one handler of one of the two event loops. A socket is two
sequences of lines and, for each end, whether its process has closed it and
whether the process has seen the event: `cEnd` goes `dialing` (or `refused`),
`open`, `ended`, `closed`, `sEnd` `backlog`, `open`, `ended`, `closed`. `Dial` is
the call of `net.connect`, decided by the kernel at once and told later by
`OnConnect` or `OnError`. `OnClose` comes for any socket that the client ever
had, and clears the fields of the current one. A name of a socket is used again
when both ends are closed.

A write is a line in `up`; when the other end is gone, `OnClose` decides how
much of what was written had been read, and `Rebuffer` puts back the lines whose
write failed, if the flush wrote them. `torn` is `socketBuffer` holding half a
line: it outlives its socket, and the first line of the next one is lost with it.

What the code does that a reader may not expect, and the model with it: a
`connect` event after `socket` was set to null throws and ends the process; a
refused connection leaves the state `disconnected` with the timer set; after a
deliberate `disconnect` the close event sets the timer all the same, and the
client connects again; a client opened anew in the same process keeps the events
of its old sockets. `NeverStranded` and `IInv` hold through all of this.

Assumed of the kernel: what a closed connection has left is read before a later
one (`ReadInOrder`; the client waits a second before it dials again), and a
write that failed was not read as a whole. The length of the backoff is left out:
the timer fires when it fires.

### GatewaySessions and the code

One action is one callback of the gateway's event loop. The callback of
`auth.verify` awaits a signature; it is `StartVerify` and later `FinishVerify`
(or `VerifyExpired` at once), and anything may happen in between: a
time-out, a close, another verification of the same token, a stop. Keys, tokens
and signatures are model values with the outcome of the check as a choice.
`sessions`, `websockets` and the heartbeat's map have the same keys and are one
variable; `addressed` tells the sessions that have an entry in
`sessionRemoteAddresses`: a promotion that comes after the connection left the
tables opens a session without one, and its close must not count.

The heartbeat's interval (30 s) is longer than its time-out (10 s), so a ping that
was not answered by the next check has timed out: `alive` is all the clock that
`CheckConnections` needs. A client that vanishes (`Vanish`) sends nothing and its
socket stays open. `Stop` is the part of `stop` before it awaits the WebSocket
server's close, `Stopped` the part after it. Messages are handled in between.

Left out: subscriptions and broadcasts, RPC calls, the configuration watcher. Two
facts of the code concern what is left out: `pendingAuths` is keyed by the
router's `conn_...` id while a close cancels by the bare one (`message-router.ts:203`,
`gateway-server.ts:610`), and `AuthManager.cleanup` has no caller, so an entry whose
client leaves stays; and `stop` stops the configuration watcher, which `start`
does not start again.

### WorkCycle and the code

A step of a cycle runs from one await to the next: the answer of the model
arrives and is dealt with up to the first tool call (`ClaimDone`, `AskUser`,
`EmitCalls`, `SayNothing`, `OnlyTalk`), one call is executed (`ExecuteCall`), one
search of the fallback returns (`FallbackSearch`), the concluding call returns
(`Conclude`), or the model's call throws (`ModelFails`). An answer's tokens are
counted in the step in which it arrives. `Record` is `completeRun` and
`updateGoalSpending`, two statements; `CrashWhileRecording` is a death between
them. `BookingFails` is an error, before the goal is charged or after, with the catch
clause that follows: its own `completeRun` may throw as well, and the row then stays
open, or completed as it was. All items of the goal share `spent`.

Messages, prompts and texts are left out, and `requireToolCallNext`, a hint to the
provider, with them. Left out also: tokens of the classification, which the code
does not count (`react-integration.ts:577`), `needsRetry` and escalation of errors,
which only choose a text of the result, and `chatStep`, which the scheduler does
not call. No action aborts a cycle: the signal `execution-service.ts:139` makes is
never aborted.

### ModelFailover and the code

`completeWithFallback` in the order of its awaits: `CheckHealth` of one endpoint
of the model after the other (in any order; the code takes the configured one),
`Listed` when all have been looked at, then `Succeed` or `Fail` of the endpoint
called, lowest priority first. The cache is written by checks and failures of all
requests. Time is counted in units smaller than the ttl; a call may take longer
than the ttl, as in the code (120 s, 30 s). `Configured` is constant: a reload of
the configuration and `clearHealthCache` are not modelled, and missing credentials
are found by the check. An error that is not recoverable ends the request and marks
the endpoint all the same, for all requests.

### Conversations and the code

`processMessage` in the pieces between its awaits: `Arrive` (find or create the
session, its machine), `Analyzed` (the model's analysis is back: the next state, the
rules, the goal if the machine now executes), `Reply` (the response is back: the
session object gets the machine's state and is put into the map), or `Fails` at
either await. Any other message, `EndSession` and `Restart` fall in between. A
handler holds the session object and the machine it found on arrival
(`msg[m].sid`, `msg[m].by`), which is how an ended session comes back.

`session[s].live` says that the object is in the repository's map; `made`, that the
identifier was given out, so that an unknown or ended identifier leads to a fresh one.
A machine and a goal are named after the message that made them. Intents that lead
to the same place are one (`small_talk` is greeting, farewell, feedback and question
too). `seen` remembers, for the properties, sessions that were ended, ended while a
message was in hand, had a message fail, or had a goal that was not created. Left
out: the texts, personas and prompts, the timer that polls a goal, `cancelTask`
and the retry handler, which nothing reaches (no intent leads to `retrying`).

### Properties

Each is stated and explained at the end of its module. Every module but the abstract
ones has an `IInv`, the inductive invariant of its proofs, with the types in it.

- `SchedulerCore`: `DependencySafety`, `LaneAccounting`, `CompletedGoalsAreDone`,
  `OneOutcome`, `OverspendBounded`, `NoGoalIsStuck` (invariants), `NoWorkAfterEnd`
  (action), `GoalSettles`, `LanesFree` (liveness), `ImplementsDag` (refinement), and in
  its `IInv` `RunsMatchItems`. `OverspendBounded` says by how much a goal may pass its
  budget: a run starts whenever something is left, on every slot of the goal's lanes at
  once, and pays at its end, so by less than the cost of as many runs as there are slots
  (on a single slot, by almost a whole run). `NoGoalIsStuck` is about deadlock without
  fairness. A goal recorded as queued is in the list a running daemon walks, or its
  `submit_goal` is on the way; and when no run is under way the tick that takes it does,
  in the order of `processGoal`, one of three things: it pauses the goal, whose budget is
  spent, and asks an operator (`WouldPause`); completes it (`WouldComplete`); or starts an
  item (`WouldStart`). The exceptions are named, and each is a divergence of section 5:
  a recovered goal over its budget, whose escalation fails at every tick
  (`EscalationBreaks`), and an item `LeftBehind` by a crash or by gates that failed. What
  follows a pause is the operator's; nothing in the scheduler ends it. `GoalSettles` is
  the liveness: a goal that was submitted ends or is paused, unless failed gates hold one
  of its items in verify (`HeldByGates`). Every item with gates is exposed to that.
- `CronDispatch`: `SingleOwner`, `MarkersAreServed`, `OneGoalPerInstant` (invariants),
  `RunRowsMoveForward` (action), `DueInstantsRun`, `InFlightEnds` (liveness),
  `ImplementsJobRuns` (refinement), and in its `IInv` `MarkersMatch` and
  `NextAfterLast`. `MarkersAreServed` and `OneGoalPerInstant` are about the time before
  the first crash; what a crash does to them is `cron_restart` and section 5.
- `IpcLink`: `NeverStranded`, `NothingLost`, `SuccessMeansExecuted` (invariants),
  `SettledOnce` (action), `ImplementsLossyChannel` (refinement), `DaemonRegistered`,
  `BufferDrains` (liveness).
- `GatewaySessions`: `CountsExact`, `LimitHolds`, `PairedOnce` (invariants),
  `DeadSessionsReaped`, `StopEnds` (liveness); only proved: `StopWaitsForPending` (action).
- `WorkCycle`: `TokensConserved` (invariant), `CycleEnds` (liveness), and in its
  `IInv` `IdleBounded` and `RunsAreClosed`; only proved: `CyclesRunDown` (action).
- `ModelFailover`: `CooldownKept` (action), and in its `IInv` `GivenUpForAReason`
  and `CacheIsHonest`; only proved: `RequestsRunDown` (action).
- `Conversations`: `StateAgrees`, `EndedComesBackOnlyUnderway`, `MonitoringHasTask`
  (invariants), and in its `IInv` `OneMachine`.

What each one would catch is told by its mutant in `PROJECT.json`: a plausible bug
in the code under which TLC finds the property violated.

## 3. Runs

| Run | Instance | Shows |
|---|---|---|
| `scheduler_safety` | 2 goals, 4 items (one joins two others), one main and one subagent slot, budgets of two and zero, runs that cost up to one, gates that fail, stop and cancel, no crash | lanes exact, no goal stuck, outcomes, rest of ended goals |
| `scheduler_restart` | 1 goal, the 3 items of the join, budget of two, runs that cost up to two, gates that fail, all controls, 2 crashes | inductive invariant (types, lanes and runs in it), dependencies, completion, overspending, refinement |
| `scheduler_liveness` | 2 goals competing for one slot, budgets that run out, gates that fail, cancellation | goals settle or are held by failed gates, lanes free up |
| `cron_dispatch` | 2 daemons, 2 jobs (one cannot be computed), 2 sets of enabled agents, cancellation, 2 crashes, 4 ticks | one owner per job, markers served and one goal per instant before a crash, run rows, inductive invariant, refinement |
| `cron_liveness` | 1 daemon, 2 jobs with different intervals, no crash | due instants are served |
| `cron_restart` | 1 daemon, 1 job, 1 crash | **violated**: runs in flight end |
| `ipc_link` | 2 sockets, 2 commands, a buffer of 1, stop, 2 faults, no events | never stranded, success means executed, settled once |
| `ipc_recovery` | 2 sockets, 3 events, a buffer of 2, 2 faults | inductive invariant, nothing lost, refinement of the lossy channel, the daemon gets registered, the buffer drains |
| `gateway_sessions` | 2 connections, 1 remote address with room for 1, 2 keys, 1 token, 2 authentications, 1 restart, fair | counts, limits, pairing, dead sessions are reaped, a stop ends |
| `work_cycle` | 2 items at once, 5 rounds, 2 answers without action, 1 empty one forgiven, 1 fault, fair | inductive invariant, tokens conserved, cycles end |
| `model_failover` | 2 requests, 2 models, 3 endpoints (one shared, one without credentials), ttl 2, 4 ticks | inductive invariant, cooldown kept |
| `conversations` | 3 messages, 2 sessions, every intent, ends, failures, 1 restart | inductive invariant, states agree, ended sessions, tasks |

The violated property is a statement of one of the repository's documents;
`PROJECT.json` quotes it under "findings" and tells the scenario.

*Bounds.* `MaxRuns` = 2 runs per item: one retry, so that a late run of an item
and its successor could meet; the code has no bound, and the last run the bound
allows does not fail in a way that asks for another. `MaxCrashes` = 2: a crash
of a daemon that has itself recovered. Two goals are needed for competition,
three items for a join; a fourth item in the second goal competes for a lane.
Lane limits are 1 so that lanes fill; the defaults are 1, 3, 2, 1. In `scheduler_restart`
a run may cost the whole budget of two, so that one started with a single unit left, on
either lane, passes it: `OverspendBounded` is reached with equality there. Deadlock is
not checked: the system is quiet when its goals have ended, or when it was stopped.

For the dispatch, four ticks cover the expiry of a claim (two ticks), a second
instant of both jobs (intervals of three and two) and one that is coalesced; four
goals are one more than those need; two crashes are one in each daemon, or two in
one. Daemons are interchangeable, so the safety run uses symmetry; the liveness
runs do not.

For the link, two sockets are an old connection and a new one; a fault is an end
of a process, a reopening, or a heartbeat that times out on a live connection.
`ipc_link` gives it commands and the life of a client until it is stopped and its
process ends (that a client is opened again in the same process, which nothing in
`src/src` does, is `MayReopen`, see the proofs), `ipc_recovery` events and
fairness: with a buffer of two and three events the buffer overflows,
and a flush that fails puts back less than it took. A socket's queue is bounded
for pings only (`MaxQueue`). For the gateway, two connections are what one slot of an
address can be contested by, two keys what a token can be; two messages that ask
for a session are two verifications at once, or a late promotion after a first. For
the cycle, five rounds are enough for the counters' longest run without action
(two times two) and a round beyond; `MaxRuns` is one, since the runs of an item are
the scheduler's. For failover, four ticks of a ttl of two let an entry expire and
be renewed within one request. For conversations, three messages are two that overlap
in one session and one that comes after its end, or in the other session; messages
and sessions may be exchanged for each other (symmetry). Connections from the
machine itself, which are promoted at once, are covered by the gateway's theorems
and not by its run.

*Fairness.* Weak fairness of `BeginTick`, `ProcessGoal`, `EndTick` and `Boot`, of
which one is enabled at a time: the timer fires, a loop goes on, the service manager
restarts the daemon. Strong fairness of each goal's commands and of each run's next
step: model calls and gate commands have timeouts, so they end, and the event loop
serves them between ticks, where they are enabled again and again. Nothing is assumed
of users, operators or crashes. `GoalSettles` is a statement under `MaxRuns`: without
that bound a recoverable failure is retried for ever. It names its one other exception,
`HeldByGates`; without it TLC shows it violated in the same instance. `LanesFree` needs
neither.
For the dispatch: weak fairness of the clock, of boots and of statements that are
next; strong fairness of a job's claim and of a goal's end, which take turns on the
event loop of an idle daemon. That goals end is an assumption here and the subject
of `GoalSettles`; a cancelled goal ends without an event, so `cron_liveness` has
no cancellation, and no crash, since `cron_restart` shows what one does.
For the link: weak fairness of the timer, of starts of both processes, of each
socket's events at each end, and of time-outs; none of faults, which are finitely
many. For the gateway: of the heartbeat's interval, of the timers, of `stop`, and
of sockets that one side has closed; none of clients and their signatures. `StopEnds`
names its exception: a client that has not authenticated when the server stops and
stays connected keeps `stop` waiting, because the manager's stop has cleared the timer
that would have closed it (the same client may authenticate while `stop` waits). For the cycle: of each
cycle's next step, since the provider's calls and the tools have time-outs.

## 4. Proofs

Every safety property a run checks is proved: each theorem is for every value of the
constants under the assumptions named in its module, listed in `PROJECT.json`, and
proved on the same definitions the runs check.

For the scheduler they hold for every set of goals and items, every dependency relation
(cycles too, but for `GoalsAreNeverStuck`), every lane limit and budget, any bound on
the cost of a run, on runs and on crashes. They rest on two assumptions: `GraphAssumption` (items are finitely
many, the maps are typed) and `LimitAssumption`.

`DependencySafety` is not inductive as it stands: a run that ends writes the
status of its item, and only `RunsMatchItems` says that the item is still in
the status the run left it in; that in turn needs promotion to leave items in
progress alone. So the invariant is proved as a whole:

    IInv == TypeOK /\ DependencySafety /\ RunsMatchItems /\ LaneAccounting
            /\ CompletedGoalsAreDone /\ FreshGoals /\ FailedGoals

- `StepMoves`: every step moves every item along one of four arrows; hence
  `EndedStays`, done and failed items stay what they are. (The scheduler never
  uses the table's way out of failed.)
- `DependencyStep`, `RunsStep`, `LanesStep` (with finite cardinalities:
  `ReleaseStep`, `SameRuns`), `FreshStep`, `FailedStep`, `CompletedStep` are the
  conjuncts; `Invariance` puts them together.
- `OneOutcome` follows: a goal reported as failed keeps a failed item
  (`FailedGoals`), a completed one has none.
- `Refinement`: stages are `waiting`, `running`, `done`, `failed`; each step under
  `IInv` is one of `Begin`, `Retry`, `Finish`, `Fail`, `Complete`, or invisible.
- `OverspendHolds`: a run that is executing holds a slot of a lane its goal may use
  (`LanesKept`), the lanes' counters are exact (`LaneAccounting`), so the runs fit the
  goal's slots (`RunsFitSlots`, by finite cardinalities). A run starts only within
  `StartsWithin`, with itself among the runs that fit; from then on each run under way
  counts as `MaxRunCost`, and one that ends pays no more (`CostOfRuns`, `SpendingStep`).
- `EndedGoalsRest`: from `TickInv`, a cancelled goal is out of the list the ticks
  walk, and a tick walks only goals of that list.
- `GoalsAreNeverStuck`, under `ValidDag`: dependencies stay within a goal and no set of
  items waits for itself. Nothing calls the code's test (`validateDAG`), but what writes
  items keeps it: `goal.submit`, the command line and the cron dispatch write items without
  dependencies, the planner sorts its plan and throws at a circle
  (`planning-service.ts:147`). With a circle the goal would be stuck for good.
  `ItemsInHand` is inductive with `IInv` (`HandStep`): an item in progress or in verify has
  its run or was left behind, a failed one was announced. So is what the daemon knows of
  a queued goal (`GoalsKnown`, `KnownStep`): it is told of it or walks it, and has not
  announced its failure. That a goal over its budget has a current item to escalate, but
  for a crash, is `SpendersKnown` (`SpendersStep`); that there are runs left under
  `MaxRuns` for an item to be started is `RunsLeft`. With no run under way the lanes have
  room (`IdleLanesHaveRoom`), some item not done depends only on items that are, and of
  those that may start one comes first (`SomeComesFirst`). `SomethingMoves` puts these
  together in the order of `processGoal`. TLC finds that, for a goal a tick has in hand
  and with no run under way, `WouldStart`, `WouldComplete` and a spent budget hold
  exactly when `StartWorkItem`, `CompleteGoal` and `HandleBudgetExceeded` are enabled.

For the dispatch, every set of daemons and jobs, every interval and number of
crashes, under `ScheduleAssumption` (the constants are typed, intervals are
positive) and `MayStall = FALSE`. `SingleOwner` is not inductive: a claim is
granted by clock and marker, so one must know that whoever dispatches a job holds
an unexpired claim, and that whoever waits for its goal finds his marker in the row.
`IInv` adds this (`TaskOK`, `TrackedOK`, `MarkersMatch`) and what a settled run
relies on.

- `ClaimableIsFree`: a job the claim query returns is in nobody's hands.
- `StatementKeeps`: a statement of one daemon that touches only its own job's rows
  and memory (`Frame`), while nobody else owns that job (`Alone`), keeps `IInv` if it
  keeps its own part (`OwnPart`). Each statement then has a lemma that shows these
  three; `StepKeeps` puts them together.
- `RunRowsStep`: a link is written only over none, an outcome only over an open run.
- `RunsStep`: marking is `Start`, settling is `Settle`, giving a job up and all the
  rest are invisible.
- `MarkersServed` needs `GoalsAwaited`: a goal a daemon waits for is in that daemon's
  scheduler, or its end is being handled, or it was cancelled. Each of its steps is a
  statement of the daemon that owns the job, which sets the marker and waits in turn
  (`AwaitedStep`, `ServedStep`).
- `OncePerInstant` needs `GoalsAccounted`: a goal whose instant is not yet the job's
  last one (`lastRun`) is in the hands of the daemon that created it. So a second goal of
  the instant would need a second owner, or an instant that is claimed again, and
  `lastRun` only grows (`LastRunGrows`, `CreatedGoal`, `OnceStep`).

For the link, any number of sockets, commands, events and faults and any limits,
under `LinkAssumption`. `NeverStranded` needs `ClientOK`: which fields of the client
go together (`socket` is set in `connecting` and `connected` only, and its end is
then dialing or open; a started client in another state has a timer). `SuccessMeansExecuted`
needs to know of every line on its way that a success names an executed command
(`ResultsOK`): the sequences are kept over a set `GoodLine`, and every action
appends good lines, drops some, or copies them from the buffer to the socket and back.

The order of events (`OrderInv`, in `IpcLinkOrder`) says where an event that has not
arrived may be: in the buffer or on a socket, and not in the buffer while a socket of the
client is open (`PlacesOK`). Along the order in which the server will read, events are newer
and newer, and newer than the latest that arrived (`EventsOrdered`). That order is the order
of the server's connections (`ConnsOK`), and the client holds one at a time, its timer
running only while it holds none (`OneConnection`). `QuietStep`, `TakenOut`,
`ConnectionMade` and `ConnectionGone` say which of these a step may touch; then each step
is a `LSend`, a `LDeliver` or invisible (`StepOnChannel`). It assumes `~MayReopen`: were the
client opened again in the same process, it could dial before its old socket has closed, and
TLC shows the refinement violated.

`CalmInv` is about the time before the first fault: what the client dialled stays open at
the server and nobody says goodbye, so every event emitted has arrived, is on its way, or
was dropped by a full buffer, which is `NothingLost`. The lemmas on sequences
(`EventsAppend`, `EventsConcat`, `EventsPart`, `EventsFirst`) carry sets and order of events
through appends, concatenations and heads.

For the gateway, any sets, limits and interleavings, under `GatewayAssumption`.
`CountsExact` says that a count is the number of charged connections;
`CountDownExact` carries it through every removal with finite cardinalities. That
a connection is charged once (`ChargedOnce`, `OpenIsCharged`) makes the removals
match the additions, and `FreshOK` says that a socket not yet open is in no table.
`PairedOnce` follows from what the sessions opened by a token have in common with
its row. `StopKnowsItsClients` is the safety half of `StopEnds`: since an open connection
is charged and one above the limit was closed at once (`RefusedStayShut`), what is open
when `stop` begins to wait was pending, and nothing opens while it waits (`ConnMoves`).

For the cycle, any limits of the loop, any lists of calls. The number of answers
without action is bounded because `idle <= noAction * (MaxEmptyRetries + 1) + empties`
(`IdleCounted`): a forgiven answer adds to `empties`, and the next one that counts
trades all of them for one of `noAction`. `AnswersWithoutAction` is the bound
itself, `RunsClosedByTheirCycles` the rows. `TokensAreConserved` counts tokens as
elements: `Counted` is the set of an item and a number up to its cycle's tokens, so a sum
over items is a cardinality, and its laws come from those of finite sets (`CountedSplit`,
`CountedChange`). `CyclesAreFinite` is what can be said of termination without fairness:
the rounds left, then the phase within a round (`Rank`), then the calls and searches left
make a lexicographic measure that every step of a cycle lowers (`StepsBringOn`). It rests
on `left > 0` wherever the loop asks, which is part of `IInv`.

For failover, any chain (an endpoint may serve several models of it, a model may
occur twice), any requests, ttl and length of calls. `GivenUpForAReason` is
proved for the walk down the chain from any position (`TryNextFine`); the
steps of other requests only add reasons, since `coolUntil` never decreases
(`CacheIsHonest` bounds it by the ttl from now). `CooldownHolds` follows from the
cache: an entry that is unavailable is not overwritten before it expires. `RequestsAreFinite`
is termination as above: a later model, or fewer endpoints to check, then to call.

For conversations, any sessions, messages and restarts, under `ConstantsAssumption`.
None of the three properties is inductive. `StateAgrees` needs that the machine a
handler holds is the one in the table (`OneMachine`), unless the session was ended
under it; that needs machines to have one session each (`Owners`, which also says
that the name of a message not yet arrived is free). `MonitoringHasTask` needs the
same of every state that is kept, in the object, in the table's machine and in those
of handlers left behind (`Tasks`), and that the rules lead to monitoring only from
executing (`TransitionType`). `EndedComesBackOnlyUnderway` needs `Names`: an
identifier given out stays given out, and a session ended for good has nothing in
hand. Each action has a lemma; `HandlerMoves` and `OwnersKept` carry what they share.

Only model-checked: the liveness properties (`GoalSettles`, `LanesFree`,
`DueInstantsRun`, `DaemonRegistered`, `BufferDrains`, `DeadSessionsReaped`, `StopEnds`,
`CycleEnds`), since fairness and ENABLED are beyond the prover. Four of them have a
proved counterpart without fairness: `NoGoalIsStuck`, `MarkersAreServed`,
`StopWaitsForPending`, `CyclesRunDown`. The violated property is shown by TLC's counterexample.

## 5. Divergences known from the models

Places where the models, and so the code, do what a document, a comment or a
table of the repository rules out. The first is shown by a run; the others were
found by TLC as violations of the quoted statements, and their steps are
reachable in the runs' instances.

- Durable jobs after a restart: `cron_restart`, see `PROJECT.json`.
- One goal per instant (`src/.sisyphus/plans/agent-loader-config-driven-agents.md:761`):
  in `CronDispatch`, a crash after `CreateGoal` and before `LinkRun` leaves a goal
  that the boot recovers, and the next dispatch, which finds the run without a
  goal, creates another.
- Verification leads to done or to another attempt
  (`src/docs/requirement/11-work-order-system.md:238-245`), and a failed item is retried
  a limited number of times (`:316`): in `SchedulerCore`, an item that fails its gates
  asks for `queued`, which the transition table rejects; the catch clause asks again,
  and unless its error text is one that is not retried the item stays in `verify` and
  its goal hangs. This is the ordinary course of a failed gate, not a corner case.
  A run that fails recoverably is retried without limit, since nothing counts retries.
- `cancelled: []` (`src/src/domain/work-order/state-machine.ts:8`): a tick between
  `RequestCancel` and `DeliverCancel`, or a run that outlives both, rewrites the row.
- `failed` is among the terminal statuses (`scheduler.ts:699`): a goal that failed
  between two ticks is walked once more before the cleanup and may start a run.
- No exceeded budget without escalation (`src/docs/techspec/scheduler-design.md:102`):
  after a `Boot` the goal has no current item, and the escalation's row breaks
  its foreign key at every tick.
- Interrupted items are resumed
  (`src/docs/requirement/10-autonomous-execution-model.md:753-772`): `Boot` submits
  queued goals only, and items in progress stay in progress.
- `executing` is entered on a confirmation, and a goal is created
  (`src/docs/techspec/conversation-agent-design.md:132`): in `Conversations`, with an
  active goal every message that is no status inquiry or cancellation leaves the
  machine in `executing`, where `Analyzed` creates another goal, small talk included.
- A goal of a conversation is executed (`task-bridge.ts:102`, not modelled):
  `connectScheduler` (`gateway-server.ts:468`) has no caller, so the bridge's scheduler
  is null and the queued row waits for the daemon's next boot.
- "tier-based model selection with fallback" (`llm-service.ts:150`, not modelled): the
  unified provider's last error is not recoverable (`unified-provider.ts:112`), and
  `completeWithTier` rethrows such an error before it tries the fallback.

## 6. Not modelled

- *Agent A*: its tick is the execution of a work item (`execution-engine-adapter.ts:108`),
  a success or a failure in `SchedulerCore` and `WorkCycle`; its pipeline over MCP and
  Postgres (cursors, rate limits, duplicates) is data.
- *MCP client*: connections to tool servers; a tool call is an outcome in `WorkCycle`.
- *OAuth accounts* (`cli/lib/auth-manager-v2.ts`): within one process a refresh is
  shared by a lock; between processes nothing is, since each reads the file once and
  writes it whole, so a login of the command line or a token rotated by one process
  is overwritten by the next write of another. No text of the repository says otherwise.
- *Permissions*: nothing constructs the enforcer.
- *Pid lock*: one file checked and written by processes that start; what two
  daemons do on one database is part of `CronDispatch`.
- *LLM adapters, tools, prompts, debug events, metrics, subscriptions, RPC queries*:
  I/O and data without control of their own, or outcomes chosen by the models.
- *Legacy bridges and the autonomy daemon*: superseded by the scheduler daemon.
- *User interfaces, configuration files*.

`PROJECT.json` has a note per component.

## 7. What could follow

Cron expressions as a function from an instant to the next one; broadcasts and
subscriptions over `GatewaySessions`; the composition of `SchedulerCore` with the
commands of `IpcLink` instead of its own two.
