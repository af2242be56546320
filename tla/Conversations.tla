--------------------------- MODULE Conversations ---------------------------
(* Conversations of the gateway: SessionManager with its state machines,   *)
(* the in-memory session repository and the task bridge. A message is      *)
(* handled in up to three pieces, cut where the code awaits a model: the   *)
(* arrival, the analysis (which may create a goal), and the reply. Other   *)
(* messages of the session, its end and a restart fall in between.         *)
(*                                                                         *)
(* A goal and a state machine are named after the message that made them.  *)
(* The text of turns is left out.                                          *)
EXTENDS Naturals

CONSTANTS
  Sid,       \* identifiers of sessions, each given out once
  Msg,       \* the messages of a behaviour (bounds it)
  None,
  MaxRestart \* bound: restarts of the gateway

ASSUME ConstantsAssumption == None \notin Msg \cup Sid /\ MaxRestart \in Nat

ConversationState ==
  {"idle", "chatting", "clarifying", "executing", "monitoring", "reporting", "retrying"}

Intent ==
  {"small_talk", "task_request", "status_inquiry", "cancellation", "confirmation",
   "clarification", "unknown"}

CONVERSATION_TRANSITIONS ==
  [from \in ConversationState |->
     CASE from = "idle"       -> {"chatting", "clarifying", "executing"}
       [] from = "chatting"   -> {"idle", "clarifying", "executing"}
       [] from = "clarifying" -> {"chatting", "executing", "idle"}
       [] from = "executing"  -> {"monitoring", "reporting", "retrying"}
       [] from = "monitoring" -> {"reporting", "retrying", "idle"}
       [] from = "reporting"  -> {"idle", "chatting", "clarifying"}
       [] from = "retrying"   -> {"executing", "reporting", "idle"}]

VARIABLES
  session,   \* the session objects; live: in the repository's map
  table,     \* stateMachines: the machine of a session
  machine,   \* the state of each machine
  msg,       \* the handlers of the messages
  restarts,
  seen       \* for the properties only: ended sessions, those ended while a
             \* message was being handled, those with a message that failed,
             \* and those whose goal was not created

vars == <<session, table, machine, msg, restarts, seen>>

Session == [live : BOOLEAN, made : BOOLEAN, state : ConversationState,
            activeGoalId : Msg \cup {None}]
Handler == [pc : {"new", "analyzing", "replying", "ready", "over"},
            sid : Sid \cup {None}, by : Msg \cup {None}]
Seen == [ended : SUBSET Sid, cut : SUBSET Sid, failed : SUBSET Sid, uncreated : SUBSET Sid]

TypeOK ==
  /\ session \in [Sid -> Session]
  /\ table \in [Sid -> Msg \cup {None}]
  /\ machine \in [Msg -> ConversationState]
  /\ msg \in [Msg -> Handler]
  /\ restarts \in 0..MaxRestart
  /\ seen \in Seen

NoHandler == [pc |-> "new", sid |-> None, by |-> None]
Done == [NoHandler EXCEPT !.pc = "over"]

Init ==
  /\ session = [s \in Sid |-> [live |-> FALSE, made |-> FALSE, state |-> "idle",
                               activeGoalId |-> None]]
  /\ table = [s \in Sid |-> None]
  /\ machine = [m \in Msg |-> "idle"]
  /\ msg = [m \in Msg |-> NoHandler]
  /\ restarts = 0
  /\ seen = [ended |-> {}, cut |-> {}, failed |-> {}, uncreated |-> {}]

-----------------------------------------------------------------------------
InHand(m) == msg[m].pc \in {"analyzing", "replying", "ready"}

(* Mutant: a session that is not in the repository is made under the name  *)
(* the client gave.                                                        *)
CreateUnderName(s) == s \in Sid

(* The session the client names, or a new one with a fresh identifier if   *)
(* it names none or one that is not in the repository.                     *)
GetOrCreate(s) == session[s].live \/ ~session[s].made

(* Mutant: every message has a machine of its own. *)
FreshMachine(m, s) == m

MachineFor(m, s) == IF table[s] = None THEN m ELSE table[s]

Arrive(m, s) ==
  LET by == MachineFor(m, s)
  IN  /\ msg[m].pc = "new"
      /\ GetOrCreate(s)
      /\ session' = [session EXCEPT ![s].live = TRUE, ![s].made = TRUE]
      /\ table' = [table EXCEPT ![s] = by]
      /\ machine' = IF by = m THEN [machine EXCEPT ![m] = session[s].state] ELSE machine
      /\ msg' = [msg EXCEPT ![m] = [pc |-> "analyzing", sid |-> s, by |-> by]]
      /\ UNCHANGED <<restarts, seen>>

(* determineNextState, for a message of the intent, with information       *)
(* missing or not, in a session with a task or not.                        *)
MapIntentToState(at, intent, missing) ==
  CASE intent = "small_talk"     -> "chatting"
    [] intent = "task_request"   -> IF missing THEN "clarifying" ELSE "executing"
    [] intent = "status_inquiry" -> "monitoring"
    [] intent = "cancellation"   -> "reporting"
    [] intent = "confirmation"   -> IF at = "clarifying" THEN "executing" ELSE at
    [] intent = "clarification"  -> "clarifying"
    [] intent = "unknown"        -> IF at = "idle" THEN "chatting" ELSE at

DetermineNextState(at, intent, missing, hasActiveTask) ==
  CASE hasActiveTask /\ intent = "status_inquiry" -> "monitoring"
    [] hasActiveTask /\ intent = "cancellation" -> "reporting"
    [] /\ hasActiveTask /\ at \in {"executing", "monitoring"}
       /\ intent \notin {"status_inquiry", "cancellation"} -> at
    [] OTHER -> MapIntentToState(at, intent, missing)

(* Mutant: the rules are not asked. *)
TransitionAlways(at, to) == to

(* transition refuses what the rules do not list and keeps the state. *)
Transition(at, to) == IF to \in CONVERSATION_TRANSITIONS[at] THEN to ELSE at

(* handleExecuting: a goal, which becomes the active one of the session,   *)
(* whatever the intent of the message that found the machine executing;    *)
(* updateSession puts the object into the map again.                       *)
CreateGoal(m, s) ==
  /\ session' = [session EXCEPT ![s].activeGoalId = m, ![s].live = TRUE]
  /\ UNCHANGED seen

GoalNotCreated(s) ==
  /\ seen' = [seen EXCEPT !.uncreated = @ \cup {s}, !.failed = @ \cup {s}]
  /\ UNCHANGED session

Analyzed(m, intent, missing) ==
  LET s  == msg[m].sid
      at == machine[msg[m].by]
      to == Transition(at, DetermineNextState(at, intent, missing,
                                              session[s].activeGoalId # None))
  IN  /\ msg[m].pc = "analyzing"
      /\ machine' = [machine EXCEPT ![msg[m].by] = to]
      /\ \/ /\ to = "executing"
            /\ CreateGoal(m, s)
            /\ msg' = [msg EXCEPT ![m].pc = "replying"]
         \/ /\ to = "executing"
            /\ GoalNotCreated(s)
            /\ msg' = [msg EXCEPT ![m] = Done]
         \/ /\ to # "executing"
            /\ msg' = [msg EXCEPT ![m].pc =
                 IF to = "monitoring" /\ session[s].activeGoalId = None
                 THEN "ready" ELSE "replying"]
            /\ UNCHANGED <<session, seen>>
      /\ UNCHANGED <<table, restarts>>

(* A missing persona, an analysis without its purpose, or a model that     *)
(* cannot be reached for the reply: the message is answered by an error.   *)
Fails(m) ==
  /\ msg[m].pc \in {"analyzing", "replying"}
  /\ msg' = [msg EXCEPT ![m] = Done]
  /\ seen' = [seen EXCEPT !.failed = @ \cup {msg[m].sid}]
  /\ UNCHANGED <<session, table, machine, restarts>>

(* Mutant: the state that is stored is the one the session had. *)
StoreOldState(m) ==
  session' = [session EXCEPT ![msg[m].sid].live = TRUE]

(* The state is read from the handler's own machine, and the object goes   *)
(* into the map, whether or not it is still there.                         *)
UpdateSession(m) ==
  session' = [session EXCEPT ![msg[m].sid].state = machine[msg[m].by],
                             ![msg[m].sid].live = TRUE]

Reply(m) ==
  /\ msg[m].pc \in {"replying", "ready"}
  /\ UpdateSession(m)
  /\ msg' = [msg EXCEPT ![m] = Done]
  /\ UNCHANGED <<table, machine, restarts, seen>>

EndSession(s) ==
  /\ session[s].live
  /\ session' = [session EXCEPT ![s].live = FALSE]
  /\ table' = [table EXCEPT ![s] = None]
  /\ seen' = [seen EXCEPT !.ended = @ \cup {s},
                          !.cut = IF \E m \in Msg : msg[m].sid = s /\ InHand(m)
                                  THEN @ \cup {s} ELSE @]
  /\ UNCHANGED <<machine, msg, restarts>>

(* The gateway ends and comes back: sessions, machines and timers are in   *)
(* its memory only.                                                        *)
Restart ==
  /\ restarts < MaxRestart
  /\ restarts' = restarts + 1
  /\ session' = [s \in Sid |-> [session[s] EXCEPT !.live = FALSE]]
  /\ table' = [s \in Sid |-> None]
  /\ msg' = [m \in Msg |-> IF InHand(m) THEN Done ELSE msg[m]]
  /\ UNCHANGED <<machine, seen>>

-----------------------------------------------------------------------------
Next ==
  \/ \E m \in Msg, s \in Sid : Arrive(m, s)
  \/ \E m \in Msg, intent \in Intent, missing \in BOOLEAN : Analyzed(m, intent, missing)
  \/ \E m \in Msg : Fails(m) \/ Reply(m)
  \/ \E s \in Sid : EndSession(s)
  \/ Restart

Spec == Init /\ [][Next]_vars

-----------------------------------------------------------------------------
(* PROPERTIES *)

(* A machine that a session has in the table is the one its handlers use,  *)
(* unless the session was ended under them: otherwise two messages of one  *)
(* session move two machines, and the one that replies last decides        *)
(* (SessionManager.processMessageInternal, endSession).                    *)
OneMachine ==
  \A m \in Msg : InHand(m) /\ msg[m].sid \notin seen.cut => table[msg[m].sid] = msg[m].by

(* Once the messages of a session were all answered, what conversation.status  *)
(* says is what the machine is in, however the messages overlapped.        *)
StateAgrees ==
  \A s \in Sid \ (seen.ended \cup seen.failed) :
    /\ session[s].live
    /\ table[s] # None
    /\ \A m \in Msg : InHand(m) => msg[m].sid # s
    => session[s].state = machine[table[s]]

(* A session that was ended comes back only through a message that was     *)
(* being handled when it ended, never because a client names it.           *)
EndedComesBackOnlyUnderway ==
  \A s \in seen.ended : session[s].live => s \in seen.cut

(* The machines have an owner each: no two sessions share one in the       *)
(* table, nor do handlers of different sessions; the name of a message     *)
(* that has not arrived is not taken.                                      *)
Owners ==
  /\ \A s, t \in Sid : table[s] # None /\ table[s] = table[t] => s = t
  /\ \A m \in Msg, s \in Sid : InHand(m) /\ table[s] = msg[m].by => s = msg[m].sid
  /\ \A m, n \in Msg : InHand(m) /\ InHand(n) /\ msg[m].by = msg[n].by
                         => msg[m].sid = msg[n].sid
  /\ \A m \in Msg : InHand(m) => msg[m].sid \in Sid /\ msg[m].by \in Msg
  /\ \A m \in Msg : msg[m].pc = "new" =>
       /\ \A s \in Sid : table[s] # m
       /\ \A n \in Msg : InHand(n) => msg[n].by # m

(* A machine of session s in state at has a goal to execute or monitor. *)
HasTask(s, at) ==
  at \in {"executing", "monitoring"} =>
    session[s].activeGoalId # None \/ s \in seen.uncreated

(* HasTask wherever a state of the session is kept: in its object, in its  *)
(* machine, and in the machines of handlers it was ended under.            *)
Tasks ==
  \A s \in Sid :
    /\ HasTask(s, session[s].state)
    /\ table[s] # None => HasTask(s, machine[table[s]])
    /\ \A m \in Msg : InHand(m) /\ msg[m].sid = s => HasTask(s, machine[msg[m].by])

(* A session that was made keeps its name; ended for good, it has no       *)
(* message in hand.                                                        *)
Names ==
  /\ seen.cut \subseteq seen.ended
  /\ \A s \in Sid : session[s].live \/ s \in seen.ended => session[s].made
  /\ \A m \in Msg : InHand(m) => session[msg[m].sid].made
  /\ \A m \in Msg : InHand(m) /\ msg[m].sid \in seen.ended => msg[m].sid \in seen.cut

(* The inductive invariant: types, whose machine is whose, the tasks, and  *)
(* the fate of names, which give the two properties before it.             *)
IInv ==
  /\ TypeOK /\ OneMachine /\ Owners /\ Tasks /\ Names
  /\ EndedComesBackOnlyUnderway /\ StateAgrees

(* A session that executes or is monitored has a goal to show, except one  *)
(* whose goal could not be created (domain/conversation/state-machine-     *)
(* rules.ts: monitoring has an active task).                               *)
MonitoringHasTask ==
  \A s \in Sid :
    /\ s \notin seen.uncreated
    /\ table[s] # None
    /\ machine[table[s]] \in {"executing", "monitoring"}
    => session[s].activeGoalId # None
=============================================================================
