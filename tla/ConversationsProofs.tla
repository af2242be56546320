------------------------ MODULE ConversationsProofs ------------------------
(* What holds of Conversations for any sessions, messages and restarts.    *)
EXTENDS Conversations, TLAPS

(* What a handler that is in hand knows, in a state of the invariant.      *)
LEMMA Here ==
  ASSUME IInv, NEW m \in Msg, InHand(m)
  PROVE  /\ msg[m].sid \in Sid /\ msg[m].by \in Msg
         /\ msg[m].sid # None /\ msg[m].by # None
         /\ HasTask(msg[m].sid, machine[msg[m].by])
BY ConstantsAssumption DEF IInv, Owners, Tasks

(* The rules: what executes or is monitored was executing or being         *)
(* monitored, or executes now, and then a goal is made.                    *)
LEMMA TransitionType ==
  ASSUME NEW at \in ConversationState, NEW to \in ConversationState
  PROVE  /\ Transition(at, to) \in ConversationState
         /\ Transition(at, to) = "monitoring" => at \in {"executing", "monitoring"}
BY DEF Transition, CONVERSATION_TRANSITIONS, ConversationState

LEMMA DetermineType ==
  ASSUME NEW at \in ConversationState, NEW intent \in Intent,
         NEW missing \in BOOLEAN, NEW has \in BOOLEAN
  PROVE  DetermineNextState(at, intent, missing, has) \in ConversationState
BY DEF DetermineNextState, MapIntentToState, ConversationState, Intent

(* The program starts in the invariant.                                    *)
LEMMA InitInv == Init => IInv
BY ConstantsAssumption
DEF Init, IInv, TypeOK, OneMachine, Owners, Tasks, HasTask, Names,
    EndedComesBackOnlyUnderway, StateAgrees, InHand, Session, Handler, Seen,
    NoHandler, ConversationState

(* A message arrives.                                                      *)
LEMMA ArriveInv ==
  ASSUME IInv, NEW m \in Msg, NEW s \in Sid, Arrive(m, s)
  PROVE  IInv'
<1> DEFINE by == MachineFor(m, s)
<1>1. /\ msg[m].pc = "new" /\ GetOrCreate(s)
      /\ session' = [session EXCEPT ![s].live = TRUE, ![s].made = TRUE]
      /\ table' = [table EXCEPT ![s] = by]
      /\ machine' = IF by = m THEN [machine EXCEPT ![m] = session[s].state] ELSE machine
      /\ msg' = [msg EXCEPT ![m] = [pc |-> "analyzing", sid |-> s, by |-> by]]
      /\ UNCHANGED <<restarts, seen>>
  BY DEF Arrive
<1>2. TypeOK /\ OneMachine /\ Owners /\ Tasks /\ Names
      /\ EndedComesBackOnlyUnderway /\ StateAgrees
  BY DEF IInv
<1>3. by \in Msg /\ (by = m \/ by = table[s])
  BY <1>2 DEF MachineFor, TypeOK
<1>4. TypeOK'
  <2>1. session' \in [Sid -> Session]
    BY <1>1, <1>2 DEF TypeOK, Session
  <2>2. table' \in [Sid -> Msg \cup {None}]
    BY <1>1, <1>2, <1>3 DEF TypeOK
  <2>3. machine' \in [Msg -> ConversationState]
    BY <1>1, <1>2 DEF TypeOK, Session
  <2>4. [pc |-> "analyzing", sid |-> s, by |-> by] \in Handler
    BY <1>3 DEF Handler
  <2>5. msg' \in [Msg -> Handler]
    BY <1>1, <1>2, <2>4 DEF TypeOK
  <2> HIDE DEF by
  <2> QED
    BY <1>1, <1>2, <2>1, <2>2, <2>3, <2>5 DEF TypeOK
<1>5. /\ session[s].live \/ ~session[s].made
      /\ \A t \in Sid : /\ session'[t].state = session[t].state
                        /\ session'[t].activeGoalId = session[t].activeGoalId
                        /\ session[t].made => session'[t].made
                        /\ t # s => session'[t] = session[t]
      /\ session'[s].live /\ session'[s].made
  BY <1>1, <1>2 DEF TypeOK, Session, GetOrCreate
<1>6. /\ table'[s] = by /\ \A t \in Sid \ {s} : table'[t] = table[t]
      /\ msg'[m] = [pc |-> "analyzing", sid |-> s, by |-> by]
      /\ \A n \in Msg \ {m} : msg'[n] = msg[n]
      /\ \A n \in Msg \ {m} : InHand(n)' <=> InHand(n)
      /\ InHand(m)' /\ ~InHand(m)
      /\ seen' = seen
  BY <1>1, <1>2 DEF TypeOK, InHand
<1>7. /\ \A t \in Sid : table[t] # m
      /\ \A n \in Msg : InHand(n) => msg[n].by # m
  BY <1>1, <1>2 DEF Owners
<1>8. table[s] # None => by = table[s]
  BY DEF MachineFor
<1>9. \A n \in Msg : InHand(n) => msg[n].sid \in Sid /\ msg[n].by \in Msg
  BY <1>2 DEF Owners
<1>10. OneMachine'
  BY <1>2, <1>6, <1>8, <1>9, ConstantsAssumption DEF OneMachine
<1>11. Owners'
  <2>1. \A t \in Sid : table'[t] # None /\ table'[t] = by => t = s
    BY <1>2, <1>3, <1>6, <1>7, ConstantsAssumption DEF Owners
  <2>2. \A n \in Msg : InHand(n) /\ msg[n].by = by => msg[n].sid = s
    BY <1>2, <1>3, <1>7 DEF Owners
  <2>3. \A n \in Msg \ {m} : msg[n].pc = "new" => by # n
    BY <1>2, <1>3 DEF Owners
  <2> HIDE DEF by
  <2>4. \A t, u \in Sid : table'[t] # None /\ table'[t] = table'[u] => t = u
    BY <1>2, <1>6, <2>1 DEF Owners
  <2>5. \A n \in Msg, t \in Sid : InHand(n)' /\ table'[t] = msg'[n].by => t = msg'[n].sid
    BY <1>2, <1>3, <1>6, <1>9, <2>1, <2>2, ConstantsAssumption DEF Owners
  <2>6. \A n, o \in Msg : InHand(n)' /\ InHand(o)' /\ msg'[n].by = msg'[o].by
                           => msg'[n].sid = msg'[o].sid
    <3> SUFFICES ASSUME NEW n \in Msg, NEW o \in Msg, InHand(n)', InHand(o)',
                        msg'[n].by = msg'[o].by
                 PROVE  msg'[n].sid = msg'[o].sid
      OBVIOUS
    <3>1. CASE n # m /\ o # m
      BY <1>2, <1>6, <3>1 DEF Owners
    <3>2. CASE n = m \/ o = m
      BY <1>6, <2>2, <3>2
    <3> QED
      BY <3>1, <3>2
  <2>7. \A n \in Msg : InHand(n)' => msg'[n].sid \in Sid /\ msg'[n].by \in Msg
    BY <1>3, <1>6, <1>9
  <2>8. ASSUME NEW n \in Msg, msg'[n].pc = "new"
        PROVE  /\ \A t \in Sid : table'[t] # n
               /\ \A o \in Msg : InHand(o)' => msg'[o].by # n
    <3>1. n # m /\ msg[n].pc = "new"
      BY <1>6, <2>8
    <3> QED
      BY <1>2, <1>6, <2>3, <3>1 DEF Owners
  <2> QED
    BY <2>4, <2>5, <2>6, <2>7, <2>8 DEF Owners
<1>12. Tasks'
  <2>1. /\ \A n \in Msg : n # m => machine'[n] = machine[n]
        /\ machine'[by] = IF by = m THEN session[s].state ELSE machine[by]
    BY <1>1, <1>2, <1>3 DEF TypeOK
  <2>2. ASSUME NEW t \in Sid, NEW at, HasTask(t, at)
        PROVE  HasTask(t, at)'
    BY <1>5, <1>6, <2>2 DEF HasTask
  <2> HIDE DEF by
  <2>3. HasTask(s, machine'[by])
    BY <1>2, <1>3, <1>8, <2>1, ConstantsAssumption DEF Tasks
  <2>4. ASSUME NEW t \in Sid
        PROVE  /\ HasTask(t, session[t].state)
               /\ table[t] # None => HasTask(t, machine'[table[t]])
    BY <1>2, <1>7, <2>1 DEF Tasks, TypeOK
  <2>5. ASSUME NEW n \in Msg, InHand(n)
        PROVE  HasTask(msg[n].sid, machine'[msg[n].by])
    BY <1>2, <1>7, <1>9, <2>1, <2>5 DEF Tasks
  <2> QED
    BY <1>5, <1>6, <1>9, <2>2, <2>3, <2>4, <2>5 DEF Tasks
<1>13. Names'
  <2>1. seen.cut \subseteq seen.ended
    BY <1>2 DEF Names
  <2>2. \A t \in Sid : session'[t].live \/ t \in seen.ended => session'[t].made
    BY <1>2, <1>5 DEF Names
  <2>3. s \in seen.ended => s \in seen.cut
    BY <1>2, <1>5 DEF Names, EndedComesBackOnlyUnderway
  <2> HIDE DEF by
  <2>4. \A n \in Msg : InHand(n)' => session'[msg'[n].sid].made
    BY <1>2, <1>5, <1>6, <1>9 DEF Names
  <2>5. \A n \in Msg : InHand(n)' /\ msg'[n].sid \in seen.ended => msg'[n].sid \in seen.cut
    BY <1>2, <1>6, <2>3 DEF Names
  <2> QED
    BY <1>6, <2>1, <2>2, <2>4, <2>5 DEF Names
<1>14. EndedComesBackOnlyUnderway'
  BY <1>2, <1>5, <1>6 DEF Names, EndedComesBackOnlyUnderway, TypeOK, Seen
<1>15. StateAgrees'
  <2> SUFFICES ASSUME NEW t \in Sid \ (seen.ended \cup seen.failed), table'[t] # None,
                      session'[t].live, \A n \in Msg : InHand(n)' => msg'[n].sid # t
               PROVE  session'[t].state = machine'[table'[t]]
    BY <1>6 DEF StateAgrees
  <2>1. t # s
    BY <1>6
  <2>2. table[t] # None /\ session[t].live /\ table[t] \in Msg /\ table[t] # m
    BY <1>2, <1>5, <1>6, <1>7, <2>1 DEF TypeOK
  <2>3. \A n \in Msg : InHand(n) => msg[n].sid # t
    BY <1>6
  <2>4. machine'[table[t]] = machine[table[t]]
    BY <1>1, <1>2, <2>2 DEF TypeOK
  <2> QED
    BY <1>2, <1>5, <1>6, <2>1, <2>2, <2>3, <2>4 DEF StateAgrees
<1> QED
  BY <1>2, <1>4, <1>10, <1>11, <1>12, <1>13, <1>14, <1>15 DEF IInv

(* A step after which handlers in hand were in hand with the same session  *)
(* and machine, and the table is the same or has lost entries, leaves the  *)
(* machines with their owners.                                             *)
LEMMA OwnersKept ==
  ASSUME IInv,
         \A s \in Sid : table'[s] = table[s] \/ table'[s] = None,
         \A m \in Msg : InHand(m)' => /\ InHand(m)
                                     /\ msg'[m].sid = msg[m].sid /\ msg'[m].by = msg[m].by,
         \A m \in Msg : msg'[m].pc = "new" => msg[m].pc = "new"
  PROVE  Owners'
<1>1. Owners /\ None \notin Msg
  BY ConstantsAssumption DEF IInv
<1>2. \A s, t \in Sid : table'[s] # None /\ table'[s] = table'[t] => s = t
  BY <1>1 DEF Owners
<1>3. \A m \in Msg, s \in Sid : InHand(m)' /\ table'[s] = msg'[m].by => s = msg'[m].sid
  BY <1>1 DEF Owners
<1>4. \A m, n \in Msg : InHand(m)' /\ InHand(n)' /\ msg'[m].by = msg'[n].by
                         => msg'[m].sid = msg'[n].sid
  BY <1>1 DEF Owners
<1>5. \A m \in Msg : InHand(m)' => msg'[m].sid \in Sid /\ msg'[m].by \in Msg
  BY <1>1 DEF Owners
<1>6. ASSUME NEW m \in Msg, msg'[m].pc = "new"
      PROVE  /\ \A s \in Sid : table'[s] # m
             /\ \A n \in Msg : InHand(n)' => msg'[n].by # m
  BY <1>1, <1>6 DEF Owners
<1> QED
  BY <1>2, <1>3, <1>4, <1>5, <1>6 DEF Owners

(* One handler m goes to where; the others stay where they are.            *)
LEMMA HandlerMoves ==
  ASSUME IInv, NEW m \in Msg, InHand(m), NEW where \in {"replying", "ready", "over"},
         \/ msg' = [msg EXCEPT ![m].pc = where]
         \/ where = "over" /\ msg' = [msg EXCEPT ![m] = Done]
  PROVE  /\ msg' \in [Msg -> Handler]
         /\ \A n \in Msg : InHand(n)' => /\ InHand(n)
                                       /\ msg'[n].sid = msg[n].sid /\ msg'[n].by = msg[n].by
         /\ \A n \in Msg : msg'[n].pc = "new" => msg[n].pc = "new"
         /\ \A n \in Msg \ {m} : InHand(n) => InHand(n)' /\ msg'[n] = msg[n]
         /\ where # "over" => InHand(m)'
BY DEF IInv, TypeOK, Handler, InHand, Done, NoHandler

(* The end of a handler, its table and the machines as they were.          *)
LEMMA HandlerEnds ==
  ASSUME IInv, NEW m \in Msg, InHand(m), msg' = [msg EXCEPT ![m] = Done],
         UNCHANGED <<table, machine>>, seen'.cut = seen.cut
  PROVE  /\ OneMachine' /\ Owners'
         /\ \A n \in Msg : InHand(n)' => InHand(n) /\ n # m /\ msg'[n] = msg[n]
<1>1. /\ \A n \in Msg : InHand(n)' => /\ InHand(n)
                                     /\ msg'[n].sid = msg[n].sid /\ msg'[n].by = msg[n].by
      /\ \A n \in Msg : msg'[n].pc = "new" => msg[n].pc = "new"
  BY HandlerMoves
<1>2. \A n \in Msg : InHand(n)' => InHand(n) /\ n # m /\ msg'[n] = msg[n]
  BY DEF IInv, TypeOK, InHand, Done, NoHandler
<1>3. Owners'
  BY <1>1, OwnersKept
<1>4. OneMachine'
  BY <1>1 DEF OneMachine, IInv
<1> QED
  BY <1>2, <1>3, <1>4

(* A message fails.                                                        *)
LEMMA FailsInv ==
  ASSUME IInv, NEW m \in Msg, Fails(m)
  PROVE  IInv'
<1>1. /\ InHand(m) /\ msg' = [msg EXCEPT ![m] = Done]
      /\ seen' = [seen EXCEPT !.failed = @ \cup {msg[m].sid}]
      /\ UNCHANGED <<session, table, machine, restarts>>
  BY DEF Fails, InHand
<1>2. TypeOK /\ Tasks /\ Names /\ EndedComesBackOnlyUnderway /\ StateAgrees
  BY DEF IInv
<1>3. /\ seen' \in Seen /\ seen'.cut = seen.cut /\ seen'.ended = seen.ended
      /\ seen'.uncreated = seen.uncreated
      /\ seen'.failed = seen.failed \cup {msg[m].sid}
  BY <1>1, <1>2, Here DEF TypeOK, Seen
<1>4. /\ OneMachine' /\ Owners'
      /\ \A n \in Msg : InHand(n)' => InHand(n) /\ n # m /\ msg'[n] = msg[n]
  BY <1>1, <1>3, HandlerEnds
<1>5. TypeOK'
  BY <1>1, <1>2, <1>3, HandlerMoves DEF TypeOK
<1>6. Tasks'
  BY <1>1, <1>2, <1>3, <1>4 DEF Tasks, HasTask
<1>7. Names' /\ EndedComesBackOnlyUnderway'
  BY <1>1, <1>2, <1>3, <1>4 DEF Names, EndedComesBackOnlyUnderway
<1>8. StateAgrees'
  <2> SUFFICES ASSUME NEW t \in Sid \ (seen.ended \cup seen'.failed), session[t].live,
                      table[t] # None, \A n \in Msg : InHand(n)' => msg'[n].sid # t
               PROVE  session[t].state = machine[table[t]]
    BY <1>1, <1>3 DEF StateAgrees
  <2>1. \A n \in Msg : InHand(n) => msg[n].sid # t
    <3>1. msg[m].sid # t
      BY <1>3
    <3> QED
      BY <1>1, <3>1, HandlerMoves
  <2> QED
    BY <1>2, <1>3, <2>1 DEF StateAgrees
<1> QED
  BY <1>4, <1>5, <1>6, <1>7, <1>8 DEF IInv

(* A message is answered: the session gets the state of the handler's      *)
(* machine, which is the session's unless it was ended under the handler.  *)
LEMMA ReplyInv ==
  ASSUME IInv, NEW m \in Msg, Reply(m)
  PROVE  IInv'
<1> DEFINE s == msg[m].sid
<1>1. /\ InHand(m) /\ msg' = [msg EXCEPT ![m] = Done]
      /\ session' = [session EXCEPT ![s].state = machine[msg[m].by], ![s].live = TRUE]
      /\ UNCHANGED <<table, machine, restarts, seen>>
  BY DEF Reply, UpdateSession, InHand
<1>2. /\ TypeOK /\ Tasks /\ Names /\ OneMachine
      /\ EndedComesBackOnlyUnderway /\ StateAgrees
  BY DEF IInv
<1>3. s \in Sid /\ msg[m].by \in Msg /\ HasTask(s, machine[msg[m].by])
  BY <1>1, Here
<1>4. /\ OneMachine' /\ Owners'
      /\ \A n \in Msg : InHand(n)' => InHand(n) /\ n # m /\ msg'[n] = msg[n]
  BY <1>1, HandlerEnds
<1>5. /\ session' \in [Sid -> Session]
      /\ session'[s].state = machine[msg[m].by]
      /\ \A t \in Sid : /\ session'[t].activeGoalId = session[t].activeGoalId
                        /\ session'[t].made = session[t].made
                        /\ t # s => session'[t] = session[t]
  BY <1>1, <1>2, <1>3 DEF TypeOK, Session
<1>6. TypeOK'
  <2>1. msg' \in [Msg -> Handler]
    BY <1>1, HandlerMoves
  <2> QED
    BY <1>1, <1>2, <1>5, <2>1 DEF TypeOK
<1> HIDE DEF s
<1>7. Tasks'
  BY <1>1, <1>2, <1>3, <1>4, <1>5 DEF Tasks, HasTask
<1>8. session[s].made /\ (s \in seen.ended => s \in seen.cut)
  BY <1>1, <1>2 DEF Names, s
<1>9. Names' /\ EndedComesBackOnlyUnderway'
  <2>1. \A t \in Sid : session'[t].live => session[t].live \/ t = s
    BY <1>5
  <2>2. \A n \in Msg : InHand(n) => msg[n].sid \in Sid
    BY Here
  <2>3. Names'
    <3>1. \A t \in Sid : session'[t].live \/ t \in seen.ended => session'[t].made
      BY <1>2, <1>5, <1>8, <2>1 DEF Names
    <3>2. \A n \in Msg : InHand(n)' => session'[msg'[n].sid].made
      BY <1>2, <1>4, <1>5, <2>2 DEF Names
    <3>3. \A n \in Msg : InHand(n)' /\ msg'[n].sid \in seen.ended => msg'[n].sid \in seen.cut
      BY <1>2, <1>4 DEF Names
    <3>4. seen.cut \subseteq seen.ended
      BY <1>2 DEF Names
    <3> QED
      BY <1>1, <3>1, <3>2, <3>3, <3>4 DEF Names
  <2> QED
    BY <1>1, <1>2, <1>8, <2>1, <2>3 DEF EndedComesBackOnlyUnderway, TypeOK, Seen
<1>10. StateAgrees'
  <2> SUFFICES ASSUME NEW t \in Sid \ (seen.ended \cup seen.failed), session'[t].live,
                      table[t] # None, \A n \in Msg : InHand(n)' => msg'[n].sid # t
               PROVE  session'[t].state = machine[table[t]]
    BY <1>1 DEF StateAgrees
  <2>1. CASE t = s
    <3>1. t \notin seen.cut
      BY <1>2 DEF Names
    <3>2. table[t] = msg[m].by
      BY <1>1, <1>2, <2>1, <3>1 DEF OneMachine, s
    <3> QED
      BY <1>5, <2>1, <3>2
  <2>2. CASE t # s
    <3>1. \A n \in Msg : InHand(n) => msg[n].sid # t
      BY <1>1, <2>2, HandlerMoves DEF s
    <3> QED
      BY <1>2, <1>5, <2>2, <3>1 DEF StateAgrees
  <2> QED
    BY <2>1, <2>2
<1> QED
  BY <1>4, <1>6, <1>7, <1>9, <1>10 DEF IInv

(* A session ends: its handlers, if any, make it one that was cut.         *)
LEMMA EndSessionInv ==
  ASSUME IInv, NEW s \in Sid, EndSession(s)
  PROVE  IInv'
<1>1. /\ session[s].live
      /\ session' = [session EXCEPT ![s].live = FALSE]
      /\ table' = [table EXCEPT ![s] = None]
      /\ UNCHANGED <<machine, msg, restarts>>
  BY DEF EndSession
<1>2. /\ TypeOK /\ Tasks /\ Names /\ OneMachine
      /\ EndedComesBackOnlyUnderway /\ StateAgrees
  BY DEF IInv
<1>3. /\ seen' \in Seen /\ seen'.ended = seen.ended \cup {s}
      /\ seen'.cut \subseteq seen.cut \cup {s} /\ seen.cut \subseteq seen'.cut
      /\ seen'.failed = seen.failed /\ seen'.uncreated = seen.uncreated
      /\ \A m \in Msg : InHand(m) /\ msg[m].sid = s => s \in seen'.cut
  BY <1>2 DEF EndSession, TypeOK, Seen
<1>4. /\ session' \in [Sid -> Session] /\ ~session'[s].live
      /\ \A t \in Sid : /\ session'[t].activeGoalId = session[t].activeGoalId
                        /\ session'[t].state = session[t].state
                        /\ session'[t].made = session[t].made
                        /\ t # s => session'[t] = session[t]
  BY <1>1, <1>2 DEF TypeOK, Session
<1>5. table'[s] = None /\ \A t \in Sid \ {s} : table'[t] = table[t]
  BY <1>1, <1>2 DEF TypeOK
<1>6. \A m \in Msg : InHand(m)' <=> InHand(m)
  BY <1>1 DEF InHand
<1>7. TypeOK'
  BY <1>1, <1>2, <1>3, <1>4 DEF TypeOK
<1>8. Owners'
  BY <1>1, <1>5, <1>6, OwnersKept
<1>9. OneMachine'
  BY <1>1, <1>2, <1>3, <1>5, <1>6, Here DEF OneMachine
<1>10. Tasks'
  BY <1>1, <1>2, <1>3, <1>4, <1>5, <1>6 DEF Tasks, HasTask
<1>11. Names'
  BY <1>1, <1>2, <1>3, <1>4, <1>6, Here DEF Names
<1>12. EndedComesBackOnlyUnderway'
  BY <1>2, <1>3, <1>4, <1>7 DEF EndedComesBackOnlyUnderway, TypeOK, Seen
<1>13. StateAgrees'
  BY <1>1, <1>2, <1>3, <1>4, <1>5, <1>6 DEF StateAgrees
<1> QED
  BY <1>7, <1>8, <1>9, <1>10, <1>11, <1>12, <1>13 DEF IInv

(* The gateway ends and comes back: nothing is in hand.                    *)
LEMMA RestartInv ==
  ASSUME IInv, Restart
  PROVE  IInv'
<1>1. /\ restarts < MaxRestart /\ restarts' = restarts + 1
      /\ session' = [s \in Sid |-> [session[s] EXCEPT !.live = FALSE]]
      /\ table' = [s \in Sid |-> None]
      /\ msg' = [m \in Msg |-> IF InHand(m) THEN Done ELSE msg[m]]
      /\ UNCHANGED <<machine, seen>>
  BY DEF Restart
<1>2. /\ TypeOK /\ Tasks /\ Names
      /\ EndedComesBackOnlyUnderway /\ StateAgrees
  BY DEF IInv
<1>3. /\ session' \in [Sid -> Session]
      /\ \A t \in Sid : /\ session'[t].activeGoalId = session[t].activeGoalId
                        /\ session'[t].state = session[t].state
                        /\ session'[t].made = session[t].made
                        /\ ~session'[t].live /\ table'[t] = None
  BY <1>1, <1>2 DEF TypeOK, Session
<1>4. /\ msg' \in [Msg -> Handler]
      /\ \A m \in Msg : ~InHand(m)' /\ (msg'[m].pc = "new" => msg[m].pc = "new")
  BY <1>1, <1>2 DEF TypeOK, Handler, InHand, Done, NoHandler
<1>5. restarts' \in 0..MaxRestart
  BY <1>1, <1>2, ConstantsAssumption DEF TypeOK
<1>6. TypeOK'
  BY <1>1, <1>2, <1>3, <1>4, <1>5 DEF TypeOK
<1>7. Owners'
  BY <1>3, <1>4, OwnersKept
<1>8. OneMachine' /\ StateAgrees' /\ EndedComesBackOnlyUnderway'
  BY <1>3, <1>4, <1>6 DEF OneMachine, StateAgrees, EndedComesBackOnlyUnderway, TypeOK, Seen
<1>9. Tasks' /\ Names'
  BY <1>1, <1>2, <1>3, <1>4 DEF Tasks, HasTask, Names
<1> QED
  BY <1>6, <1>7, <1>8, <1>9 DEF IInv

(* A message is analysed: its machine moves, perhaps a goal is created, or *)
(* is not; what executes or is monitored afterwards has a task.            *)
LEMMA AnalyzedInv ==
  ASSUME IInv, NEW m \in Msg, NEW intent \in Intent, NEW missing \in BOOLEAN,
         Analyzed(m, intent, missing)
  PROVE  IInv'
<1> DEFINE s == msg[m].sid
           by == msg[m].by
           at == machine[by]
           has == session[s].activeGoalId # None
           to == Transition(at, DetermineNextState(at, intent, missing, has))
<1>1. /\ InHand(m) /\ machine' = [machine EXCEPT ![by] = to]
      /\ UNCHANGED <<table, restarts>>
      /\ \/ /\ to = "executing" /\ CreateGoal(m, s)
            /\ msg' = [msg EXCEPT ![m].pc = "replying"]
         \/ /\ to = "executing" /\ GoalNotCreated(s)
            /\ msg' = [msg EXCEPT ![m] = Done]
         \/ /\ to # "executing" /\ UNCHANGED <<session, seen>>
            /\ \E where \in {"replying", "ready"} : msg' = [msg EXCEPT ![m].pc = where]
  BY DEF Analyzed, InHand
<1>2. /\ TypeOK /\ Owners /\ Tasks /\ Names /\ OneMachine
      /\ EndedComesBackOnlyUnderway /\ StateAgrees
  BY DEF IInv
<1>3. s \in Sid /\ by \in Msg /\ by # None /\ HasTask(s, at)
  BY <1>1, Here
<1>4. to \in ConversationState /\ (to = "monitoring" => at \in {"executing", "monitoring"})
  <2>1. at \in ConversationState
    BY <1>2, <1>3 DEF TypeOK
  <2>2. DetermineNextState(at, intent, missing, has) \in ConversationState
    BY <2>1, DetermineType
  <2> QED
    BY <2>1, <2>2, TransitionType
<1> HIDE DEF to, at, has
<1>5. /\ seen' \in Seen /\ seen'.cut = seen.cut /\ seen'.ended = seen.ended
      /\ seen.failed \subseteq seen'.failed /\ seen.uncreated \subseteq seen'.uncreated
      /\ session' \in [Sid -> Session]
      /\ \A t \in Sid : /\ session'[t].state = session[t].state
                        /\ session'[t].made = session[t].made
                        /\ session[t].activeGoalId # None => session'[t].activeGoalId # None
                        /\ t # s => session'[t] = session[t]
      /\ to = "executing" => session'[s].activeGoalId # None \/ s \in seen'.uncreated
  <2>1. CASE to = "executing" /\ CreateGoal(m, s)
    BY <1>2, <1>3, <2>1, ConstantsAssumption
    DEF CreateGoal, TypeOK, Seen, Session
  <2>2. CASE to = "executing" /\ GoalNotCreated(s)
    BY <1>2, <1>3, <2>2 DEF GoalNotCreated, TypeOK, Seen
  <2>3. CASE to # "executing" /\ UNCHANGED <<session, seen>>
    BY <1>2, <2>3 DEF TypeOK
  <2> QED
    BY <1>1, <2>1, <2>2, <2>3
<1>6. /\ msg' \in [Msg -> Handler]
      /\ \A n \in Msg : InHand(n)' => /\ InHand(n)
                                    /\ msg'[n].sid = msg[n].sid /\ msg'[n].by = msg[n].by
      /\ \A n \in Msg : msg'[n].pc = "new" => msg[n].pc = "new"
      /\ \A n \in Msg \ {m} : InHand(n) => InHand(n)' /\ msg'[n] = msg[n]
  BY <1>1, HandlerMoves
<1>7. \/ InHand(m)' \/ s \in seen'.failed
  <2>1. CASE \E where \in {"replying", "ready"} : msg' = [msg EXCEPT ![m].pc = where]
    BY <1>1, <2>1, HandlerMoves
  <2>2. CASE GoalNotCreated(s)
    BY <1>2, <2>2 DEF GoalNotCreated, TypeOK, Seen
  <2> QED
    BY <1>1, <2>1, <2>2
<1>8. /\ machine' \in [Msg -> ConversationState] /\ machine'[by] = to
      /\ \A n \in Msg : n # by => machine'[n] = machine[n]
  BY <1>1, <1>2, <1>3, <1>4 DEF TypeOK
<1>9. TypeOK'
  BY <1>1, <1>2, <1>5, <1>6, <1>8 DEF TypeOK
<1>10. Owners' /\ OneMachine'
  <2>1. Owners'
    BY <1>1, <1>6, OwnersKept
  <2> QED
    BY <1>1, <1>2, <1>5, <1>6, <2>1 DEF OneMachine
<1>11. Tasks'
  <2>1. ASSUME NEW t \in Sid, NEW a, HasTask(t, a)
        PROVE  HasTask(t, a)'
    BY <1>5, <2>1 DEF HasTask
  <2>2. at \in {"executing", "monitoring"}
          => session[s].activeGoalId # None \/ s \in seen.uncreated
    BY <1>3 DEF HasTask
  <2>3. to \in {"executing", "monitoring"}
          => session'[s].activeGoalId # None \/ s \in seen'.uncreated
    BY <1>3, <1>4, <1>5, <2>2
  <2>4. ASSUME NEW t \in Sid, table[t] # None
        PROVE  HasTask(t, machine[table[t]])'
    <3>1. table[t] = by => t = s
      BY <1>1, <1>2 DEF Owners
    <3>2. table[t] \in Msg /\ HasTask(t, machine[table[t]])
      BY <1>2, <2>4 DEF TypeOK, Tasks
    <3>3. CASE table[t] = by
      BY <1>1, <1>8, <2>3, <3>1, <3>3 DEF HasTask
    <3>4. CASE table[t] # by
      BY <1>1, <1>5, <1>8, <3>2, <3>4 DEF HasTask
    <3> QED
      BY <3>3, <3>4
  <2>5. ASSUME NEW n \in Msg, InHand(n)'
        PROVE  HasTask(msg[n].sid, machine[msg[n].by])'
    <3>1. InHand(n) /\ msg'[n].sid = msg[n].sid /\ msg'[n].by = msg[n].by
      BY <1>6, <2>5
    <3>2. msg[n].by = by => msg[n].sid = s
      BY <1>1, <1>2, <3>1 DEF Owners
    <3>3. msg[n].by \in Msg /\ msg[n].sid \in Sid /\ HasTask(msg[n].sid, machine[msg[n].by])
      BY <3>1, Here
    <3>4. CASE msg[n].by = by
      BY <1>8, <2>3, <3>1, <3>2, <3>4 DEF HasTask
    <3>5. CASE msg[n].by # by
      BY <1>5, <1>8, <3>1, <3>3, <3>5 DEF HasTask
    <3> QED
      BY <3>4, <3>5
  <2>6. ASSUME NEW t \in Sid
        PROVE  HasTask(t, session[t].state)'
    BY <1>2, <1>5 DEF Tasks, HasTask
  <2> QED
    BY <1>1, <2>4, <2>5, <2>6 DEF Tasks
<1>12. session[s].made /\ (s \in seen.ended => s \in seen.cut)
  BY <1>1, <1>2 DEF Names
<1>13. Names' /\ EndedComesBackOnlyUnderway'
  <2> HIDE DEF s
  <2>1. \A n \in Msg : InHand(n) => msg[n].sid \in Sid
    BY Here
  <2>2. Names'
    BY <1>2, <1>5, <1>6, <1>12, <2>1 DEF Names
  <2> QED
    BY <1>2, <1>5, <1>12, <2>2 DEF EndedComesBackOnlyUnderway, TypeOK, Seen
<1>14. StateAgrees'
  <2> SUFFICES ASSUME NEW t \in Sid \ (seen'.ended \cup seen'.failed), session'[t].live,
                      table[t] # None, \A n \in Msg : InHand(n)' => msg'[n].sid # t
               PROVE  session'[t].state = machine'[table[t]]
    BY <1>1 DEF StateAgrees
  <2>1. t # s
    BY <1>6, <1>7
  <2>2. \A n \in Msg : InHand(n) => msg[n].sid # t
    BY <1>6, <2>1
  <2>3. table[t] # by /\ table[t] \in Msg
    BY <1>1, <1>2, <2>1 DEF Owners, TypeOK
  <2> QED
    BY <1>2, <1>5, <1>8, <2>1, <2>2, <2>3 DEF StateAgrees
<1> QED
  BY <1>9, <1>10, <1>11, <1>13, <1>14 DEF IInv

-----------------------------------------------------------------------------
(* The inductive invariant of sessions, machines and handlers, for any     *)
(* sessions, messages and number of restarts.                              *)
THEOREM ConversationInvariant == Spec => []IInv
<1>1. IInv /\ [Next]_vars => IInv'
  <2> SUFFICES ASSUME IInv, [Next]_vars PROVE IInv'
    OBVIOUS
  <2>1. CASE Next
    BY <2>1, ArriveInv, AnalyzedInv, FailsInv, ReplyInv, EndSessionInv, RestartInv
    DEF Next
  <2>2. CASE UNCHANGED vars
    BY <2>2 DEF vars, IInv, TypeOK, OneMachine, Owners, Tasks, HasTask, Names,
                EndedComesBackOnlyUnderway, StateAgrees, InHand
  <2> QED
    BY <2>1, <2>2
<1> QED
  BY <1>1, InitInv, PTL DEF Spec

(* Once its messages were answered, a session that was not ended and had   *)
(* no failure shows the state its machine is in, however they overlapped.  *)
THEOREM StatesAgree == Spec => []StateAgrees
BY ConversationInvariant, PTL DEF IInv

(* No client brings an ended session back by naming it.                    *)
THEOREM EndedStaysEnded == Spec => []EndedComesBackOnlyUnderway
BY ConversationInvariant, PTL DEF IInv

(* What executes or is monitored has a goal, unless creating one failed.   *)
THEOREM TasksHeld == Spec => []MonitoringHasTask
<1>1. IInv => MonitoringHasTask
  BY DEF IInv, Tasks, HasTask, MonitoringHasTask
<1> QED
  BY <1>1, ConversationInvariant, PTL
=============================================================================
