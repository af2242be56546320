--------------------------- MODULE IpcLinkProofs ---------------------------
(***************************************************************************)
(* The safety of the link, for every set of sockets and commands, every    *)
(* size of the buffer and every number of faults: LinkInv, the part of the *)
(* inductive invariant about its fields and lines, and what follows from   *)
(* it. IpcLinkOrder proves the rest.                                       *)
(***************************************************************************)
EXTENDS IpcLink, Integers, TLAPS

(* The lines that may be under way: a result says success only of a        *)
(* command that was executed.                                              *)
GoodLine == {l \in LineRef : l.kind = "success" => l.arg \in executed}

LinesGood ==
  /\ buffer \in Seq(GoodLine)
  /\ up \in [Socket -> Seq(GoodLine)]

(* The constants of an instance.                                           *)
ConstOK == MaxBufferSize \in Nat \ {0} /\ NoSocket \notin Socket

(* The assumption of IpcLink, as the proofs use it.                        *)
LEMMA Constants == ConstOK
BY LinkAssumption DEF LinkAssumption, ConstOK

---------------------------------------------------------------------------
(* Sequences *)

(* A sequence over a set, by its elements.                                 *)
LEMMA SeqByElements ==
  ASSUME NEW S, NEW s \in Seq(S)
  PROVE  /\ Len(s) \in Nat /\ DOMAIN s = 1..Len(s)
         /\ \A i \in 1..Len(s) : s[i] \in S
OBVIOUS

(* Sequences of good lines are those of lines with good results.           *)
LEMMA GoodSequences ==
  ASSUME NEW s \in Seq(LineRef)
  PROVE  s \in Seq(GoodLine) <=> ResultsOK(s)
<1>1. ASSUME s \in Seq(GoodLine) PROVE ResultsOK(s)
  <2>1. \A i \in 1..Len(s) : s[i] \in GoodLine
    BY <1>1, SeqByElements
  <2> QED BY <2>1, SeqByElements DEF ResultsOK, GoodLine
<1>2. ASSUME ResultsOK(s) PROVE s \in Seq(GoodLine)
  <2>1. \A i \in 1..Len(s) : s[i] \in GoodLine
    BY <1>2, SeqByElements DEF ResultsOK, GoodLine
  <2> QED BY <2>1, SeqByElements
<1> QED BY <1>1, <1>2

(* More executed commands, more good lines.                                *)
LEMMA GoodGrows ==
  ASSUME NEW s \in Seq(GoodLine), executed \subseteq executed'
  PROVE  s \in Seq(GoodLine)'
<1>1. GoodLine \subseteq GoodLine'
  BY DEF GoodLine
<1>2. \A i \in 1..Len(s) : s[i] \in GoodLine'
  BY <1>1, SeqByElements
<1> QED BY <1>2, SeqByElements

(* The marks of the flush do not change what a line says.                  *)
LEMMA MarksKeep ==
  ASSUME NEW s \in Seq(GoodLine)
  PROVE  /\ Flushed(s) \in Seq(GoodLine) /\ Len(Flushed(s)) = Len(s)
         /\ Unflushed(s) \in Seq(GoodLine) /\ Len(Unflushed(s)) = Len(s)
<1>1. /\ Len(s) \in Nat /\ DOMAIN s = 1..Len(s)
      /\ \A i \in 1..Len(s) : s[i] \in GoodLine
  BY SeqByElements
<1>2. \A l \in GoodLine, b \in BOOLEAN : [l EXCEPT !.flushed = b] \in GoodLine
  BY DEF GoodLine, LineRef
<1>3. Flushed(s) \in [1..Len(s) -> GoodLine]
  BY <1>1, <1>2 DEF Flushed
<1>4. Unflushed(s) \in [1..Len(s) -> GoodLine]
  BY <1>1, <1>2 DEF Unflushed
<1> QED BY <1>1, <1>3, <1>4

(* Parts of a sequence of good lines, or of any.                           *)
LEMMA PartOf ==
  ASSUME NEW S, NEW s \in Seq(S), NEW m \in Nat \ {0}, NEW n \in Int,
         n <= Len(s), n >= m - 1
  PROVE  SubSeq(s, m, n) \in Seq(S) /\ Len(SubSeq(s, m, n)) = n - m + 1
OBVIOUS

(* The empty sequence.                                                     *)
LEMMA Nothing == Len(<<>>) = 0 /\ \A S : <<>> \in Seq(S)
OBVIOUS

(* The lines the processes write.                                          *)
LEMMA LinesOK ==
  /\ \A kind \in {"connect", "disconnect", "ping", "pong", "half"} :
       Plain(kind, 0) \in GoodLine
  /\ \A e \in Nat : Event(e) \in GoodLine
  /\ \A c \in Command : Plain("command", c) \in GoodLine /\ Plain("failure", c) \in GoodLine
  /\ \A c \in executed : c \in Command => Plain("success", c) \in GoodLine
  /\ Ping \in GoodLine /\ Pong \in GoodLine /\ Half \in GoodLine
  /\ GoodLine \subseteq LineRef
BY DEF GoodLine, LineRef, Plain, Line, Event, Ping, Pong, Half

(* What connect writes is well formed.                                     *)
LEMMA GreetingOK ==
  ASSUME buffer \in Seq(GoodLine)
  PROVE  Greeting \in Seq(GoodLine)
<1>1. Flushed(buffer) \in Seq(GoodLine)
  BY MarksKeep
<1>2. <<Plain("connect", 0)>> \in Seq(GoodLine)
  BY LinesOK
<1> QED BY <1>1, <1>2 DEF Greeting

(* Whatever is sent, buffer and socket keep good lines, and the buffer its *)
(* limit.                                                                  *)
LEMMA SendKeeps ==
  ASSUME TypeOK, LinesGood, NEW l \in GoodLine, Send(l)
  PROVE  /\ buffer' \in Seq(GoodLine) /\ Len(buffer') <= MaxBufferSize
         /\ up' \in [Socket -> Seq(GoodLine)]
         /\ dropped' \subseteq LineRef
<1> USE Constants DEF ConstOK
<1>0. /\ buffer \in Seq(GoodLine) /\ Len(buffer) <= MaxBufferSize
      /\ up \in [Socket -> Seq(GoodLine)] /\ dropped \subseteq LineRef
      /\ GoodLine \subseteq LineRef /\ socket \in Socket \cup {NoSocket}
  BY LinesOK DEF TypeOK, LinesGood
<1>1. CASE state = "connected" /\ socket # NoSocket
  <2>1. up' = [up EXCEPT ![socket] = Append(@, l)] /\ buffer' = buffer /\ dropped' = dropped
    BY <1>1 DEF Send
  <2>2. Append(up[socket], l) \in Seq(GoodLine)
    BY <1>0, <1>1
  <2> QED BY <1>0, <2>1, <2>2
<1>2. CASE ~(state = "connected" /\ socket # NoSocket)
  <2>1. Enqueue(l) /\ up' = up
    BY <1>2 DEF Send
  <2>2. CASE Len(buffer) < MaxBufferSize
    <3>1. buffer' = Append(buffer, l) /\ dropped' = dropped
      BY <2>1, <2>2 DEF Enqueue
    <3> QED BY <1>0, <2>1, <2>2, <3>1
  <2>3. CASE ~(Len(buffer) < MaxBufferSize)
    <3>1. buffer' = Append(Tail(buffer), l) /\ dropped' = dropped \cup {Head(buffer)}
      BY <2>1, <2>3 DEF Enqueue
    <3>2. buffer # <<>> /\ Len(buffer) = MaxBufferSize
      BY <1>0, <2>3
    <3>3. Head(buffer) \in GoodLine /\ Tail(buffer) \in Seq(GoodLine)
          /\ Len(Tail(buffer)) = Len(buffer) - 1
      BY <1>0, <3>2
    <3> QED BY <1>0, <2>1, <3>1, <3>2, <3>3
  <2> QED BY <2>2, <2>3
<1> QED BY <1>1, <1>2

(* What is put back after a failed flush fits into the buffer.             *)
LEMMA RebufferKeeps ==
  ASSUME TypeOK, LinesGood, NEW s \in Socket, NEW i \in 1..Len(up[s]) + 1, Rebuffer(s, i)
  PROVE  buffer' \in Seq(GoodLine) /\ Len(buffer') <= MaxBufferSize
<1> USE Constants DEF ConstOK
<1>0. /\ buffer \in Seq(GoodLine) /\ Len(buffer) <= MaxBufferSize /\ Len(buffer) \in Nat
      /\ up[s] \in Seq(GoodLine) /\ Len(up[s]) \in Nat
  BY DEF TypeOK, LinesGood
<1> DEFINE room == MaxBufferSize - Len(buffer)
<1>1. PICK j \in (i - 1)..Len(up[s]) :
        LET last == IF j - i < room THEN j ELSE i + room - 1
        IN  buffer' = buffer \o Unflushed(SubSeq(up[s], i, last))
  BY DEF Rebuffer
<1> DEFINE last == IF j - i < room THEN j ELSE i + room - 1
<1>2. /\ last \in Int /\ last <= Len(up[s]) /\ last >= i - 1 /\ last - i + 1 <= room
      /\ i \in Nat \ {0}
  BY <1>0
<1>3. SubSeq(up[s], i, last) \in Seq(GoodLine) /\ Len(SubSeq(up[s], i, last)) = last - i + 1
  BY <1>0, <1>2, PartOf
<1>4. /\ Unflushed(SubSeq(up[s], i, last)) \in Seq(GoodLine)
      /\ Len(Unflushed(SubSeq(up[s], i, last))) = last - i + 1
  <2> HIDE DEF last
  <2> QED BY <1>3, MarksKeep
<1>5. buffer' = buffer \o Unflushed(SubSeq(up[s], i, last))
  BY <1>1
<1> HIDE DEF last
<1> QED BY <1>0, <1>2, <1>4, <1>5

---------------------------------------------------------------------------
(* The invariant, taken apart *)

(* The fields of TypeOK that are not sequences of lines to the server.     *)
FieldsOK ==
  /\ phase \in {"idle", "started", "stopped"}
  /\ state \in {"disconnected", "connecting", "connected", "reconnecting"}
  /\ socket \in Socket \cup {NoSocket}
  /\ timer \in BOOLEAN /\ torn \in BOOLEAN /\ restarted \in BOOLEAN
  /\ Len(buffer) <= MaxBufferSize
  /\ cEnd \in [Socket -> {"closed", "dialing", "refused", "open", "ended"}]
  /\ sEnd \in [Socket -> {"closed", "backlog", "open", "ended"}]
  /\ listening \in BOOLEAN

ServerOK ==
  /\ down \in [Socket -> Seq(LineRef)]
  /\ conns \in Seq(Socket) /\ clients \subseteq Socket /\ daemons \subseteq Socket
  /\ missed \in [Socket -> Nat]

RecordsOK ==
  /\ command \in [Command -> {"none", "pending", "ok"} \cup Lost]
  /\ working \subseteq Command /\ executed \subseteq Command
  /\ sent \in Nat /\ got \in Nat /\ delivered \subseteq Nat /\ dropped \subseteq LineRef
  /\ faults \in Nat

(* The invariant is the conjunction of the parts.                          *)
LEMMA Parts ==
  LinkInv <=> FieldsOK /\ ServerOK /\ RecordsOK /\ LinesGood /\ ClientOK /\ SuccessMeansExecuted
<1>1. ASSUME LinkInv
      PROVE  FieldsOK /\ ServerOK /\ RecordsOK /\ LinesGood /\ ClientOK /\ SuccessMeansExecuted
  <2>1. buffer \in Seq(GoodLine)
    BY <1>1, GoodSequences DEF LinkInv, TypeOK
  <2>2. \A s \in Socket : up[s] \in Seq(GoodLine)
    BY <1>1, GoodSequences DEF LinkInv, TypeOK
  <2>3. up \in [Socket -> Seq(GoodLine)]
    BY <1>1, <2>2 DEF LinkInv, TypeOK
  <2> QED BY <1>1, <2>1, <2>3 DEF LinkInv, TypeOK, FieldsOK, ServerOK, RecordsOK, LinesGood
<1>2. ASSUME FieldsOK, ServerOK, RecordsOK, LinesGood, ClientOK, SuccessMeansExecuted
      PROVE  LinkInv
  <2>1. GoodLine \subseteq LineRef
    BY LinesOK
  <2>2. buffer \in Seq(LineRef) /\ ResultsOK(buffer)
    BY <1>2, <2>1, GoodSequences DEF LinesGood
  <2>3. \A s \in Socket : up[s] \in Seq(GoodLine)
    BY <1>2 DEF LinesGood
  <2>4. \A s \in Socket : up[s] \in Seq(LineRef)
    BY <2>1, <2>3
  <2>5. \A s \in Socket : ResultsOK(up[s])
    BY <2>3, <2>4, GoodSequences
  <2>6. up \in [Socket -> Seq(LineRef)]
    BY <1>2, <2>4 DEF LinesGood
  <2> QED BY <1>2, <2>2, <2>5, <2>6 DEF LinkInv, TypeOK, FieldsOK, ServerOK, RecordsOK
<1> QED BY <1>1, <1>2

(* The same, after a step.                                                 *)
LEMMA PartsNext ==
  FieldsOK' /\ ServerOK' /\ RecordsOK' /\ LinesGood' /\ ClientOK' /\ SuccessMeansExecuted'
    => LinkInv'
BY Parts, PTL

(* Lines stay good when nothing but executed changes, and that grows.      *)
LEMMA LinesStay ==
  ASSUME LinesGood, UNCHANGED <<up, buffer>>, executed \subseteq executed'
  PROVE  LinesGood'
<1>1. buffer' \in Seq(GoodLine)'
  BY GoodGrows DEF LinesGood
<1>2. \A s \in Socket : up[s] \in Seq(GoodLine)'
  BY GoodGrows DEF LinesGood
<1> QED BY <1>1, <1>2 DEF LinesGood

(* The set of good lines depends on nothing but executed.                  *)
LEMMA GoodStays == executed' = executed => GoodLine' = GoodLine
BY DEF GoodLine

(* Nothing is under way at first.                                          *)
LEMMA InitHolds == Init => LinkInv
<1> SUFFICES ASSUME Init PROVE LinkInv
  OBVIOUS
<1> USE Constants DEF ConstOK
<1>1. LinesGood
  BY Nothing DEF Init, LinesGood
<1>2. FieldsOK
  <2>1. Len(buffer) <= MaxBufferSize
    BY Nothing DEF Init
  <2> QED BY <2>1 DEF Init, FieldsOK
<1>5. ClientOK
  BY DEF Init, ClientOK
<1>3. ServerOK
  BY DEF Init, ServerOK
<1>4. RecordsOK /\ SuccessMeansExecuted
  BY DEF Init, RecordsOK, SuccessMeansExecuted, Lost
<1> QED BY <1>1, <1>2, <1>3, <1>4, <1>5, Parts

---------------------------------------------------------------------------
(* The steps of the client *)

(* A new connection attempt.                                               *)
LEMMA DialKeeps ==
  ASSUME LinkInv, Dial, state \notin {"connected", "connecting"},
         UNCHANGED <<buffer, torn, listening, clients, daemons, missed, commandVars, eventVars>>,
         phase' \in {"idle", "started", "stopped"}, timer' \in BOOLEAN,
         restarted' \in BOOLEAN, faults' \in Nat
  PROVE  LinkInv'
<1> USE Constants DEF ConstOK
<1>0. FieldsOK /\ ServerOK /\ RecordsOK /\ LinesGood /\ ClientOK /\ SuccessMeansExecuted
  BY Parts
<1>1. PICK s \in Socket :
        /\ state' = "connecting"
        /\ socket' = s
        /\ cEnd' = [cEnd EXCEPT ![s] = IF listening THEN "dialing" ELSE "refused"]
        /\ sEnd' = [sEnd EXCEPT ![s] = IF listening THEN "backlog" ELSE "closed"]
        /\ conns' = IF listening THEN Append(conns, s) ELSE conns
        /\ UNCHANGED <<up, down>>
  BY DEF Dial
<1>2. FieldsOK' /\ ClientOK'
  BY <1>0, <1>1 DEF FieldsOK, ClientOK
<1>3. ServerOK'
  BY <1>0, <1>1 DEF ServerOK
<1>4. RecordsOK' /\ SuccessMeansExecuted'
  BY <1>0 DEF RecordsOK, SuccessMeansExecuted, commandVars, eventVars
<1>5. LinesGood'
  BY <1>0, <1>1, LinesStay DEF commandVars
<1> QED BY <1>2, <1>3, <1>4, <1>5, PartsNext

(* connect keeps the invariant.                                            *)
LEMMA ConnectKeeps == ASSUME LinkInv, Connect PROVE LinkInv'
<1>0. FieldsOK /\ ServerOK /\ RecordsOK /\ LinesGood /\ ClientOK /\ SuccessMeansExecuted
  BY Parts
<1>1. /\ phase' = "started" /\ restarted' \in BOOLEAN /\ faults' \in Nat /\ timer' = timer
      /\ UNCHANGED <<buffer, torn, listening, clients, daemons, missed, commandVars, eventVars>>
  BY <1>0 DEF Connect, FieldsOK, RecordsOK
<1>2. CASE state \in {"connected", "connecting"}
  <2>1. UNCHANGED <<state, socket, cEnd, sEnd, conns, up, down>>
    BY <1>2 DEF Connect
  <2>2. FieldsOK' /\ ClientOK'
    BY <1>0, <1>1, <1>2, <2>1 DEF FieldsOK, ClientOK
  <2>3. ServerOK' /\ RecordsOK' /\ SuccessMeansExecuted'
    BY <1>0, <1>1, <2>1 DEF ServerOK, RecordsOK, SuccessMeansExecuted, commandVars, eventVars
  <2>4. LinesGood'
    BY <1>0, <1>1, <2>1, LinesStay DEF commandVars
  <2> QED BY <2>2, <2>3, <2>4, PartsNext
<1>3. CASE state \notin {"connected", "connecting"}
  <2>1. Dial
    BY <1>3 DEF Connect
  <2>2. timer' \in BOOLEAN
    BY <1>0, <1>1 DEF FieldsOK
  <2> QED BY <1>1, <1>3, <2>1, <2>2, DialKeeps
<1> QED BY <1>2, <1>3

(* So does the timer.                                                      *)
LEMMA TimerKeeps == ASSUME LinkInv, ReconnectTimer PROVE LinkInv'
<1>0. FieldsOK /\ ServerOK /\ RecordsOK /\ LinesGood /\ ClientOK /\ SuccessMeansExecuted
  BY Parts
<1>1. /\ timer' = FALSE
      /\ UNCHANGED <<phase, buffer, torn, restarted, listening, clients, daemons, missed,
                     commandVars, eventVars, faults>>
  BY DEF ReconnectTimer
<1>2. CASE state \in {"connected", "connecting"}
  <2>1. UNCHANGED <<state, socket, cEnd, sEnd, conns, up, down>>
    BY <1>2 DEF ReconnectTimer
  <2>2. FieldsOK' /\ ClientOK'
    BY <1>0, <1>1, <1>2, <2>1 DEF FieldsOK, ClientOK
  <2>3. ServerOK' /\ RecordsOK' /\ SuccessMeansExecuted'
    BY <1>0, <1>1, <2>1 DEF ServerOK, RecordsOK, SuccessMeansExecuted, commandVars, eventVars
  <2>4. LinesGood'
    BY <1>0, <1>1, <2>1, LinesStay DEF commandVars
  <2> QED BY <2>2, <2>3, <2>4, PartsNext
<1>3. CASE state \notin {"connected", "connecting"}
  <2>1. Dial
    BY <1>3 DEF ReconnectTimer
  <2>2. phase' \in {"idle", "started", "stopped"} /\ restarted' \in BOOLEAN /\ faults' \in Nat
    BY <1>0, <1>1 DEF FieldsOK, RecordsOK
  <2> QED BY <1>1, <1>3, <2>1, <2>2, DialKeeps
<1> QED BY <1>2, <1>3

(* The end of the daemon leaves, of what it wrote, a beginning.            *)
LEMMA ProcessEndKeeps == ASSUME LinkInv, ProcessEnds, faults' \in Nat PROVE LinkInv'
<1> USE Constants DEF ConstOK
<1>0. FieldsOK /\ ServerOK /\ RecordsOK /\ LinesGood /\ ClientOK /\ SuccessMeansExecuted
  BY Parts
<1>1. PICK k \in 0..(IF socket = NoSocket THEN 0 ELSE Len(up[socket])) :
       up' = [s \in Socket |-> IF sEnd[s] = "closed" THEN <<>>
                               ELSE IF s = socket THEN SubSeq(up[s], 1, k)
                               ELSE up[s]]
  BY DEF ProcessEnds
<1>2. GoodLine' = GoodLine
  BY GoodStays DEF ProcessEnds
<1>3. \A s \in Socket : up'[s] \in Seq(GoodLine)
  <2> SUFFICES ASSUME NEW s \in Socket PROVE up'[s] \in Seq(GoodLine)
    OBVIOUS
  <2>1. up[s] \in Seq(GoodLine)
    BY <1>0 DEF LinesGood
  <2>2. CASE s = socket
    <3>1. k \in Nat /\ k <= Len(up[s]) /\ socket # NoSocket
      BY <1>1, <2>1, <2>2, SeqByElements
    <3>2. SubSeq(up[s], 1, k) \in Seq(GoodLine)
      BY <2>1, <3>1, PartOf
    <3> QED BY <1>1, <2>1, <2>2, <3>2
  <2>3. CASE s # socket
    BY <1>1, <2>1, <2>3
  <2> QED BY <2>2, <2>3
<1>4. LinesGood'
  BY <1>1, <1>2, <1>3 DEF ProcessEnds, LinesGood
<1>5. FieldsOK'
  <2>1. Len(buffer') <= MaxBufferSize
    BY Nothing DEF ProcessEnds
  <2> QED BY <1>0, <2>1 DEF ProcessEnds, FieldsOK, serverVars
<1>8. ClientOK'
  BY <1>0 DEF ProcessEnds, ClientOK, FieldsOK
<1>6. ServerOK'
  BY <1>0 DEF ProcessEnds, ServerOK, serverVars
<1>7. RecordsOK' /\ SuccessMeansExecuted'
  BY <1>0 DEF ProcessEnds, RecordsOK, SuccessMeansExecuted, eventVars
<1> QED BY <1>4, <1>5, <1>6, <1>7, <1>8, PartsNext

(* The connect event.                                                      *)
LEMMA OnConnectKeeps == ASSUME LinkInv, NEW s \in Socket, OnConnect(s) PROVE LinkInv'
<1> USE Constants DEF ConstOK
<1>0. FieldsOK /\ ServerOK /\ RecordsOK /\ LinesGood /\ ClientOK /\ SuccessMeansExecuted
  BY Parts
<1>1. CASE socket = NoSocket
  <2>1. ProcessEnds /\ faults' \in Nat
    BY <1>0, <1>1 DEF OnConnect, RecordsOK
  <2> QED BY <2>1, ProcessEndKeeps
<1>2. CASE socket # NoSocket
  <2>1. /\ state' = "connected" /\ cEnd[s] = "dialing"
        /\ cEnd' = [cEnd EXCEPT ![s] = "open"]
        /\ up' = [up EXCEPT ![socket] = @ \o Greeting]
        /\ buffer' = <<>>
        /\ UNCHANGED <<phase, socket, timer, torn, restarted, sEnd, down,
                           serverVars, commandVars, eventVars, faults>>
    BY <1>2 DEF OnConnect, BufferAfterFlush
  <2>2. FieldsOK' /\ ClientOK'
    BY <1>0, <1>2, <2>1 DEF FieldsOK, ClientOK, serverVars
  <2>3. ServerOK' /\ RecordsOK' /\ SuccessMeansExecuted'
    BY <1>0, <2>1 DEF ServerOK, RecordsOK, SuccessMeansExecuted, commandVars, eventVars, serverVars
  <2>4. GoodLine' = GoodLine
    BY <2>1, GoodStays DEF commandVars
  <2>5. socket \in Socket /\ up[socket] \in Seq(GoodLine) /\ Greeting \in Seq(GoodLine)
    BY <1>0, <1>2, GreetingOK DEF FieldsOK, LinesGood
  <2>6. up[socket] \o Greeting \in Seq(GoodLine)
    BY <2>5
  <2>7. up' \in [Socket -> Seq(GoodLine)] /\ buffer' \in Seq(GoodLine)
    BY <1>0, <2>1, <2>5, <2>6, Nothing DEF LinesGood
  <2>8. LinesGood'
    BY <2>4, <2>7 DEF LinesGood
  <2> QED BY <2>2, <2>3, <2>8, PartsNext
<1> QED BY <1>1, <1>2

(* The error event.                                                        *)
LEMMA OnErrorKeeps == ASSUME LinkInv, NEW s \in Socket, OnError(s) PROVE LinkInv'
<1> USE Constants DEF ConstOK
<1>0. FieldsOK /\ ServerOK /\ RecordsOK /\ LinesGood /\ ClientOK /\ SuccessMeansExecuted
  BY Parts
<1>1. CASE socket = NoSocket
  <2>1. ProcessEnds /\ faults' \in Nat
    BY <1>0, <1>1 DEF OnError, RecordsOK
  <2> QED BY <2>1, ProcessEndKeeps
<1>2. CASE socket # NoSocket
  <2>1. /\ socket' = NoSocket /\ state' = "disconnected" /\ timer' = TRUE
        /\ cEnd' = [cEnd EXCEPT ![s] = "closed"]
        /\ UNCHANGED <<phase, buffer, torn, restarted, sEnd, up, down,
                           serverVars, commandVars, eventVars, faults>>
    BY <1>2 DEF OnError, ScheduleReconnect
  <2>2. FieldsOK' /\ ClientOK'
    BY <1>0, <2>1 DEF FieldsOK, ClientOK, serverVars
  <2>3. ServerOK' /\ RecordsOK' /\ SuccessMeansExecuted'
    BY <1>0, <2>1 DEF ServerOK, RecordsOK, SuccessMeansExecuted, commandVars, eventVars, serverVars
  <2>4. LinesGood'
    BY <1>0, <2>1, LinesStay DEF commandVars
  <2> QED BY <2>2, <2>3, <2>4, PartsNext
<1> QED BY <1>1, <1>2

(* The close event, with what failed of a flush.                           *)
LEMMA OnCloseKeeps == ASSUME LinkInv, NEW s \in Socket, OnClose(s) PROVE LinkInv'
<1> USE Constants DEF ConstOK
<1>0. FieldsOK /\ ServerOK /\ RecordsOK /\ LinesGood /\ ClientOK /\ SuccessMeansExecuted
  BY Parts
<1>1. /\ socket' = NoSocket /\ state' \in {"disconnected", "reconnecting"} /\ timer' = TRUE
      /\ cEnd' = [cEnd EXCEPT ![s] = "closed"]
      /\ UNCHANGED <<phase, torn, restarted, sEnd, down, serverVars, commandVars,
                     eventVars, faults>>
  BY DEF OnClose, ScheduleReconnect
<1>2. GoodLine' = GoodLine
  BY <1>1, GoodStays DEF commandVars
<1>3. /\ up' \in [Socket -> Seq(GoodLine)]
      /\ buffer' \in Seq(GoodLine) /\ Len(buffer') <= MaxBufferSize
  <2>1. CASE sEnd[s] = "ended"
    BY <1>0, <2>1 DEF OnClose, LinesGood, FieldsOK
  <2>2. CASE sEnd[s] # "ended"
    <3>1. up' = [up EXCEPT ![s] = <<>>] /\ \E i \in 1..Len(up[s]) + 1 : Rebuffer(s, i)
      BY <2>2 DEF OnClose
    <3>2. TypeOK
      BY DEF LinkInv
    <3>3. buffer' \in Seq(GoodLine) /\ Len(buffer') <= MaxBufferSize
      BY <1>0, <3>1, <3>2, RebufferKeeps
    <3> QED BY <1>0, <3>1, <3>3 DEF LinesGood
  <2> QED BY <2>1, <2>2
<1>4. FieldsOK' /\ ClientOK'
  BY <1>0, <1>1, <1>3 DEF FieldsOK, ClientOK, serverVars
<1>5. ServerOK' /\ RecordsOK' /\ SuccessMeansExecuted'
  BY <1>0, <1>1 DEF ServerOK, RecordsOK, SuccessMeansExecuted, commandVars, eventVars, serverVars
<1>6. LinesGood'
  BY <1>2, <1>3 DEF LinesGood
<1> QED BY <1>4, <1>5, <1>6, PartsNext

(* disconnect.                                                             *)
LEMMA DisconnectKeeps == ASSUME LinkInv, Disconnect PROVE LinkInv'
<1> USE Constants DEF ConstOK
<1>0. FieldsOK /\ ServerOK /\ RecordsOK /\ LinesGood /\ ClientOK /\ SuccessMeansExecuted
  BY Parts
<1>1. /\ phase' = "stopped" /\ state' = "disconnected" /\ timer' = FALSE /\ socket' = NoSocket
      /\ UNCHANGED <<buffer, torn, restarted, sEnd, down, serverVars, commandVars,
                     eventVars, faults>>
  BY DEF Disconnect
<1>2. GoodLine' = GoodLine
  BY <1>1, GoodStays DEF commandVars
<1>3. /\ up' \in [Socket -> Seq(GoodLine)]
      /\ cEnd' \in [Socket -> {"closed", "dialing", "refused", "open", "ended"}]
  <2>1. CASE socket = NoSocket
    BY <1>0, <2>1 DEF Disconnect, LinesGood, FieldsOK
  <2>2. CASE socket # NoSocket
    <3>1. socket \in Socket /\ up[socket] \in Seq(GoodLine)
          /\ Plain("disconnect", 0) \in GoodLine
      BY <1>0, <2>2, LinesOK DEF FieldsOK, LinesGood
    <3>2. Append(up[socket], Plain("disconnect", 0)) \in Seq(GoodLine)
      BY <3>1
    <3> QED BY <1>0, <2>2, <3>2 DEF Disconnect, LinesGood, FieldsOK
  <2> QED BY <2>1, <2>2
<1>4. FieldsOK' /\ ClientOK'
  BY <1>0, <1>1, <1>3 DEF FieldsOK, ClientOK, serverVars
<1>5. ServerOK' /\ RecordsOK' /\ SuccessMeansExecuted'
  BY <1>0, <1>1 DEF ServerOK, RecordsOK, SuccessMeansExecuted, commandVars, eventVars, serverVars
<1>6. LinesGood'
  BY <1>0, <1>1, <1>2, <1>3 DEF LinesGood
<1> QED BY <1>4, <1>5, <1>6, PartsNext

(* An event is sent.                                                       *)
LEMMA SendEventKeeps == ASSUME LinkInv, SendEvent PROVE LinkInv'
<1>0. FieldsOK /\ ServerOK /\ RecordsOK /\ LinesGood /\ ClientOK /\ SuccessMeansExecuted /\ TypeOK
  BY Parts DEF LinkInv
<1>1. /\ sent' = sent + 1 /\ Send(Event(sent + 1))
      /\ UNCHANGED <<phase, state, socket, timer, torn, restarted, cEnd, sEnd, down,
                     serverVars, commandVars, got, delivered, faults>>
  BY DEF SendEvent
<1>2. Event(sent + 1) \in GoodLine
  BY <1>0, LinesOK DEF RecordsOK
<1>3. /\ buffer' \in Seq(GoodLine) /\ Len(buffer') <= MaxBufferSize
      /\ up' \in [Socket -> Seq(GoodLine)] /\ dropped' \subseteq LineRef
  BY <1>0, <1>1, <1>2, SendKeeps
<1>4. LinesGood'
  BY <1>1, <1>3, GoodStays DEF LinesGood, commandVars
<1>5. FieldsOK' /\ ClientOK'
  BY <1>0, <1>1, <1>3 DEF FieldsOK, ClientOK, serverVars
<1>6. ServerOK' /\ RecordsOK' /\ SuccessMeansExecuted'
  BY <1>0, <1>1, <1>3 DEF ServerOK, RecordsOK, SuccessMeansExecuted, commandVars, serverVars
<1> QED BY <1>4, <1>5, <1>6, PartsNext

(* A line is read by the daemon; a command is begun, a ping answered.      *)
LEMMA ReadAtClientKeeps == ASSUME LinkInv, NEW s \in Socket, ReadAtClient(s) PROVE LinkInv'
<1> USE Constants DEF ConstOK
<1>0. FieldsOK /\ ServerOK /\ RecordsOK /\ LinesGood /\ ClientOK /\ SuccessMeansExecuted /\ TypeOK
  BY Parts DEF LinkInv
<1> DEFINE line == Head(down[s])
<1>1. /\ down[s] # <<>> /\ down' = [down EXCEPT ![s] = Tail(@)]
      /\ torn' = (line = Half)
      /\ IF ~torn /\ line.kind = "command"
           THEN working' = working \cup {line.arg}
           ELSE UNCHANGED working
      /\ IF ~torn /\ line = Ping
           THEN Send(Pong)
           ELSE UNCHANGED <<up, buffer, dropped>>
      /\ UNCHANGED <<phase, state, socket, timer, restarted, cEnd, sEnd, serverVars,
                     command, executed, sent, got, delivered, faults>>
  BY DEF ReadAtClient
<1>2. /\ down' \in [Socket -> Seq(LineRef)] /\ line \in LineRef
  <2>1. down[s] \in Seq(LineRef)
    BY <1>0 DEF ServerOK
  <2>2. Tail(down[s]) \in Seq(LineRef) /\ line \in LineRef
    BY <1>1, <2>1
  <2> QED BY <1>0, <1>1, <2>2 DEF ServerOK
<1>3. /\ buffer' \in Seq(GoodLine) /\ Len(buffer') <= MaxBufferSize
      /\ up' \in [Socket -> Seq(GoodLine)] /\ dropped' \subseteq LineRef
  <2>1. CASE ~torn /\ line = Ping
    <3>1. Send(Pong) /\ Pong \in GoodLine
      BY <1>1, <2>1, LinesOK
    <3> QED BY <1>0, <3>1, SendKeeps
  <2>2. CASE ~(~torn /\ line = Ping)
    <3>1. UNCHANGED <<up, buffer, dropped>>
      BY <1>1, <2>2
    <3> QED BY <1>0, <3>1 DEF LinesGood, FieldsOK, RecordsOK
  <2> QED BY <2>1, <2>2
<1>4. working' \subseteq Command
  BY <1>0, <1>1, <1>2 DEF RecordsOK, LineRef
<1>5. LinesGood'
  BY <1>1, <1>3, GoodStays DEF LinesGood
<1>6. FieldsOK'
  <2>1. torn' \in BOOLEAN
    BY <1>1
  <2> QED BY <1>0, <1>1, <1>3, <2>1 DEF FieldsOK, serverVars
<1>7. ClientOK'
  BY <1>0, <1>1 DEF ClientOK
<1>8. ServerOK' /\ RecordsOK' /\ SuccessMeansExecuted'
  BY <1>0, <1>1, <1>2, <1>3, <1>4 DEF ServerOK, RecordsOK, SuccessMeansExecuted, serverVars
<1> QED BY <1>5, <1>6, <1>7, <1>8, PartsNext

(* A command is executed before its success is written.                    *)
LEMMA AnswerKeeps ==
  ASSUME LinkInv, NEW c \in Command, NEW success \in BOOLEAN, Answer(c, success)
  PROVE  LinkInv'
<1> USE Constants DEF ConstOK
<1>0. FieldsOK /\ ServerOK /\ RecordsOK /\ LinesGood /\ ClientOK /\ SuccessMeansExecuted /\ TypeOK
  BY Parts DEF LinkInv
<1> DEFINE line == Plain(IF success THEN "success" ELSE "failure", c)
<1>1. /\ working' = working \ {c}
      /\ executed' = IF success THEN executed \cup {c} ELSE executed
      /\ Send(line)
      /\ UNCHANGED <<phase, state, socket, timer, torn, restarted, cEnd, sEnd, down,
                 serverVars, command, sent, got, delivered, faults>>
  BY DEF Answer
<1>2. line \in GoodLine' /\ line \in LineRef
  BY <1>1 DEF GoodLine, LineRef, Plain, Line
<1>3. GoodLine \subseteq GoodLine' /\ executed \subseteq executed' /\ executed' \subseteq Command
  BY <1>0, <1>1 DEF GoodLine, RecordsOK
<1>4. /\ buffer' \in Seq(GoodLine') /\ Len(buffer') <= MaxBufferSize
      /\ up' \in [Socket -> Seq(GoodLine')] /\ dropped' \subseteq LineRef
  <2>0. /\ buffer \in Seq(GoodLine') /\ Len(buffer) <= MaxBufferSize
        /\ \A s \in Socket : up[s] \in Seq(GoodLine') /\ dropped \subseteq LineRef
        /\ \A l \in GoodLine' : l \in LineRef
        /\ DOMAIN up = Socket /\ up = [s \in Socket |-> up[s]]
    BY <1>0, <1>3, GoodGrows DEF LinesGood, FieldsOK, RecordsOK, GoodLine
  <2> HIDE DEF line
  <2> DEFINE G == GoodLine'
  <2>1. CASE state = "connected" /\ socket # NoSocket
    <3>1. up' = [up EXCEPT ![socket] = Append(@, line)] /\ buffer' = buffer /\ dropped' = dropped
      BY <1>1, <2>1 DEF Send
    <3>2. Append(up[socket], line) \in Seq(G)
      <4>1. up[socket] \in Seq(G) /\ line \in G
        BY <1>0, <1>2, <2>0, <2>1 DEF FieldsOK
      <4> HIDE DEF G
      <4> QED BY <4>1
    <3> QED BY <1>0, <2>0, <3>1, <3>2 DEF RecordsOK
  <2>2. CASE ~(state = "connected" /\ socket # NoSocket)
    <3>1. Enqueue(line) /\ up' = up
      BY <1>1, <2>2 DEF Send
    <3>2. up' \in [Socket -> Seq(G)]
      BY <2>0, <3>1
    <3>3. buffer \in Seq(G) /\ line \in G /\ Len(buffer) <= MaxBufferSize
          /\ G \subseteq LineRef /\ dropped \subseteq LineRef
      BY <1>0, <1>2, <2>0 DEF RecordsOK
    <3> HIDE DEF G
    <3>4. CASE Len(buffer) < MaxBufferSize
      <4>1. buffer' = Append(buffer, line) /\ dropped' = dropped
        BY <3>1, <3>4 DEF Enqueue
      <4>2. buffer' \in Seq(G) /\ Len(buffer') <= MaxBufferSize /\ dropped' \subseteq LineRef
        BY <3>3, <3>4, <4>1
      <4> QED BY <3>2, <4>2 DEF G
    <3>5. CASE ~(Len(buffer) < MaxBufferSize)
      <4>1. buffer' = Append(Tail(buffer), line) /\ dropped' = dropped \cup {Head(buffer)}
        BY <3>1, <3>5 DEF Enqueue
      <4>2. buffer # <<>> /\ Len(buffer) = MaxBufferSize
        BY <3>3, <3>5
      <4>3. Head(buffer) \in G /\ Tail(buffer) \in Seq(G) /\ Len(Tail(buffer)) = Len(buffer) - 1
        BY <3>3, <4>2
      <4>4. buffer' \in Seq(G) /\ Len(buffer') <= MaxBufferSize /\ dropped' \subseteq LineRef
        BY <3>3, <4>1, <4>2, <4>3
      <4> QED BY <3>2, <4>4 DEF G
    <3> QED BY <3>4, <3>5
  <2> QED BY <2>1, <2>2
<1>5. LinesGood'
  BY <1>4 DEF LinesGood
<1>6. FieldsOK' /\ ClientOK'
  BY <1>0, <1>1, <1>4 DEF FieldsOK, ClientOK, serverVars
<1>7. ServerOK' /\ RecordsOK' /\ SuccessMeansExecuted'
  BY <1>0, <1>1, <1>3, <1>4 DEF ServerOK, RecordsOK, SuccessMeansExecuted, serverVars
<1> QED BY <1>5, <1>6, <1>7, PartsNext

---------------------------------------------------------------------------
(* The steps of the gateway *)

(* A step of the gateway leaves the client alone; it may read lines.       *)
LEMMA GatewayStepKeeps ==
  ASSUME LinkInv, UNCHANGED <<clientVars, cEnd, executed>>, ServerOK', RecordsOK',
         SuccessMeansExecuted',
         sEnd' \in [Socket -> {"closed", "backlog", "open", "ended"}],
         listening' \in BOOLEAN, up' \in [Socket -> Seq(GoodLine)]
  PROVE  LinkInv'
<1>0. FieldsOK /\ LinesGood /\ ClientOK
  BY Parts
<1>1. LinesGood'
  BY <1>0, GoodStays DEF LinesGood, clientVars
<1>2. FieldsOK'
  BY <1>0 DEF FieldsOK, clientVars
<1>3. ClientOK'
  BY <1>0 DEF ClientOK, clientVars
<1> QED BY <1>1, <1>2, <1>3, PartsNext

(* The gateway starts to listen.                                           *)
LEMMA GatewayStartKeeps == ASSUME LinkInv, GatewayStart PROVE LinkInv'
<1>0. FieldsOK /\ ServerOK /\ RecordsOK /\ LinesGood /\ SuccessMeansExecuted
  BY Parts
<1>1. ServerOK' /\ RecordsOK' /\ SuccessMeansExecuted'
  BY <1>0 DEF GatewayStart, ServerOK, RecordsOK, SuccessMeansExecuted, commandVars, eventVars
<1> QED BY <1>0, <1>1, GatewayStepKeeps DEF GatewayStart, commandVars, FieldsOK, LinesGood

(* The gateway ends; a line to the daemon may be cut.                      *)
LEMMA GatewayEndsKeeps == ASSUME LinkInv, GatewayEnds PROVE LinkInv'
<1>0. FieldsOK /\ ServerOK /\ RecordsOK /\ LinesGood /\ SuccessMeansExecuted
  BY Parts
<1>1. down' \in [Socket -> Seq(LineRef)]
  <2>1. PICK s \in Socket : \E k \in 0..Len(down[s]), cut \in {<<>>, <<Half>>} :
          down' = [down EXCEPT ![s] = SubSeq(@, 1, k) \o cut]
    BY DEF GatewayEnds
  <2>6. PICK k \in 0..Len(down[s]), cut \in {<<>>, <<Half>>} :
          down' = [down EXCEPT ![s] = SubSeq(@, 1, k) \o cut]
    BY <2>1
  <2>2. down[s] \in Seq(LineRef) /\ Half \in LineRef
    BY <1>0, LinesOK DEF ServerOK
  <2>3. SubSeq(down[s], 1, k) \in Seq(LineRef)
    BY <2>2, PartOf
  <2>4. cut \in Seq(LineRef)
    <3>1. <<Half>> \in Seq(LineRef)
      BY <2>2
    <3> QED BY <2>6, <3>1, Nothing
  <2>5. SubSeq(down[s], 1, k) \o cut \in Seq(LineRef)
    BY <2>3, <2>4
  <2> QED BY <1>0, <2>5, <2>6 DEF ServerOK
<1>2. ServerOK'
  BY <1>0, <1>1, Nothing DEF GatewayEnds, ServerOK
<1>3. RecordsOK' /\ SuccessMeansExecuted'
  BY <1>0 DEF GatewayEnds, RecordsOK, SuccessMeansExecuted, eventVars, Lost
<1>4. up' \in [Socket -> Seq(GoodLine)]
  BY <1>0, Nothing DEF GatewayEnds, LinesGood
<1>5. sEnd' \in [Socket -> {"closed", "backlog", "open", "ended"}] /\ listening' \in BOOLEAN
  BY DEF GatewayEnds
<1> QED BY <1>2, <1>3, <1>4, <1>5, GatewayStepKeeps DEF GatewayEnds

(* A connection is accepted.                                               *)
LEMMA AcceptKeeps == ASSUME LinkInv, NEW s \in Socket, Accept(s) PROVE LinkInv'
<1>0. FieldsOK /\ ServerOK /\ RecordsOK /\ LinesGood /\ SuccessMeansExecuted
  BY Parts
<1>1. ServerOK'
  BY <1>0 DEF Accept, ServerOK
<1>2. RecordsOK' /\ SuccessMeansExecuted'
  BY <1>0 DEF Accept, RecordsOK, SuccessMeansExecuted, commandVars, eventVars
<1>3. sEnd' \in [Socket -> {"closed", "backlog", "open", "ended"}]
  BY <1>0 DEF Accept, FieldsOK
<1> QED BY <1>0, <1>1, <1>2, <1>3, GatewayStepKeeps DEF Accept, commandVars, FieldsOK, LinesGood

(* A line is read by the gateway: only a good result makes a success.      *)
LEMMA ReadAtServerKeeps == ASSUME LinkInv, NEW s \in Socket, ReadAtServer(s) PROVE LinkInv'
<1>0. FieldsOK /\ ServerOK /\ RecordsOK /\ LinesGood /\ SuccessMeansExecuted
  BY Parts
<1> DEFINE line == Head(up[s])
<1>1. /\ up[s] # <<>> /\ up' = [up EXCEPT ![s] = Tail(@)]
      /\ missed' = IF line.kind = "pong" /\ s \in clients THEN [missed EXCEPT ![s] = 0] ELSE missed
      /\ daemons' = IF line.kind = "connect" THEN daemons \cup ({s} \cap clients) ELSE daemons
      /\ sEnd' = IF line.kind = "disconnect" /\ s \in clients
                   THEN [sEnd EXCEPT ![s] = "ended"] ELSE sEnd
      /\ IF line.kind = "event"
           THEN got' = line.arg /\ delivered' = delivered \cup {line.arg}
           ELSE UNCHANGED <<got, delivered>>
      /\ command' = [c \in Command |->
                       IF line.kind \in {"success", "failure"} /\ SettledBy(line, c)
                         THEN IF line.kind = "success" THEN "ok" ELSE "failed"
                         ELSE command[c]]
      /\ UNCHANGED <<clientVars, cEnd, down, listening, conns, clients, working,
                     executed, sent, dropped, faults>>
  BY DEF ReadAtServer
<1>2. up[s] \in Seq(GoodLine)
  BY <1>0 DEF LinesGood
<1>3. Tail(up[s]) \in Seq(GoodLine) /\ line \in GoodLine
  BY <1>1, <1>2
<1>4. up' \in [Socket -> Seq(GoodLine)]
  BY <1>0, <1>1, <1>3 DEF LinesGood
<1>5. ServerOK'
  BY <1>0, <1>1 DEF ServerOK
<1>6. line.kind = "event" => line.arg \in Nat
  BY <1>3 DEF GoodLine, LineRef
<1> HIDE DEF line
<1>7. RecordsOK'
  BY <1>0, <1>1, <1>6 DEF RecordsOK, Lost
<1>8. SuccessMeansExecuted'
  BY <1>0, <1>1, <1>3 DEF SuccessMeansExecuted, SettledBy, GoodLine
<1>9. sEnd' \in [Socket -> {"closed", "backlog", "open", "ended"}] /\ listening' \in BOOLEAN
  BY <1>0, <1>1 DEF FieldsOK
<1> QED BY <1>1, <1>4, <1>5, <1>7, <1>8, <1>9, GatewayStepKeeps

(* The heartbeat.                                                          *)
LEMMA SweepKeeps == ASSUME LinkInv, Sweep PROVE LinkInv'
<1>0. FieldsOK /\ ServerOK /\ RecordsOK /\ LinesGood /\ SuccessMeansExecuted
  BY Parts
<1> DEFINE late == {s \in clients : missed[s] >= MissLimit}
           rest == clients \ late
<1>1. /\ clients' = rest /\ daemons' = daemons \ late
      /\ sEnd' = [s \in Socket |-> IF s \in late THEN "ended" ELSE sEnd[s]]
      /\ down' = [s \in Socket |-> IF s \in rest /\ sEnd[s] = "open" /\ cEnd[s] # "closed"
                                     THEN Append(down[s], Ping) ELSE down[s]]
      /\ missed' = [s \in Socket |-> IF s \in rest THEN missed[s] + 1 ELSE 0]
      /\ UNCHANGED <<clientVars, cEnd, up, listening, conns, commandVars, eventVars>>
  BY DEF Sweep
<1>2. faults' \in Nat
  BY <1>0 DEF Sweep, RecordsOK
<1>3. \A s \in Socket : Append(down[s], Ping) \in Seq(LineRef)
  BY <1>0, LinesOK DEF ServerOK
<1>4. ServerOK'
  BY <1>0, <1>1, <1>3 DEF ServerOK
<1>5. RecordsOK' /\ SuccessMeansExecuted'
  BY <1>0, <1>1, <1>2 DEF RecordsOK, SuccessMeansExecuted, commandVars, eventVars
<1>6. sEnd' \in [Socket -> {"closed", "backlog", "open", "ended"}] /\ listening' \in BOOLEAN
  BY <1>0, <1>1 DEF FieldsOK
<1>7. up' \in [Socket -> Seq(GoodLine)]
  BY <1>0, <1>1 DEF LinesGood
<1> QED BY <1>1, <1>4, <1>5, <1>6, <1>7, GatewayStepKeeps DEF commandVars

(* The close event of a connection.                                        *)
LEMMA ServerCloseKeeps == ASSUME LinkInv, NEW s \in Socket, ServerClose(s) PROVE LinkInv'
<1>0. FieldsOK /\ ServerOK /\ RecordsOK /\ LinesGood /\ SuccessMeansExecuted
  BY Parts
<1>1. conns' \in Seq(Socket)
  <2>1. PICK i \in DOMAIN conns :
          conns' = SubSeq(conns, 1, i - 1) \o SubSeq(conns, i + 1, Len(conns))
    BY DEF ServerClose
  <2>2. conns \in Seq(Socket) /\ Len(conns) \in Nat /\ i \in 1..Len(conns)
    BY <1>0, SeqByElements DEF ServerOK
  <2>3. SubSeq(conns, 1, i - 1) \in Seq(Socket) /\ SubSeq(conns, i + 1, Len(conns)) \in Seq(Socket)
    BY <2>2, PartOf
  <2> QED BY <2>1, <2>3
<1>2. ServerOK'
  BY <1>0, <1>1 DEF ServerClose, ServerOK
<1>3. RecordsOK' /\ SuccessMeansExecuted'
  BY <1>0 DEF ServerClose, RecordsOK, SuccessMeansExecuted, commandVars, eventVars
<1>4. sEnd' \in [Socket -> {"closed", "backlog", "open", "ended"}]
  BY <1>0 DEF ServerClose, FieldsOK
<1> QED BY <1>0, <1>2, <1>3, <1>4, GatewayStepKeeps DEF ServerClose, commandVars, FieldsOK, LinesGood

(* A command is sent.                                                      *)
LEMMA RequestKeeps == ASSUME LinkInv, NEW c \in Command, Request(c) PROVE LinkInv'
<1>0. FieldsOK /\ ServerOK /\ RecordsOK /\ LinesGood /\ SuccessMeansExecuted
  BY Parts
<1>1. down' \in [Socket -> Seq(LineRef)]
  <2>1. PICK s \in Socket :
          down' = IF sEnd[s] = "open" /\ cEnd[s] # "closed"
                    THEN [down EXCEPT ![s] = Append(@, Plain("command", c))]
                    ELSE down
    BY DEF Request
  <2>2. down[s] \in Seq(LineRef) /\ Plain("command", c) \in LineRef
    BY <1>0, LinesOK DEF ServerOK
  <2>3. Append(down[s], Plain("command", c)) \in Seq(LineRef)
    BY <2>2
  <2> QED BY <1>0, <2>1, <2>3 DEF ServerOK
<1>2. ServerOK'
  BY <1>0, <1>1 DEF Request, ServerOK, serverVars
<1>3. RecordsOK' /\ SuccessMeansExecuted'
  BY <1>0 DEF Request, RecordsOK, SuccessMeansExecuted, eventVars
<1> QED BY <1>0, <1>2, <1>3, GatewayStepKeeps DEF Request, serverVars, FieldsOK, LinesGood

(* A command times out.                                                    *)
LEMMA TimeoutKeeps == ASSUME LinkInv, NEW c \in Command, Timeout(c) PROVE LinkInv'
<1>0. FieldsOK /\ ServerOK /\ RecordsOK /\ LinesGood /\ SuccessMeansExecuted
  BY Parts
<1>1. ServerOK'
  BY <1>0 DEF Timeout, ServerOK, serverVars
<1>2. RecordsOK' /\ SuccessMeansExecuted'
  BY <1>0 DEF Timeout, RecordsOK, SuccessMeansExecuted, eventVars, Lost
<1> QED BY <1>0, <1>1, <1>2, GatewayStepKeeps DEF Timeout, serverVars, FieldsOK, LinesGood

---------------------------------------------------------------------------
(* Theorems *)

(* Every action of the daemon and of the gateway, and every event of a     *)
(* socket, keeps the invariant.                                            *)
LEMMA StepKeeps == LinkInv /\ [Next]_vars => LinkInv'
<1> SUFFICES ASSUME LinkInv, [Next]_vars PROVE LinkInv'
  OBVIOUS
<1>1. CASE Connect \/ ReconnectTimer \/ Disconnect \/ SendEvent
  BY <1>1, ConnectKeeps, TimerKeeps, DisconnectKeeps, SendEventKeeps
<1>2. CASE DaemonEnds
  <2>1. ProcessEnds /\ faults' \in Nat
    BY <1>2, Parts DEF DaemonEnds, RecordsOK
  <2> QED BY <2>1, ProcessEndKeeps
<1>3. CASE GatewayStart \/ GatewayEnds \/ Sweep
  BY <1>3, GatewayStartKeeps, GatewayEndsKeeps, SweepKeeps
<1>4. ASSUME NEW s \in Socket, ClientStep(s) PROVE LinkInv'
  BY <1>4, OnConnectKeeps, OnErrorKeeps, OnCloseKeeps, ReadAtClientKeeps DEF ClientStep
<1>5. ASSUME NEW s \in Socket, ServerStep(s) PROVE LinkInv'
  BY <1>5, AcceptKeeps, ReadAtServerKeeps, ServerCloseKeeps DEF ServerStep
<1>6. ASSUME NEW c \in Command, Request(c) \/ Timeout(c) PROVE LinkInv'
  BY <1>6, RequestKeeps, TimeoutKeeps
<1>7. ASSUME NEW c \in Command, NEW success \in BOOLEAN, Answer(c, success) PROVE LinkInv'
  BY <1>7, AnswerKeeps
<1>8. CASE UNCHANGED vars
  <2>0. FieldsOK /\ ServerOK /\ RecordsOK /\ LinesGood /\ ClientOK /\ SuccessMeansExecuted
    BY Parts
  <2>1. UNCHANGED <<clientVars, cEnd, sEnd, up, down, serverVars, commandVars, eventVars, faults>>
    BY <1>8 DEF vars
  <2>2. ServerOK' /\ RecordsOK' /\ SuccessMeansExecuted'
    BY <2>0, <2>1 DEF ServerOK, RecordsOK, SuccessMeansExecuted, serverVars, commandVars, eventVars
  <2> QED BY <2>0, <2>1, <2>2, GatewayStepKeeps DEF commandVars, serverVars, FieldsOK, LinesGood
<1> QED BY <1>1, <1>2, <1>3, <1>4, <1>5, <1>6, <1>7, <1>8 DEF Next

(* The fields are well formed, the buffer keeps its limit, the client is   *)
(* where its state says, results on their way tell of executed commands.   *)
THEOREM LinkHolds == Spec => []LinkInv
<1>1. Init => LinkInv
  BY InitHolds
<1>2. LinkInv /\ [Next]_vars => LinkInv'
  BY StepKeeps
<1> QED BY <1>1, <1>2, PTL DEF Spec

(* A started daemon is connected or on its way to be: in no order of error *)
(* and close events does it wait for nothing.                              *)
THEOREM ClientNeverStranded == Spec => []NeverStranded
<1>1. LinkInv => NeverStranded
  <2> SUFFICES ASSUME FieldsOK, ClientOK PROVE NeverStranded
    BY Parts
  <2> QED BY DEF FieldsOK, ClientOK, NeverStranded
<1> QED BY <1>1, LinkHolds, PTL

(* What the gateway reports as done was done.                              *)
THEOREM SuccessIsTrue == Spec => []SuccessMeansExecuted
<1>1. LinkInv => SuccessMeansExecuted
  BY DEF LinkInv
<1> QED BY <1>1, LinkHolds, PTL

(* A settled request stays as it was settled.                              *)
THEOREM RequestsSettleOnce == Spec => SettledOnce
<1> DEFINE Settled == \A c \in Command :
                        command[c] \in {"ok"} \cup Lost => command'[c] = command[c]
<1>1. LinkInv /\ [Next]_vars => [Settled]_vars
  <2> SUFFICES ASSUME LinkInv, Next PROVE Settled
    OBVIOUS
  <2>0. command \in [Command -> {"none", "pending", "ok"} \cup Lost]
    BY DEF LinkInv, TypeOK
  <2>1. CASE command' = command
    BY <2>1
  <2>2. ASSUME NEW c \in Command, Request(c) \/ Timeout(c) PROVE Settled
    BY <2>0, <2>2 DEF Request, Timeout, Lost
  <2>3. ASSUME NEW s \in Socket, ReadAtServer(s) PROVE Settled
    BY <2>0, <2>3 DEF ReadAtServer, SettledBy, Lost
  <2>4. CASE GatewayEnds
    BY <2>0, <2>4 DEF GatewayEnds, Lost
  <2>5. \/ Connect \/ ReconnectTimer \/ Disconnect \/ DaemonEnds \/ SendEvent
        \/ GatewayStart \/ Sweep
        \/ \E s \in Socket : ClientStep(s) \/ Accept(s) \/ ServerClose(s)
        \/ \E c \in Command, success \in BOOLEAN : Answer(c, success)
        => command' = command
    BY DEF Connect, ReconnectTimer, Disconnect, DaemonEnds, ProcessEnds, SendEvent,
           GatewayStart, Sweep, ClientStep, OnConnect, OnError, OnClose, ReadAtClient,
           Accept, ServerClose, Answer, commandVars
  <2> QED BY <2>1, <2>2, <2>3, <2>4, <2>5 DEF Next, ServerStep
<1> QED BY <1>1, LinkHolds, PTL DEF Spec, SettledOnce
=============================================================================
