------------------------------ MODULE IpcLink ------------------------------
(***************************************************************************)
(* The link between the scheduler daemon and the gateway: IPCClient in the *)
(* daemon (src/ipc/ipc-client.ts), IPCServer in the gateway (src/ipc/      *)
(* ipc-server.ts), and the commands IPCBridge (src/gateway/integration/    *)
(* ipc-bridge.ts) sends over it. Handlers run one at a time in each        *)
(* process; one action is one handler. Between them are Unix sockets: a    *)
(* sequence of lines per direction, and for each end whether its process   *)
(* has closed it and whether the process has seen the close event.         *)
(***************************************************************************)
EXTENDS Naturals, Sequences, FiniteSets

CONSTANTS
  Socket,        \* socket pairs; one is used again when both ends closed it
  NoSocket,
  Command,       \* commands of the gateway's clients
  MaxBufferSize, \* maxBufferSize
  MissLimit,     \* sweeps without a pong that heartbeatTimeoutMs allows
  MayStop,       \* the daemon may be stopped
  MayReopen,     \* and started again in the same process
  MaxEvents,     \* bound: events of the scheduler
  MaxQueue,      \* bound: lines of a socket, for pings
  MaxFaults      \* bound: processes that end, restarts, live connections that time out

ASSUME LinkAssumption ==
  /\ NoSocket \notin Socket
  /\ IsFiniteSet(Socket)
  /\ MaxBufferSize \in Nat \ {0} /\ MissLimit \in Nat \ {0}
  /\ MayStop \in BOOLEAN /\ MayReopen \in BOOLEAN
  /\ MaxEvents \in Nat /\ MaxQueue \in Nat /\ MaxFaults \in Nat

VARIABLES
  \* IPCClient
  phase,      \* has the daemon called connect, has it called disconnect?
  state,      \* state
  socket,     \* socket
  timer,      \* is reconnectTimer set?
  buffer,     \* messageBuffer
  torn,       \* socketBuffer holds the beginning of a line
  restarted,  \* connect was called after disconnect, or a process ended
  \* the sockets
  cEnd,       \* the client's end
  sEnd,       \* the server's end
  up,         \* lines to the server
  down,       \* lines to the client
  \* IPCServer
  listening,
  conns,      \* the connections made, until their close event
  clients,    \* clients
  daemons,    \* the clients with a clientInfo
  missed,     \* sweeps since lastPongAt
  \* IPCBridge, and the commands at work in the daemon
  command,    \* pendingCommands, and what became of the others
  working,    \* commands handleSchedulerCommand has begun
  executed,   \* commands the scheduler has executed
  \* events
  sent,       \* the number of events sent
  got,        \* the latest event that reached the event bus
  delivered,  \* the events that reached it
  dropped,    \* messages the full buffer has dropped
  faults

clientVars == <<phase, state, socket, timer, buffer, torn, restarted>>
serverVars == <<listening, conns, clients, daemons, missed>>
commandVars == <<command, working, executed>>
eventVars == <<sent, got, delivered, dropped>>
vars == <<clientVars, cEnd, sEnd, up, down, serverVars, commandVars, eventVars, faults>>

(* Lines. A line that is written by the flush of the buffer is kept apart: *)
(* it is put back when its write fails.                                    *)
Line(kind, arg, flushed) == [kind |-> kind, arg |-> arg, flushed |-> flushed]
Plain(kind, arg) == Line(kind, arg, FALSE)
Event(e) == Plain("event", e)
Ping == Plain("ping", 0)
Pong == Plain("pong", 0)
Half == Plain("half", 0)

Flushed(lines) == [i \in DOMAIN lines |-> [lines[i] EXCEPT !.flushed = TRUE]]
Unflushed(lines) == [i \in DOMAIN lines |-> [lines[i] EXCEPT !.flushed = FALSE]]

Lost == {"timedout", "failed", "abandoned"}

---------------------------------------------------------------------------
Init ==
  /\ phase = "idle" /\ state = "disconnected" /\ socket = NoSocket
  /\ timer = FALSE /\ buffer = <<>> /\ torn = FALSE /\ restarted = FALSE
  /\ cEnd = [s \in Socket |-> "closed"]
  /\ sEnd = [s \in Socket |-> "closed"]
  /\ up = [s \in Socket |-> <<>>]
  /\ down = [s \in Socket |-> <<>>]
  /\ listening = FALSE /\ conns = <<>> /\ clients = {} /\ daemons = {}
  /\ missed = [s \in Socket |-> 0]
  /\ command = [c \in Command |-> "none"] /\ working = {} /\ executed = {}
  /\ sent = 0 /\ got = 0 /\ delivered = {} /\ dropped = {}
  /\ faults = 0

---------------------------------------------------------------------------
(* IPCClient *)

(* The first half of connect: the kernel decides at once whether there is  *)
(* a listener, the event that tells comes later.                           *)
Dial ==
  \E s \in Socket :
    /\ cEnd[s] = "closed" /\ sEnd[s] = "closed"
    /\ state' = "connecting"
    /\ socket' = s
    /\ cEnd' = [cEnd EXCEPT ![s] = IF listening THEN "dialing" ELSE "refused"]
    /\ sEnd' = [sEnd EXCEPT ![s] = IF listening THEN "backlog" ELSE "closed"]
    /\ conns' = IF listening THEN Append(conns, s) ELSE conns
    /\ UNCHANGED <<up, down>>

(* The daemon's call of connect.                                           *)
Connect ==
  /\ IF phase = "idle" THEN UNCHANGED faults
     ELSE /\ MayReopen /\ phase = "stopped"
          /\ faults < MaxFaults /\ faults' = faults + 1
  /\ phase' = "started"
  /\ restarted' = (restarted \/ phase = "stopped")
  /\ IF state \in {"connected", "connecting"}
       THEN UNCHANGED <<state, socket, cEnd, sEnd, conns, up, down>>
       ELSE Dial
  /\ UNCHANGED <<timer, buffer, torn, listening, clients, daemons, missed, commandVars, eventVars>>

ReconnectTimer ==
  /\ timer /\ timer' = FALSE
  /\ IF state \in {"connected", "connecting"}
       THEN UNCHANGED <<state, socket, cEnd, sEnd, conns, up, down>>
       ELSE Dial
  /\ UNCHANGED <<phase, buffer, torn, restarted, listening, clients, daemons, missed, commandVars, eventVars, faults>>

(* Mutant: nothing is buffered while a connection is being made. *)
EnqueueUnlessConnecting(line) ==
  IF state = "connecting"
    THEN UNCHANGED <<buffer, dropped>>
    ELSE IF Len(buffer) < MaxBufferSize
    THEN buffer' = Append(buffer, line) /\ UNCHANGED dropped
    ELSE /\ buffer' = Append(Tail(buffer), line)
         /\ dropped' = dropped \cup {Head(buffer)}

(* Mutant: the limit is compared after the message was added. *)
EnqueueLate(line) ==
  IF Len(buffer) <= MaxBufferSize
    THEN buffer' = Append(buffer, line) /\ UNCHANGED dropped
    ELSE /\ buffer' = Append(Tail(buffer), line)
         /\ dropped' = dropped \cup {Head(buffer)}

(* A full buffer drops its oldest message.                                 *)
Enqueue(line) ==
  IF Len(buffer) < MaxBufferSize
    THEN buffer' = Append(buffer, line) /\ UNCHANGED dropped
    ELSE /\ buffer' = Append(Tail(buffer), line)
         /\ dropped' = dropped \cup {Head(buffer)}

(* send: a write on a socket whose other end is gone fails when the close  *)
(* event comes (OnClose).                                                  *)
Send(line) ==
  IF state = "connected" /\ socket # NoSocket
    THEN up' = [up EXCEPT ![socket] = Append(@, line)] /\ UNCHANGED <<buffer, dropped>>
    ELSE Enqueue(line) /\ UNCHANGED up

(* The process ends: the kernel closes its sockets and keeps, of what was  *)
(* written last, what it had taken.                                        *)
ProcessEnds ==
  /\ phase' = "idle" /\ state' = "disconnected" /\ socket' = NoSocket
  /\ timer' = FALSE /\ buffer' = <<>> /\ torn' = FALSE /\ restarted' = TRUE
  /\ cEnd' = [s \in Socket |-> "closed"]
  /\ \E k \in 0..(IF socket = NoSocket THEN 0 ELSE Len(up[socket])) :
       up' = [s \in Socket |-> IF sEnd[s] = "closed" THEN <<>>
                               ELSE IF s = socket THEN SubSeq(up[s], 1, k)
                               ELSE up[s]]
  /\ down' = [s \in Socket |-> <<>>]
  /\ working' = {}
  /\ UNCHANGED <<sEnd, serverVars, command, executed, eventVars>>

(* Mutant: the client does not introduce itself. *)
FlushOnly == Flushed(buffer)

(* sendConnectMessage and flushBuffer: the lines they write.               *)
Greeting == <<Plain("connect", 0)>> \o Flushed(buffer)

(* Mutant: the messages that are sent are not taken out of the buffer. *)
BufferKept == buffer

BufferAfterFlush == <<>>

(* onConnect: the client introduces itself and flushes its buffer, on the  *)
(* socket it regards as its own. When disconnect, or the close event of an *)
(* older socket, has set that to null, the handler throws and the process  *)
(* ends.                                                                   *)
OnConnect(s) ==
  /\ cEnd[s] = "dialing"
  /\ IF socket = NoSocket
       THEN ProcessEnds
       ELSE /\ state' = "connected"
            /\ cEnd' = [cEnd EXCEPT ![s] = "open"]
            /\ up' = [up EXCEPT ![socket] = @ \o Greeting]
            /\ buffer' = BufferAfterFlush
            /\ UNCHANGED <<phase, socket, timer, torn, restarted, sEnd, down,
                           serverVars, commandVars, eventVars>>
  /\ UNCHANGED faults

(* Mutant: only a connection that was established is made again. *)
ScheduleIfConnected == timer' = (timer \/ state = "connected")

(* scheduleReconnect                                                       *)
ScheduleReconnect == timer' = TRUE

(* onError, and the close event that follows in the same callback: the     *)
(* first schedules the reconnection, the second finds it scheduled and     *)
(* leaves the state disconnected.                                          *)
OnError(s) ==
  /\ cEnd[s] = "refused"
  /\ IF socket = NoSocket
       THEN ProcessEnds
       ELSE /\ socket' = NoSocket
            /\ state' = "disconnected"
            /\ ScheduleReconnect
            /\ cEnd' = [cEnd EXCEPT ![s] = "closed"]
            /\ UNCHANGED <<phase, buffer, torn, restarted, sEnd, up, down,
                           serverVars, commandVars, eventVars>>
  /\ UNCHANGED faults

(* The writes that had not reached the kernel, from i on, fail. Those of   *)
(* the flush, which are next to each other, are put back behind what is    *)
(* buffered, as far as the buffer has room.                                *)
Rebuffer(s, i) ==
  \E j \in (i - 1)..Len(up[s]) :
    /\ \A n \in i..Len(up[s]) : up[s][n].flushed <=> n <= j
    /\ LET room == MaxBufferSize - Len(buffer)
           last == IF j - i < room THEN j ELSE i + room - 1
       IN  buffer' = buffer \o Unflushed(SubSeq(up[s], i, last))

(* The close event, of whichever socket: socket is set to null and a       *)
(* reconnection is scheduled, even after disconnect.                       *)
OnClose(s) ==
  /\ cEnd[s] \in {"open", "ended"}
  /\ sEnd[s] \in {"ended", "closed"} /\ down[s] = <<>>
  /\ cEnd' = [cEnd EXCEPT ![s] = "closed"]
  /\ socket' = NoSocket
  /\ state' = IF timer THEN "disconnected" ELSE "reconnecting"
  /\ ScheduleReconnect
  /\ IF sEnd[s] = "ended"
       THEN UNCHANGED <<up, buffer>>
       ELSE /\ up' = [up EXCEPT ![s] = <<>>]
            /\ \E i \in 1..Len(up[s]) + 1 : Rebuffer(s, i)
  /\ UNCHANGED <<phase, torn, restarted, sEnd, down, serverVars, commandVars, eventVars, faults>>

(* disconnect                                                              *)
Disconnect ==
  /\ MayStop /\ phase = "started"
  /\ phase' = "stopped" /\ state' = "disconnected" /\ timer' = FALSE
  /\ socket' = NoSocket
  /\ IF socket = NoSocket
       THEN UNCHANGED <<cEnd, up>>
       ELSE /\ up' = [up EXCEPT ![socket] = Append(@, Plain("disconnect", 0))]
            /\ cEnd' = [cEnd EXCEPT ![socket] = IF @ = "open" THEN "ended" ELSE @]
  /\ UNCHANGED <<buffer, torn, restarted, sEnd, down, serverVars, commandVars, eventVars, faults>>

(* The daemon is killed, or exits after it was stopped.                    *)
DaemonEnds ==
  /\ phase # "idle" /\ faults < MaxFaults
  /\ faults' = faults + 1
  /\ ProcessEnds

(* handleSchedulerEvent of the daemon.                                     *)
SendEvent ==
  /\ phase = "started" /\ sent < MaxEvents
  /\ sent' = sent + 1
  /\ Send(Event(sent + 1))
  /\ UNCHANGED <<phase, state, socket, timer, torn, restarted, cEnd, sEnd, down,
                 serverVars, commandVars, got, delivered, faults>>

(* The data event of a client's socket, line by line. Pongs go to the      *)
(* socket the client regards as its own. socketBuffer outlives a socket:   *)
(* the first line of the next one is glued to a half line and lost.        *)
ReadAtClient(s) ==
  LET line == Head(down[s])
  IN  /\ cEnd[s] \in {"open", "ended"} /\ down[s] # <<>>
      /\ down' = [down EXCEPT ![s] = Tail(@)]
      /\ torn' = (line = Half)
      /\ IF ~torn /\ line.kind = "command"
           THEN working' = working \cup {line.arg}
           ELSE UNCHANGED working
      /\ IF ~torn /\ line = Ping
           THEN Send(Pong)
           ELSE UNCHANGED <<up, buffer, dropped>>
      /\ UNCHANGED <<phase, state, socket, timer, restarted, cEnd, sEnd, serverVars,
                     command, executed, sent, got, delivered, faults>>

(* handleSchedulerCommand: the scheduler executes the command, or refuses  *)
(* it, and the result is sent.                                             *)
Answer(c, success) ==
  /\ c \in working
  /\ working' = working \ {c}
  /\ executed' = IF success THEN executed \cup {c} ELSE executed
  /\ Send(Plain(IF success THEN "success" ELSE "failure", c))
  /\ UNCHANGED <<phase, state, socket, timer, torn, restarted, cEnd, sEnd, down,
                 serverVars, command, sent, got, delivered, faults>>

---------------------------------------------------------------------------
(* IPCServer and IPCBridge *)

GatewayStart ==
  /\ ~listening /\ listening' = TRUE
  /\ UNCHANGED <<clientVars, cEnd, sEnd, up, down, conns, clients, daemons, missed,
                 commandVars, eventVars, faults>>

(* The gateway stops or is killed: its ends are closed, a line may have    *)
(* been written to the daemon in part, callers of commands are gone.       *)
GatewayEnds ==
  /\ listening /\ faults < MaxFaults
  /\ faults' = faults + 1
  /\ listening' = FALSE /\ conns' = <<>> /\ clients' = {} /\ daemons' = {}
  /\ sEnd' = [s \in Socket |-> "closed"]
  /\ up' = [s \in Socket |-> IF cEnd[s] = "closed" THEN <<>> ELSE up[s]]
  /\ \E s \in Socket : \E k \in 0..Len(down[s]), cut \in {<<>>, <<Half>>} :
       /\ k + Len(cut) <= Len(down[s])
       /\ down' = [down EXCEPT ![s] = SubSeq(@, 1, k) \o cut]
  /\ command' = [c \in Command |-> IF command[c] = "pending" THEN "abandoned" ELSE command[c]]
  /\ UNCHANGED <<clientVars, cEnd, missed, working, executed, eventVars>>

(* handleConnection                                                        *)
Accept(s) ==
  /\ sEnd[s] = "backlog"
  /\ \A i, j \in DOMAIN conns : i < j /\ conns[j] = s => sEnd[conns[i]] # "backlog"
  /\ sEnd' = [sEnd EXCEPT ![s] = "open"]
  /\ clients' = clients \cup {s}
  /\ missed' = [missed EXCEPT ![s] = 0]
  /\ UNCHANGED <<clientVars, cEnd, up, down, listening, conns, daemons, commandVars,
                 eventVars, faults>>

(* Mutant: a result settles the oldest request. *)
SettledByAny(line, c) == command[c] = "pending"

(* Mutant: requests that timed out stay in the map. *)
SettledLate(line, c) == command[c] \in {"pending", "timedout"} /\ c = line.arg

(* handleSchedulerCommandResult: is this the request the line answers?     *)
SettledBy(line, c) == command[c] = "pending" /\ c = line.arg

(* What a closed connection has left is read before a later connection is: *)
(* the client waits a second before it makes one.                          *)
ReadInOrder(s) ==
  \A i, j \in DOMAIN conns :
    i < j /\ conns[j] = s => cEnd[conns[i]] # "closed" \/ up[conns[i]] = <<>>

(* The data event of a connection, and the handlers of the bridge. A       *)
(* client that was deleted is still read.                                  *)
ReadAtServer(s) ==
  LET line == Head(up[s])
  IN  /\ sEnd[s] \in {"open", "ended"} /\ up[s] # <<>> /\ ReadInOrder(s)
      /\ up' = [up EXCEPT ![s] = Tail(@)]
      /\ missed' = IF line.kind = "pong" /\ s \in clients THEN [missed EXCEPT ![s] = 0] ELSE missed
      /\ daemons' = IF line.kind = "connect" THEN daemons \cup ({s} \cap clients) ELSE daemons
      /\ sEnd' = IF line.kind = "disconnect" /\ s \in clients
                   THEN [sEnd EXCEPT ![s] = "ended"] ELSE sEnd
      /\ IF line.kind = "event"
           THEN got' = line.arg /\ delivered' = delivered \cup {line.arg}
           ELSE UNCHANGED <<got, delivered>>
      /\ command' = [c \in Command |->
                       IF line.kind \in {"success", "failure"} /\ SettledBy(line, c)
                         THEN IF line.kind = "success" THEN "ok" ELSE "failed"
                         ELSE command[c]]
      /\ UNCHANGED <<clientVars, cEnd, down, listening, conns, clients, working,
                     executed, sent, dropped, faults>>

(* The heartbeat: clients that answered too few pings are closed and       *)
(* deleted, the others are sent another. A live connection that times out  *)
(* counts as a fault: one of the processes was held up for a minute.       *)
Sweep ==
  LET late == {s \in clients : missed[s] >= MissLimit}
      live == {s \in late : cEnd[s] \in {"dialing", "open"}}
      rest == clients \ late
  IN  /\ listening /\ clients # {}
      /\ \A s \in rest : Len(down[s]) + Len(up[s]) < MaxQueue
      /\ IF live = {} THEN UNCHANGED faults
         ELSE faults < MaxFaults /\ faults' = faults + 1
      /\ clients' = rest /\ daemons' = daemons \ late
      /\ sEnd' = [s \in Socket |-> IF s \in late THEN "ended" ELSE sEnd[s]]
      /\ down' = [s \in Socket |-> IF s \in rest /\ sEnd[s] = "open" /\ cEnd[s] # "closed"
                                     THEN Append(down[s], Ping) ELSE down[s]]
      /\ missed' = [s \in Socket |-> IF s \in rest THEN missed[s] + 1 ELSE 0]
      /\ UNCHANGED <<clientVars, cEnd, up, listening, conns, commandVars, eventVars>>

(* The close event of a connection.                                        *)
ServerClose(s) ==
  /\ sEnd[s] \in {"open", "ended"}
  /\ cEnd[s] \in {"ended", "closed"} /\ up[s] = <<>>
  /\ sEnd' = [sEnd EXCEPT ![s] = "closed"]
  /\ \E i \in DOMAIN conns :
       /\ conns[i] = s
       /\ conns' = SubSeq(conns, 1, i - 1) \o SubSeq(conns, i + 1, Len(conns))
  /\ clients' = clients \ {s} /\ daemons' = daemons \ {s}
  /\ UNCHANGED <<clientVars, cEnd, up, down, listening, missed, commandVars, eventVars,
                 faults>>

(* findSchedulerDaemonClientId: the first in the order of the Map.         *)
Target(s) ==
  \E i \in DOMAIN conns : /\ conns[i] = s /\ s \in daemons
                          /\ \A j \in DOMAIN conns : j < i => conns[j] \notin daemons

(* sendSchedulerCommand; it throws, and leaves nothing, when no daemon is  *)
(* registered.                                                             *)
Request(c) ==
  /\ listening /\ command[c] = "none"
  /\ command' = [command EXCEPT ![c] = "pending"]
  /\ \E s \in Socket :
       /\ Target(s)
       /\ down' = IF sEnd[s] = "open" /\ cEnd[s] # "closed"
                    THEN [down EXCEPT ![s] = Append(@, Plain("command", c))]
                    ELSE down
  /\ UNCHANGED <<clientVars, cEnd, sEnd, up, serverVars, working, executed, eventVars, faults>>

(* The timeout of a request; its result will find no entry.                *)
Timeout(c) ==
  /\ command[c] = "pending"
  /\ command' = [command EXCEPT ![c] = "timedout"]
  /\ UNCHANGED <<clientVars, cEnd, sEnd, up, down, serverVars, working, executed,
                 eventVars, faults>>

---------------------------------------------------------------------------
ClientStep(s) == OnConnect(s) \/ OnError(s) \/ OnClose(s) \/ ReadAtClient(s)
ServerStep(s) == Accept(s) \/ ReadAtServer(s) \/ ServerClose(s)

Next ==
  \/ Connect \/ ReconnectTimer \/ Disconnect \/ DaemonEnds \/ SendEvent
  \/ GatewayStart \/ GatewayEnds \/ Sweep
  \/ \E s \in Socket : ClientStep(s) \/ ServerStep(s)
  \/ \E c \in Command : \/ Request(c) \/ Timeout(c)
                        \/ \E success \in BOOLEAN : Answer(c, success)

Spec == Init /\ [][Next]_vars

(* Timers fire, sockets deliver, processes are started again.              *)
Fairness ==
  /\ WF_vars(Connect) /\ WF_vars(ReconnectTimer) /\ WF_vars(GatewayStart)
  /\ \A s \in Socket : WF_vars(ClientStep(s)) /\ WF_vars(ServerStep(s))
  /\ \A c \in Command : WF_vars(Timeout(c))

FairSpec == Spec /\ Fairness

---------------------------------------------------------------------------
(* Properties *)

LineRef ==
       [kind : {"connect", "disconnect", "ping", "pong", "half"}, arg : {0}, flushed : BOOLEAN]
  \cup [kind : {"event"}, arg : Nat, flushed : BOOLEAN]
  \cup [kind : {"command", "success", "failure"}, arg : Command, flushed : BOOLEAN]

(* The fields of the objects and the ends of the sockets hold what their   *)
(* types allow, and the buffer never holds more than it may.               *)
TypeOK ==
  /\ phase \in {"idle", "started", "stopped"}
  /\ state \in {"disconnected", "connecting", "connected", "reconnecting"}
  /\ socket \in Socket \cup {NoSocket}
  /\ timer \in BOOLEAN /\ torn \in BOOLEAN /\ restarted \in BOOLEAN
  /\ buffer \in Seq(LineRef) /\ Len(buffer) <= MaxBufferSize
  /\ cEnd \in [Socket -> {"closed", "dialing", "refused", "open", "ended"}]
  /\ sEnd \in [Socket -> {"closed", "backlog", "open", "ended"}]
  /\ up \in [Socket -> Seq(LineRef)] /\ down \in [Socket -> Seq(LineRef)]
  /\ listening \in BOOLEAN
  /\ conns \in Seq(Socket) /\ clients \subseteq Socket /\ daemons \subseteq Socket
  /\ missed \in [Socket -> Nat]
  /\ command \in [Command -> {"none", "pending", "ok"} \cup Lost]
  /\ working \subseteq Command /\ executed \subseteq Command
  /\ sent \in Nat /\ got \in Nat /\ delivered \subseteq Nat /\ dropped \subseteq LineRef
  /\ faults \in Nat

(* A daemon that was started and not stopped is connected, or an attempt   *)
(* to connect is on its way: whatever order error and close events come in *)
(* (the same events clear socket, set state and schedule the timer), the   *)
(* client never waits for nothing.                                         *)
NeverStranded ==
  phase = "started" =>
    \/ timer
    \/ \E s \in Socket : cEnd[s] \in {"dialing", "refused"}
    \/ state = "connected" /\ socket # NoSocket /\ cEnd[socket] = "open"

Events(lines) == {lines[i].arg : i \in {j \in DOMAIN lines : lines[j].kind = "event"}}

InUp(e) == \E s \in Socket : e \in Events(up[s])
InBuffer(e) == e \in Events(buffer)
WasDropped(e) == \E m \in dropped : m.kind = "event" /\ m.arg = e

(* As long as no process ends and no connection times out, an event is     *)
(* delivered, on its way, in the buffer, or the buffer was full: changes   *)
(* of state between send, flush and the events of the socket lose none.    *)
NothingLost ==
  faults = 0 /\ phase = "started" /\ ~restarted =>
    \A e \in 1..sent : e \in delivered \/ InUp(e) \/ InBuffer(e) \/ WasDropped(e)

(* A command reported as successful was executed by the daemon, whatever   *)
(* was lost, timed out or answered late before.                            *)
SuccessMeansExecuted == \A c \in Command : command[c] = "ok" => c \in executed

(* A request is settled once: after its timeout, and in a new life of the  *)
(* gateway, a late result changes nothing.                                 *)
SettledOnce ==
  [][\A c \in Command :
       command[c] \in {"ok"} \cup Lost => command'[c] = command[c]]_vars

(* The client's socket is being dialled or open while its state says so,   *)
(* and a started client that is neither has a timer.                       *)
ClientOK ==
  /\ (socket # NoSocket) <=> state \in {"connecting", "connected"}
  /\ socket # NoSocket => cEnd[socket] \in {"dialing", "refused", "open"}
  /\ state = "connecting" => cEnd[socket] \in {"dialing", "refused"}
  /\ phase = "started" /\ state \in {"disconnected", "reconnecting"} => timer

ResultsOK(lines) ==
  \A i \in DOMAIN lines : lines[i].kind = "success" => lines[i].arg \in executed

(* What holds of the fields and the lines, whatever happens.               *)
LinkInv ==
  /\ TypeOK
  /\ ClientOK
  /\ ResultsOK(buffer) /\ \A s \in Socket : ResultsOK(up[s])
  /\ SuccessMeansExecuted

(* A client that is not opened again holds one connection at a time, and   *)
(* the timer runs only while it holds none.                                *)
OneConnection ==
  /\ \A s, t \in Socket : cEnd[s] # "closed" /\ cEnd[t] # "closed" => s = t
  /\ \A s \in Socket : cEnd[s] # "closed" => s = socket \/ phase = "stopped"
  /\ timer \/ phase = "idle" => \A s \in Socket : cEnd[s] = "closed"
  /\ phase = "idle" => ~timer
  /\ state = "connected" => cEnd[socket] = "open"

InConns(s) == \E i \in DOMAIN conns : conns[i] = s
Before(s, t) == \E i, j \in DOMAIN conns : i < j /\ conns[i] = s /\ conns[j] = t

(* The server's connections: those that others follow are closed already.  *)
ConnsOK ==
  /\ \A i, j \in DOMAIN conns : conns[i] = conns[j] => i = j
  /\ \A s \in Socket : InConns(s) <=> sEnd[s] # "closed"
  /\ \A s \in clients : sEnd[s] # "closed"
  /\ \A s, t \in Socket : Before(s, t) => cEnd[s] = "closed"

(* Events wait in the buffer or in the open socket, never in both.         *)
PlacesOK ==
  \A s \in Socket :
    /\ cEnd[s] \in {"dialing", "refused"} \/ (cEnd[s] = "closed" /\ sEnd[s] = "closed")
         => Events(up[s]) = {}
    /\ cEnd[s] \in {"open", "ended"} => Events(buffer) = {}

Sorted(lines) ==
  \A i, j \in DOMAIN lines :
    i < j /\ lines[i].kind = "event" /\ lines[j].kind = "event" => lines[i].arg < lines[j].arg

Older(A, B) == \A a \in A, b \in B : a < b

(* In the order in which the server will read them, the events under way   *)
(* are newer and newer, and all newer than the latest that arrived.        *)
EventsOrdered ==
  /\ got <= sent
  /\ Sorted(buffer) /\ Events(buffer) \subseteq (got + 1)..sent
  /\ \A s \in Socket : /\ Sorted(up[s]) /\ Events(up[s]) \subseteq (got + 1)..sent
                       /\ Older(Events(up[s]), Events(buffer))
  /\ \A s, t \in Socket : Before(s, t) \/ (s # t /\ cEnd[t] # "closed")
                            => Older(Events(up[s]), Events(up[t]))

OrderInv == OneConnection /\ ConnsOK /\ PlacesOK /\ EventsOrdered

(* As long as nothing has failed and the client was not stopped, whatever  *)
(* it has dialled or opened is open at the server, and nobody says goodbye.*)
CalmInv ==
  faults = 0 /\ ~restarted /\ phase # "stopped" =>
    /\ \A s \in Socket : /\ cEnd[s] # "ended"
                         /\ cEnd[s] \in {"dialing", "open"} => sEnd[s] \in {"backlog", "open"}
                         /\ \A i \in DOMAIN up[s] : up[s][i].kind # "disconnect"
    /\ \A i \in DOMAIN buffer : buffer[i].kind # "disconnect"
    /\ \A e \in 1..sent : e \in delivered \/ InUp(e) \/ InBuffer(e) \/ WasDropped(e)

(* The inductive invariant of the proofs.                                  *)
IInv == LinkInv /\ CalmInv /\ (~MayReopen => OrderInv)

Channel == INSTANCE LossyChannel

(* Events reach the event bus in order and once: a buffer that is flushed, *)
(* and what is put back into it, never overtakes nor repeats an event.     *)
ImplementsLossyChannel == Channel!LossyChannelSpec

Registered == state = "connected" /\ socket # NoSocket /\ Target(socket)

(* When the faults have ended, the gateway comes to know the daemon by its *)
(* one live connection, and commands go there: dead connections do not     *)
(* stay in front of it, and no connection takes another's place for ever.  *)
DaemonRegistered == <>[](Registered /\ daemons = {socket})

(* When the faults have ended, what is buffered is sent.                   *)
BufferDrains == <>[](buffer = <<>>)
=============================================================================
