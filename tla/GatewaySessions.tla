-------------------------- MODULE GatewaySessions --------------------------
(***************************************************************************)
(* The clients of the gateway: connections and their limits, the           *)
(* authentication flows, sessions, heartbeat, stop and restart (src/       *)
(* gateway: gateway-server.ts, connection/, auth/, protocol/message-       *)
(* router.ts). One action is one callback of the event loop; a callback    *)
(* that awaits a signature is two, StartVerify and FinishVerify.           *)
(***************************************************************************)
EXTENDS Naturals, FiniteSets

CONSTANTS
  Ws,          \* WebSocket objects, each the connection of one client
  Ip, NoIp,    \* remote addresses
  Local,       \* those of this machine
  Limit,       \* maxConnectionsPerIp, maxLocalConnections
  Key, NoKey,  \* public keys
  Token, NoToken,
  AdminToken,  \* tokens with the permission admin
  MaxAuth,     \* bound: messages auth.verify and auth.token
  MaxRestarts  \* bound

ASSUME GatewayAssumption ==
  /\ IsFiniteSet(Ws)
  /\ NoIp \notin Ip /\ Local \subseteq Ip /\ Limit \in [Ip -> Nat]
  /\ NoKey \notin Key /\ NoToken \notin Token /\ AdminToken \subseteq Token
  /\ MaxAuth \in Nat /\ MaxRestarts \in Nat

VARIABLES
  phase,     \* of the server
  restarts,
  \* the sockets
  conn,      \* the state of a connection, as the server's socket knows it
  ipOf,      \* its remote address
  gone,      \* clients that disappeared without a word
  refused,   \* connections that got no handlers: the limit was exceeded
  \* ConnectionManager
  pending,   \* pendingConnections, with their timers
  counts,    \* ipConnectionCounts
  sessions,  \* sessions; websockets and the heartbeat's map have the same keys
  addressed, \* the sessions in sessionRemoteAddresses
  alive,     \* the sessions whose isAlive the heartbeat has set
  opened,    \* the number of sessions opened on a connection
  \* AuthManager
  auth,      \* pendingAuths
  verifying, \* the calls of handleVerify that await a signature
  asked,     \* the messages that ask for a session, so far
  bound      \* pairing_tokens: public_key

netVars == <<conn, ipOf, gone, refused>>
tableVars == <<pending, counts, sessions, addressed, alive, opened>>
authVars == <<auth, verifying, asked, bound>>
vars == <<phase, restarts, netVars, tableVars, authVars>>

(* A session: nth is its place in the order of the Map, via the token that *)
(* was paired with its key, if one was.                                    *)
Session == [ws : Ws, nth : Nat \ {0}, key : Key \cup {NoKey}, via : Token \cup {NoToken}]

(* A PendingAuth: auth.hello knows the key, auth.pair the token.           *)
PendingAuth == [key : Key \cup {NoKey}, token : {NoToken}] \cup [key : {NoKey}, token : Token]
NoAuth == [key |-> NoKey, token |-> NoToken]

---------------------------------------------------------------------------
Init ==
  /\ phase = "running" /\ restarts = 0
  /\ conn = [w \in Ws |-> "none"] /\ ipOf = [w \in Ws |-> NoIp] /\ gone = {} /\ refused = {}
  /\ pending = {} /\ counts = [i \in Ip |-> 0]
  /\ sessions = {} /\ addressed = {} /\ alive = {}
  /\ opened = [w \in Ws |-> 0]
  /\ auth = [w \in Ws |-> NoAuth] /\ verifying = {}
  /\ asked = 0
  /\ bound = [t \in Token |-> NoKey]

---------------------------------------------------------------------------
(* ConnectionManager *)

(* Mutant: the limit may be reached once more. *)
HasRoomForOneMore(i) == counts[i] <= Limit[i]

(* canAcceptConnection                                                     *)
HasRoom(i) == counts[i] < Limit[i]

(* The counts after connections of an address went: a count never falls    *)
(* below zero.                                                             *)
CountsWithout(gonePending, goneSessions) ==
  [i \in Ip |->
     LET n == Cardinality({w \in gonePending : ipOf[w] = i})
              + Cardinality({s \in goneSessions : ipOf[s.ws] = i})
     IN  IF n < counts[i] THEN counts[i] - n ELSE 0]

(* Mutant: a session without an address is counted down as well. *)
CountedDownAlways(gonePending, goneSessions) ==
  counts' = CountsWithout(gonePending, goneSessions)

(* Only sessions whose address is known are counted down.                  *)
CountDown(gonePending, goneSessions) ==
  counts' = CountsWithout(gonePending, goneSessions \cap addressed)

(* The sockets of sessions that are disconnected are closed.               *)
ConnWithout(lost) ==
  [w \in Ws |-> IF conn[w] = "open" /\ \E s \in lost : s.ws = w THEN "closing" ELSE conn[w]]

(* promoteConnection: a connection that is not pending (any more) gets a   *)
(* session all the same, without an address.                               *)
Promote(w, key, via) ==
  LET s == [ws |-> w, nth |-> opened[w] + 1, key |-> key, via |-> via]
  IN  /\ opened' = [opened EXCEPT ![w] = @ + 1]
      /\ pending' = pending \ {w}
      /\ sessions' = sessions \cup {s}
      /\ addressed' = IF w \in pending THEN addressed \cup {s} ELSE addressed
      /\ alive' = alive \cup {s}
      /\ UNCHANGED <<counts, netVars>>

(* handleConnection: too many connections are closed and get no handlers;  *)
(* a local one is added and promoted at once.                              *)
Open(w, i) ==
  LET s == [ws |-> w, nth |-> 1, key |-> NoKey, via |-> NoToken]
  IN  /\ phase \in {"running", "draining"} /\ conn[w] = "none"
      /\ ipOf' = [ipOf EXCEPT ![w] = i]
      /\ IF HasRoom(i)
           THEN /\ conn' = [conn EXCEPT ![w] = "open"]
                /\ counts' = [counts EXCEPT ![i] = @ + 1]
                /\ UNCHANGED refused
                /\ IF i \in Local
                     THEN /\ sessions' = sessions \cup {s}
                          /\ addressed' = addressed \cup {s}
                          /\ alive' = alive \cup {s}
                          /\ opened' = [opened EXCEPT ![w] = 1]
                          /\ UNCHANGED pending
                     ELSE /\ pending' = pending \cup {w}
                          /\ UNCHANGED <<sessions, addressed, alive, opened>>
           ELSE /\ conn' = [conn EXCEPT ![w] = "closing"]
                /\ refused' = refused \cup {w}
                /\ UNCHANGED tableVars
      /\ UNCHANGED <<phase, restarts, gone, authVars>>

(* rejectPendingConnection, by the timer of a pending connection.          *)
AuthTimeout(w) ==
  /\ w \in pending
  /\ pending' = pending \ {w}
  /\ CountDown({w}, {})
  /\ conn' = [conn EXCEPT ![w] = IF @ = "open" THEN "closing" ELSE @]
  /\ UNCHANGED <<phase, restarts, ipOf, gone, refused, sessions, addressed, alive, opened, authVars>>

(* The client closes, or disappears so that nothing is heard of it.        *)
Leave(w) ==
  /\ conn[w] = "open" /\ w \notin gone
  /\ conn' = [conn EXCEPT ![w] = "closing"]
  /\ UNCHANGED <<phase, restarts, ipOf, gone, refused, tableVars, authVars>>

Vanish(w) ==
  /\ conn[w] = "open" /\ w \notin gone
  /\ gone' = gone \cup {w}
  /\ UNCHANGED <<phase, restarts, conn, ipOf, refused, tableVars, authVars>>

(* handleDisconnect looks for the first session of the socket.             *)
First(w) ==
  {s \in sessions : s.ws = w /\ \A r \in sessions : r.ws = w => s.nth <= r.nth}

(* The close event. cancelAuth is called with an identifier pendingAuths   *)
(* does not know (the router's has a prefix) and changes nothing.          *)
Close(w) ==
  /\ conn[w] = "closing"
  /\ IF w \in pending
       THEN /\ pending' = pending \ {w}
            /\ CountDown({w}, {})
            /\ UNCHANGED <<sessions, addressed, alive>>
       ELSE /\ LET lost == IF w \in refused THEN {} ELSE First(w)
               IN  /\ CountDown({}, lost)
                   /\ sessions' = sessions \ lost
                   /\ addressed' = addressed \ lost
                   /\ alive' = alive \ lost
            /\ UNCHANGED pending
  /\ conn' = [conn EXCEPT ![w] = "closed"]
  /\ UNCHANGED <<phase, restarts, ipOf, gone, refused, opened, authVars>>

---------------------------------------------------------------------------
(* HeartbeatHandler *)

Pong(w) ==
  /\ conn[w] = "open" /\ w \notin gone
  /\ alive' = alive \cup {s \in sessions : s.ws = w}
  /\ UNCHANGED <<phase, restarts, netVars, pending, counts, sessions, addressed, opened, authVars>>

(* Mutant: sessions of closed sockets are not looked at. *)
TimedOutOpen == {s \in sessions \ alive : conn[s.ws] = "open"}

(* The interval is longer than the timeout: whoever has not answered the   *)
(* ping of the last check is timed out.                                    *)
TimedOut == sessions \ alive

CheckConnections ==
  /\ phase \in {"running", "draining"} /\ sessions # {}
  /\ CountDown({}, TimedOut)
  /\ sessions' = sessions \ TimedOut
  /\ addressed' = addressed \ TimedOut
  /\ alive' = {}
  /\ conn' = ConnWithout(TimedOut)
  /\ UNCHANGED <<phase, restarts, ipOf, gone, refused, pending, opened, authVars>>

---------------------------------------------------------------------------
(* MessageRouter and AuthManager *)

(* A message of a client; one sent before a close is still handled.        *)
Heard(w) == conn[w] \in {"open", "closing"} /\ w \notin gone /\ w \notin refused

(* handleHello: the key of a returning client.                             *)
Hello(w, k) ==
  /\ Heard(w) /\ \E t \in Token : bound[t] = k
  /\ auth' = [auth EXCEPT ![w] = [key |-> k, token |-> NoToken]]
  /\ UNCHANGED <<phase, restarts, netVars, tableVars, verifying, asked, bound>>

(* handlePair: a token that has no key yet.                                *)
Pair(w, t) ==
  /\ Heard(w) /\ bound[t] = NoKey
  /\ auth' = [auth EXCEPT ![w] = [key |-> NoKey, token |-> t]]
  /\ UNCHANGED <<phase, restarts, netVars, tableVars, verifying, asked, bound>>

(* handleVerify up to its await; k is the key in the message, if any.      *)
StartVerify(w, k) ==
  /\ Heard(w) /\ auth[w] # NoAuth /\ asked < MaxAuth
  /\ auth[w].key # NoKey \/ k # NoKey
  /\ asked' = asked + 1
  /\ verifying' = verifying \cup {[ws |-> w, id |-> asked, auth |-> auth[w], key |-> k]}
  /\ UNCHANGED <<phase, restarts, netVars, tableVars, auth, bound>>

(* A challenge has expired.                                                *)
VerifyExpired(w) ==
  /\ Heard(w) /\ auth[w] # NoAuth
  /\ auth' = [auth EXCEPT ![w] = NoAuth]
  /\ UNCHANGED <<phase, restarts, netVars, tableVars, verifying, asked, bound>>

(* Mutant: the token was found free when the pairing began. *)
BindsBlindly(t) == TRUE

(* bindPublicKey: the UPDATE finds a token without a key only.             *)
Binds(t) == bound[t] = NoKey

(* handleVerify from its await on: whatever happened to the connection in  *)
(* the meantime, a valid signature opens a session. The entry of           *)
(* pendingAuths that is deleted is the present one.                        *)
FinishVerify(v, valid) ==
  LET pairs == v.auth.token # NoToken /\ v.key # NoKey
      key == IF v.auth.key # NoKey THEN v.auth.key ELSE v.key
      succeeds == valid /\ (pairs => Binds(v.auth.token))
  IN  /\ v \in verifying /\ verifying' = verifying \ {v}
      /\ auth' = [auth EXCEPT ![v.ws] = NoAuth]
      /\ IF succeeds
           THEN /\ Promote(v.ws, key, IF pairs THEN v.auth.token ELSE NoToken)
                /\ bound' = IF pairs THEN [bound EXCEPT ![v.auth.token] = v.key] ELSE bound
           ELSE UNCHANGED <<bound, netVars, tableVars>>
      /\ UNCHANGED <<phase, restarts, asked>>

(* auth.token: an administrator's token opens a session without challenge. *)
TokenAuth(w, t) ==
  /\ Heard(w) /\ t \in AdminToken
  /\ asked < MaxAuth /\ asked' = asked + 1
  /\ Promote(w, NoKey, NoToken)
  /\ UNCHANGED <<phase, restarts, auth, verifying, bound>>

---------------------------------------------------------------------------
(* GatewayServer *)

(* stop: connections are accepted until the link to the daemon is closed.  *)
Stop ==
  /\ phase = "running" /\ restarts < MaxRestarts
  /\ phase' = "draining" /\ restarts' = restarts + 1
  /\ UNCHANGED <<netVars, tableVars, authVars>>

(* Mutant: the sockets of sessions are left to their clients. *)
ConnAsIs == conn

(* The sockets of sessions are closed, those of pending connections not.   *)
ConnAfterStop == ConnWithout(sessions)

(* The rest of stop: the connection manager forgets all, the WebSocket     *)
(* server waits for its clients.                                           *)
StopManager ==
  /\ phase = "draining" /\ phase' = "closing"
  /\ pending' = {} /\ counts' = [i \in Ip |-> 0]
  /\ sessions' = {} /\ addressed' = {} /\ alive' = {}
  /\ conn' = ConnAfterStop
  /\ UNCHANGED <<restarts, ipOf, gone, refused, opened, authVars>>

Stopped ==
  /\ phase = "closing" /\ phase' = "stopped"
  /\ \A w \in Ws : conn[w] \in {"none", "closed"}
  /\ UNCHANGED <<restarts, netVars, tableVars, authVars>>

(* start, by restartServer.                                                *)
Start ==
  /\ phase = "stopped" /\ phase' = "running"
  /\ UNCHANGED <<restarts, netVars, tableVars, authVars>>

---------------------------------------------------------------------------
Message(w) ==
  \/ \E k \in Key : Hello(w, k)
  \/ \E t \in Token : Pair(w, t) \/ TokenAuth(w, t)
  \/ \E k \in Key \cup {NoKey} : StartVerify(w, k)
  \/ VerifyExpired(w)

Next ==
  \/ \E w \in Ws : \/ (\E i \in Ip : Open(w, i)) \/ AuthTimeout(w) \/ Leave(w) \/ Vanish(w) \/ Close(w)
                   \/ Pong(w) \/ Message(w)
  \/ \E v \in verifying, valid \in BOOLEAN : FinishVerify(v, valid)
  \/ CheckConnections
  \/ Stop \/ StopManager \/ Stopped \/ Start

Spec == Init /\ [][Next]_vars

(* Timers fire; a socket that is closed by one side has its close event,   *)
(* at the latest when its own timeout ends the handshake; stop goes on.    *)
(* Nothing is assumed of clients and their signatures.                     *)
Fairness ==
  /\ WF_vars(CheckConnections) /\ WF_vars(StopManager) /\ WF_vars(Stopped) /\ WF_vars(Start)
  /\ \A w \in Ws : WF_vars(AuthTimeout(w)) /\ WF_vars(Close(w))

FairSpec == Spec /\ Fairness

---------------------------------------------------------------------------
(* Properties *)

Verification ==
  [ws : Ws, id : Nat, auth : PendingAuth, key : Key \cup {NoKey}]

(* The tables hold what their types allow, and only live sessions are      *)
(* known to the heartbeat or have an address.                              *)
TypeOK ==
  /\ phase \in {"running", "draining", "closing", "stopped"} /\ restarts \in Nat
  /\ conn \in [Ws -> {"none", "open", "closing", "closed"}]
  /\ ipOf \in [Ws -> Ip \cup {NoIp}] /\ gone \subseteq Ws /\ refused \subseteq Ws
  /\ pending \subseteq Ws /\ counts \in [Ip -> Nat]
  /\ sessions \subseteq Session /\ addressed \subseteq sessions /\ alive \subseteq sessions
  /\ opened \in [Ws -> Nat]
  /\ auth \in [Ws -> PendingAuth] /\ verifying \subseteq Verification
  /\ asked \in Nat /\ bound \in [Token -> Key \cup {NoKey}]

(* The connections an address is charged for.                              *)
Charged(i) ==
  {w \in Ws : ipOf[w] = i /\ (w \in pending \/ \E s \in addressed : s.ws = w)}

(* The count of an address is the number of its connections that are       *)
(* pending or have a session that knows its address, however connections   *)
(* close, time out, are promoted late or twice, before and after restarts: *)
(* no slot leaks, none is given back twice.                                *)
CountsExact == \A i \in Ip : counts[i] = Cardinality(Charged(i))

(* While the server runs, no address has more open connections than it     *)
(* may: whatever path a connection takes from accepted to closed, it is    *)
(* charged for as long as it is open.                                      *)
LimitHolds ==
  phase = "running" =>
    \A i \in Ip : Cardinality({w \in Ws \ refused : conn[w] = "open" /\ ipOf[w] = i}) <= Limit[i]

(* A token is paired with one key: of verifications that run at once, and  *)
(* of connections that pair with the same token, one opens sessions, and   *)
(* those have the key that is stored.                                      *)
PairedOnce == \A s \in sessions : s.via # NoToken => bound[s.via] = s.key

(* A connection is charged once.                                           *)
ChargedOnce ==
  /\ \A s \in addressed : s.ws \notin pending
  /\ \A r, s \in addressed : r.ws = s.ws => r = s

(* While the server runs, an open connection is charged; when it has       *)
(* stopped there is none.                                                  *)
OpenIsCharged ==
  /\ phase \in {"running", "draining"} =>
       \A w \in Ws \ refused : conn[w] = "open" => w \in Charged(ipOf[w])
  /\ phase = "stopped" => \A w \in Ws : conn[w] # "open"

(* A connection has an address, and before that nothing else.              *)
FreshOK ==
  \A w \in Ws :
    IF conn[w] = "none"
      THEN w \notin pending /\ (\A s \in sessions : s.ws # w) /\ (\A v \in verifying : v.ws # w)
      ELSE ipOf[w] \in Ip

(* The inductive invariant of the proofs.                                  *)
IInv ==
  /\ TypeOK /\ ChargedOnce /\ CountsExact /\ OpenIsCharged /\ FreshOK
  /\ \A i \in Ip : counts[i] <= Limit[i]
  /\ PairedOnce /\ \A s \in sessions : s.via # NoToken => s.key # NoKey

(* A connection that got no handlers is closed from the start.             *)
RefusedShut == \A w \in refused : conn[w] \in {"closing", "closed"}

(* What stop waits for is known when it starts to wait: connections not    *)
(* authenticated at that time. Every other one is on its way out then, and *)
(* none is added while it waits, whoever authenticates in the meantime.    *)
StopWaitsForPending ==
  [][/\ phase = "draining" /\ phase' = "closing" =>
          \A w \in Ws : conn'[w] = "open" => w \in pending
     /\ phase \in {"closing", "stopped"} /\ phase' # "running" =>
          \A w \in Ws : conn'[w] = "open" => conn[w] = "open"]_vars

(* While the server runs, a session whose connection is closed, or whose   *)
(* client disappeared, does not stay, and a session that was opened late,  *)
(* after the close event of its connection, neither.                       *)
DeadSessionsReaped ==
  \A w \in Ws :
    (w \in gone \/ conn[w] = "closed") /\ (\E s \in sessions : s.ws = w)
      ~> (phase # "running" \/ \A s \in sessions : s.ws # w)

(* stop ends, unless a client that was not authenticated at the time stays *)
(* connected: its socket is not closed, its timer is cleared.              *)
StopEnds ==
  phase = "closing" ~>
    \/ phase = "stopped"
    \/ \E w \in Ws : conn[w] = "open" /\ (opened[w] = 0 \/ \E s \in sessions : s.ws = w)
=============================================================================
