----------------------- MODULE GatewaySessionsProofs -----------------------
(***************************************************************************)
(* The safety of the gateway's connections and pairings, for every set of  *)
(* clients, addresses, keys and tokens and every limit: the inductive      *)
(* invariant IInv, and what follows from it.                               *)
(***************************************************************************)
EXTENDS GatewaySessions, Integers, TLAPS, FiniteSetTheorems

(* The constants of an instance.                                           *)
ConstOK ==
  /\ IsFiniteSet(Ws) /\ NoIp \notin Ip /\ Local \subseteq Ip /\ Limit \in [Ip -> Nat]
  /\ NoKey \notin Key /\ NoToken \notin Token /\ AdminToken \subseteq Token

(* The assumption of GatewaySessions, as the proofs use it.                *)
LEMMA Constants == ConstOK
BY GatewayAssumption DEF GatewayAssumption, ConstOK

(* The last conjuncts of IInv, by names.                                   *)
LimitsKept == \A i \in Ip : counts[i] <= Limit[i]
KeysKnown == \A s \in sessions : s.via # NoToken => s.key # NoKey

---------------------------------------------------------------------------
(* Counting *)

(* The connections an address is charged for are finitely many.            *)
LEMMA ChargedFinite ==
  ASSUME NEW i
  PROVE  IsFiniteSet(Charged(i)) /\ Cardinality(Charged(i)) \in Nat
<1>1. Charged(i) \subseteq Ws
  BY DEF Charged
<1> QED BY <1>1, Constants, FS_Subset, FS_CardinalityType DEF ConstOK

(* Addressed sessions of a set are as many as their connections.           *)
LEMMA SessionsAndSockets ==
  ASSUME TypeOK, ChargedOnce, NEW B \in SUBSET addressed
  PROVE  LET D == {s.ws : s \in B}
         IN  /\ D \subseteq Ws /\ IsFiniteSet(D) /\ Cardinality(D) \in Nat
             /\ Cardinality(B) = Cardinality(D)
<1> DEFINE D == {s.ws : s \in B}
           f == [s \in B |-> s.ws]
<1>1. D \subseteq Ws
  BY DEF TypeOK, Session
<1>2. IsFiniteSet(D) /\ Cardinality(D) \in Nat
  BY <1>1, Constants, FS_Subset, FS_CardinalityType DEF ConstOK
<1>3. f \in [B -> D]
  OBVIOUS
<1>4. \A r, s \in B : f[r] = f[s] => r = s
  BY DEF ChargedOnce
<1>5. f \in Injection(B, D)
  BY <1>3, <1>4 DEF Injection, IsInjective
<1>6. f \in Surjection(B, D)
  BY <1>3 DEF Surjection
<1>7. Cardinality(B) = Cardinality(D)
  <2> HIDE DEF D, f
  <2> QED BY <1>2, <1>5, <1>6, FS_Injection
<1> QED BY <1>1, <1>2, <1>7

(* Counting down exactly what is charged no more keeps the counts exact.   *)
LEMMA CountDownExact ==
  ASSUME TypeOK, ChargedOnce, CountsExact,
         NEW P \in SUBSET pending, NEW L, CountDown(P, L),
         pending' = pending \ P, addressed' = addressed \ L, ipOf' = ipOf
  PROVE  /\ CountsExact' /\ counts' \in [Ip -> Nat]
         /\ \A i \in Ip : counts'[i] <= counts[i]
<1>1. SUFFICES ASSUME NEW i \in Ip
               PROVE  /\ counts'[i] = Cardinality(Charged(i)') /\ counts'[i] \in Nat
                      /\ counts'[i] <= counts[i]
  BY <1>1 DEF CountsExact, CountDown, CountsWithout
<1> DEFINE A == {w \in P : ipOf[w] = i}
           B == {s \in L \cap addressed : ipOf[s.ws] = i}
           D == {s.ws : s \in B}
<1>2. /\ D \subseteq Ws /\ IsFiniteSet(D) /\ Cardinality(D) \in Nat
      /\ Cardinality(B) = Cardinality(D)
  BY SessionsAndSockets
<1>3. A \subseteq Ws /\ IsFiniteSet(A) /\ Cardinality(A) \in Nat
  <2>1. A \subseteq Ws
    BY DEF TypeOK
  <2> QED BY <2>1, Constants, FS_Subset, FS_CardinalityType DEF ConstOK
<1>4. A \cap D = {}
  BY DEF ChargedOnce
<1>5. A \cup D \subseteq Charged(i)
  BY <1>2, <1>3 DEF Charged
<1>6. Charged(i)' = Charged(i) \ (A \cup D)
  <2>1. \A w \in Ws : (\E s \in addressed' : s.ws = w) /\ ipOf[w] = i
                        <=> (\E s \in addressed : s.ws = w) /\ ipOf[w] = i /\ w \notin D
    BY DEF ChargedOnce
  <2>2. \A w \in Ws : w \in A => ~ \E s \in addressed : s.ws = w
    BY DEF ChargedOnce
  <2>3. \A w \in D : w \notin pending
    BY DEF ChargedOnce
  <2>4. \A w \in Ws : w \in Charged(i)' <=> w \in Charged(i) \ (A \cup D)
    BY <2>1, <2>2, <2>3 DEF Charged
  <2> QED BY <2>4 DEF Charged
<1>7. Cardinality(A \cup D) = Cardinality(A) + Cardinality(D) /\ IsFiniteSet(A \cup D)
  <2> HIDE DEF A, D
  <2> QED BY <1>2, <1>3, <1>4, FS_Union, FS_EmptySet
<1>8. /\ Cardinality(Charged(i)') = Cardinality(Charged(i)) - Cardinality(A \cup D)
      /\ Cardinality(A \cup D) <= Cardinality(Charged(i))
  <2> HIDE DEF A, D
  <2>1. Charged(i) \cap (A \cup D) = A \cup D
    BY <1>5
  <2> QED BY <1>5, <1>6, <2>1, ChargedFinite, FS_Difference, FS_Subset
<1>9. counts'[i] = LET n == Cardinality(A) + Cardinality(B)
                   IN  IF n < counts[i] THEN counts[i] - n ELSE 0
  BY DEF CountDown, CountsWithout
<1>10. counts[i] = Cardinality(Charged(i)) /\ counts[i] \in Nat
  BY ChargedFinite DEF CountsExact
<1> HIDE DEF A, B, D
<1> QED BY <1>2, <1>3, <1>7, <1>8, <1>9, <1>10

(* Nothing else moves the charges.                                         *)
LEMMA ChargesStay ==
  ASSUME pending' = pending, addressed' = addressed, ipOf' = ipOf
  PROVE  \A i : Charged(i)' = Charged(i)
BY DEF Charged

(* The invariant by its named parts.                                       *)
LEMMA Parts ==
  IInv <=> /\ TypeOK /\ ChargedOnce /\ CountsExact /\ OpenIsCharged /\ FreshOK
           /\ LimitsKept /\ PairedOnce /\ KeysKnown
BY DEF IInv, LimitsKept, KeysKnown

(* The same of the next state.                                             *)
LEMMA PartsNext ==
  IInv' <=> /\ TypeOK' /\ ChargedOnce' /\ CountsExact' /\ OpenIsCharged' /\ FreshOK'
            /\ LimitsKept' /\ PairedOnce' /\ KeysKnown'
BY Parts, PTL

(* Steps that leave sockets, tables and pairings alone.                    *)
LEMMA Elsewhere ==
  ASSUME IInv, TypeOK', UNCHANGED <<netVars, tableVars, bound>>, UNCHANGED phase,
         \A v \in verifying' : conn[v.ws] # "none"
  PROVE  IInv'
<1> USE Parts
<1>1. \A i : Charged(i)' = Charged(i)
  BY ChargesStay DEF netVars, tableVars
<1>2. ChargedOnce' /\ LimitsKept' /\ PairedOnce' /\ KeysKnown'
  BY DEF netVars, tableVars, ChargedOnce, LimitsKept, PairedOnce, KeysKnown
<1>3. CountsExact' /\ OpenIsCharged'
  BY <1>1 DEF netVars, tableVars, CountsExact, OpenIsCharged
<1>4. FreshOK'
  BY DEF netVars, tableVars, FreshOK
<1> QED BY <1>2, <1>3, <1>4, PartsNext

---------------------------------------------------------------------------
(* A connection that is promoted is charged as before.                     *)
LEMMA PromoteKeeps ==
  ASSUME IInv, NEW w \in Ws, conn[w] # "none",
         NEW key \in Key \cup {NoKey}, NEW via \in Token \cup {NoToken},
         Promote(w, key, via)
  PROVE  /\ pending' \subseteq Ws /\ counts' \in [Ip -> Nat]
         /\ sessions' \subseteq Session /\ addressed' \subseteq sessions'
         /\ alive' \subseteq sessions' /\ opened' \in [Ws -> Nat]
         /\ ChargedOnce' /\ CountsExact' /\ LimitsKept'
         /\ phase' = phase => OpenIsCharged'
         /\ verifying' \subseteq verifying => FreshOK'
         /\ \A s \in sessions' : s \in sessions \/ (s.key = key /\ s.via = via)
<1> DEFINE s0 == [ws |-> w, nth |-> opened[w] + 1, key |-> key, via |-> via]
<1> USE Parts
<1>1. /\ opened' = [opened EXCEPT ![w] = @ + 1]
      /\ pending' = pending \ {w} /\ sessions' = sessions \cup {s0}
      /\ addressed' = IF w \in pending THEN addressed \cup {s0} ELSE addressed
      /\ alive' = alive \cup {s0} /\ counts' = counts
      /\ conn' = conn /\ ipOf' = ipOf /\ gone' = gone /\ refused' = refused
  BY DEF Promote, netVars
<1>2. s0 \in Session /\ s0.ws = w /\ s0.key = key /\ s0.via = via
  BY DEF TypeOK, Session
<1> HIDE DEF s0
<1>3. /\ pending' \subseteq Ws /\ counts' \in [Ip -> Nat]
      /\ sessions' \subseteq Session /\ addressed' \subseteq sessions'
      /\ alive' \subseteq sessions' /\ opened' \in [Ws -> Nat]
  BY <1>1, <1>2 DEF TypeOK
<1>4. ChargedOnce'
  BY <1>1, <1>2 DEF ChargedOnce
<1>5. \A i : Charged(i)' = Charged(i)
  <2>1. \A x \in Ws : (x \in pending' \/ \E s \in addressed' : s.ws = x)
                        <=> (x \in pending \/ \E s \in addressed : s.ws = x)
    BY <1>1, <1>2
  <2> QED BY <1>1, <2>1 DEF Charged
<1>6. CountsExact' /\ LimitsKept'
  BY <1>1, <1>5 DEF CountsExact, LimitsKept
<1>7. phase' = phase => OpenIsCharged'
  BY <1>1, <1>5 DEF OpenIsCharged
<1>8. verifying' \subseteq verifying => FreshOK'
  BY <1>1, <1>2 DEF FreshOK
<1>9. \A s \in sessions' : s \in sessions \/ (s.key = key /\ s.via = via)
  BY <1>1, <1>2
<1> QED BY <1>3, <1>4, <1>6, <1>7, <1>8, <1>9

---------------------------------------------------------------------------
(* The initial state.                                                      *)
LEMMA InitHolds == Init => IInv
<1> SUFFICES ASSUME Init PROVE IInv
  OBVIOUS
<1> USE Constants DEF ConstOK
<1>1. TypeOK
  BY DEF Init, TypeOK, PendingAuth, NoAuth
<1>2. \A i \in Ip : Charged(i) = {}
  BY DEF Init, Charged
<1>3. CountsExact
  BY <1>2, FS_EmptySet DEF Init, CountsExact
<1>4. ChargedOnce /\ OpenIsCharged /\ FreshOK /\ LimitsKept /\ PairedOnce /\ KeysKnown
  BY DEF Init, ChargedOnce, OpenIsCharged, FreshOK, LimitsKept, PairedOnce, KeysKnown
<1> QED BY <1>1, <1>3, <1>4, Parts

(* A new connection takes a free place and is charged, or gets nothing.    *)
LEMMA OpenKeeps ==
  ASSUME IInv, NEW w \in Ws, NEW i \in Ip, Open(w, i)
  PROVE  IInv'
<1> USE Parts, Constants DEF ConstOK
<1> DEFINE s0 == [ws |-> w, nth |-> 1, key |-> NoKey, via |-> NoToken]
<1>0. /\ phase \in {"running", "draining"} /\ phase' = phase /\ restarts' = restarts
      /\ conn[w] = "none" /\ ipOf' = [ipOf EXCEPT ![w] = i] /\ gone' = gone
      /\ UNCHANGED authVars
      /\ s0 \in Session /\ s0.ws = w /\ s0.via = NoToken
  BY DEF Open, Session
<1>1. /\ w \notin pending /\ \A s \in sessions : s.ws # w
      /\ \A v \in verifying : v.ws # w
  BY <1>0 DEF FreshOK
<1>2. CASE ~HasRoom(i)
  <2>1. /\ conn' = [conn EXCEPT ![w] = "closing"] /\ refused' = refused \cup {w}
        /\ UNCHANGED tableVars
    BY <1>2 DEF Open
  <2>2. TypeOK'
    BY <1>0, <2>1 DEF TypeOK, tableVars, authVars
  <2>3. \A j : Charged(j)' = Charged(j)
    BY <1>0, <1>1, <2>1 DEF Charged, TypeOK, tableVars
  <2>4. ChargedOnce' /\ LimitsKept' /\ PairedOnce' /\ KeysKnown'
    BY <1>0, <2>1 DEF ChargedOnce, LimitsKept, PairedOnce, KeysKnown, tableVars, authVars
  <2>5. CountsExact' /\ OpenIsCharged'
    BY <1>0, <2>1, <2>3 DEF CountsExact, OpenIsCharged, TypeOK, tableVars
  <2>6. FreshOK'
    BY <1>0, <2>1 DEF FreshOK, TypeOK, tableVars, authVars
  <2> QED BY <2>2, <2>4, <2>5, <2>6, PartsNext
<1>3. CASE HasRoom(i)
  <2> HIDE DEF s0
  <2>1. /\ conn' = [conn EXCEPT ![w] = "open"] /\ refused' = refused
        /\ counts' = [counts EXCEPT ![i] = @ + 1]
    BY <1>3 DEF Open
  <2>2. \/ /\ sessions' = sessions \cup {s0} /\ addressed' = addressed \cup {s0}
           /\ alive' = alive \cup {s0} /\ opened' = [opened EXCEPT ![w] = 1]
           /\ pending' = pending
        \/ /\ pending' = pending \cup {w}
           /\ sessions' = sessions /\ addressed' = addressed
           /\ alive' = alive /\ opened' = opened
    BY <1>3 DEF Open, s0
  <2>3. TypeOK'
    BY <1>0, <2>1, <2>2 DEF TypeOK, authVars
  <2>4. ChargedOnce'
    BY <1>0, <1>1, <2>2 DEF ChargedOnce, TypeOK
  <2>5. \A x \in Ws : (x \in pending' \/ \E s \in addressed' : s.ws = x)
                        <=> (x = w \/ x \in pending \/ \E s \in addressed : s.ws = x)
    BY <1>0, <2>2
  <2>6. Charged(i)' = Charged(i) \cup {w} /\ w \notin Charged(i)
    BY <1>0, <1>1, <2>5 DEF Charged, TypeOK
  <2>7. \A j \in Ip \ {i} : Charged(j)' = Charged(j)
    BY <1>0, <1>1, <2>5 DEF Charged, TypeOK
  <2>8. CountsExact'
    <3>1. Cardinality(Charged(i) \cup {w}) = Cardinality(Charged(i)) + 1
      BY <2>6, ChargedFinite, FS_AddElement
    <3> QED BY <2>1, <2>6, <2>7, <3>1 DEF CountsExact, TypeOK
  <2>9. LimitsKept'
    BY <1>3, <2>1 DEF HasRoom, LimitsKept, TypeOK
  <2>10. OpenIsCharged'
    <3>1. \A x \in Ws \ {w} : x \in Charged(ipOf[x]) => x \in Charged(ipOf[x])'
      BY <1>0, <2>5 DEF Charged, TypeOK
    <3>2. w \in Charged(ipOf[w])'
      BY <1>0, <2>5 DEF Charged, TypeOK
    <3>3. \A x \in Ws \ {w} : conn'[x] = conn[x] /\ ipOf'[x] = ipOf[x]
      BY <1>0, <2>1 DEF TypeOK
    <3> QED BY <1>0, <2>1, <3>1, <3>2, <3>3 DEF OpenIsCharged, Charged
  <2>11. FreshOK'
    BY <1>0, <2>1, <2>2 DEF FreshOK, TypeOK, authVars
  <2>12. PairedOnce' /\ KeysKnown'
    BY <1>0, <2>2 DEF PairedOnce, KeysKnown, authVars
  <2> QED BY <2>3, <2>4, <2>8, <2>9, <2>10, <2>11, <2>12, PartsNext
<1> QED BY <1>2, <1>3

(* A connection whose client is lost or leaves.                            *)
LEMMA LeaveKeeps ==
  ASSUME IInv, NEW w \in Ws, Leave(w) \/ Vanish(w)
  PROVE  IInv'
<1> USE Parts
<1>1. /\ UNCHANGED <<phase, restarts, ipOf, refused, tableVars, authVars>>
      /\ conn[w] = "open"
      /\ conn' \in {conn, [conn EXCEPT ![w] = "closing"]}
      /\ gone' \in {gone, gone \cup {w}}
  BY DEF Leave, Vanish
<1>2. TypeOK'
  BY <1>1 DEF TypeOK, tableVars, authVars
<1>3. \A i : Charged(i)' = Charged(i)
  BY <1>1, ChargesStay DEF tableVars
<1>4. CountsExact' /\ OpenIsCharged' /\ FreshOK'
  BY <1>1, <1>3 DEF CountsExact, OpenIsCharged, FreshOK, TypeOK, tableVars, authVars
<1>5. ChargedOnce' /\ LimitsKept' /\ PairedOnce' /\ KeysKnown'
  BY <1>1 DEF ChargedOnce, LimitsKept, PairedOnce, KeysKnown, tableVars, authVars
<1> QED BY <1>2, <1>4, <1>5, PartsNext

(* Connections and sessions that go: those that are open stay charged.     *)
LEMMA GoneKeeps ==
  ASSUME IInv, NEW P \in SUBSET pending, NEW L \in SUBSET sessions, CountDown(P, L),
         pending' = pending \ P, sessions' = sessions \ L, addressed' = addressed \ L,
         alive' \subseteq sessions',
         conn' \in [Ws -> {"none", "open", "closing", "closed"}],
         \A w \in Ws : conn'[w] = "none" <=> conn[w] = "none",
         \A w \in Ws : conn'[w] = "open" =>
                         conn[w] = "open" /\ w \notin P /\ \A s \in L : s.ws # w,
         UNCHANGED <<phase, restarts, ipOf, gone, refused, opened, authVars>>
  PROVE  IInv'
<1> USE Parts
<1>1. /\ CountsExact' /\ counts' \in [Ip -> Nat]
      /\ \A i \in Ip : counts'[i] <= counts[i]
  BY CountDownExact
<1>2. TypeOK'
  BY <1>1 DEF TypeOK, authVars
<1>3. LimitsKept'
  <2>1. \A i \in Ip : Limit[i] \in Nat
    BY Constants DEF ConstOK
  <2> QED BY <1>1, <2>1 DEF LimitsKept, TypeOK
<1>4. ChargedOnce' /\ PairedOnce' /\ KeysKnown'
  BY DEF ChargedOnce, PairedOnce, KeysKnown, authVars
<1>5. FreshOK'
  BY DEF FreshOK, authVars
<1>6. OpenIsCharged'
  <2>1. \A w \in Ws : conn'[w] = "open" /\ w \in Charged(ipOf[w]) => w \in Charged(ipOf[w])'
    BY DEF Charged
  <2> QED BY <2>1 DEF OpenIsCharged, Charged
<1> QED BY <1>1, <1>2, <1>3, <1>4, <1>5, <1>6, PartsNext

(* The timer of a pending connection.                                      *)
LEMMA AuthTimeoutKeeps ==
  ASSUME IInv, NEW w \in Ws, AuthTimeout(w)
  PROVE  IInv'
<1> USE Parts
<1>1. CountDown({w}, {}) /\ {w} \in SUBSET pending
  BY DEF AuthTimeout
<1>2. /\ conn' \in [Ws -> {"none", "open", "closing", "closed"}]
      /\ \A x \in Ws : conn'[x] = "none" <=> conn[x] = "none"
      /\ \A x \in Ws : conn'[x] = "open" => conn[x] = "open" /\ x # w
  BY DEF AuthTimeout, TypeOK
<1>3. alive \subseteq sessions
  BY DEF TypeOK
<1> QED BY <1>1, <1>2, <1>3, GoneKeeps DEF AuthTimeout

(* The close event.                                                        *)
LEMMA CloseKeeps ==
  ASSUME IInv, NEW w \in Ws, Close(w)
  PROVE  IInv'
<1> USE Parts
<1>1. /\ conn' \in [Ws -> {"none", "open", "closing", "closed"}]
      /\ \A x \in Ws : conn'[x] = "none" <=> conn[x] = "none"
      /\ \A x \in Ws : conn'[x] = "open" => conn[x] = "open" /\ x # w
      /\ UNCHANGED <<phase, restarts, ipOf, gone, refused, opened, authVars>>
  BY DEF Close, TypeOK
<1>2. CASE w \in pending
  <2>1. CountDown({w}, {}) /\ {w} \in SUBSET pending
    BY <1>2 DEF Close
  <2>2. /\ pending' = pending \ {w} /\ sessions' = sessions /\ addressed' = addressed
        /\ alive' = alive /\ alive \subseteq sessions
    BY <1>2 DEF Close, TypeOK
  <2> QED BY <1>1, <2>1, <2>2, GoneKeeps
<1>3. CASE w \notin pending
  <2> DEFINE lost == IF w \in refused THEN {} ELSE First(w)
  <2>1. /\ CountDown({}, lost) /\ pending' = pending
        /\ sessions' = sessions \ lost /\ addressed' = addressed \ lost
        /\ alive' = alive \ lost
    BY <1>3 DEF Close
  <2>2. lost \subseteq sessions /\ \A s \in lost : s.ws = w
    BY DEF First
  <2> HIDE DEF lost
  <2>3. alive' \subseteq sessions'
    BY <2>1 DEF TypeOK
  <2>4. {} \in SUBSET pending /\ pending' = pending \ {}
    BY <2>1
  <2> QED BY <1>1, <2>1, <2>2, <2>3, <2>4, GoneKeeps
<1> QED BY <1>2, <1>3

(* The heartbeat: its answers, and its check.                              *)
LEMMA PongKeeps ==
  ASSUME IInv, NEW w \in Ws, Pong(w)
  PROVE  IInv'
<1> USE Parts
<1>1. /\ UNCHANGED <<phase, restarts, netVars, pending, counts, sessions, addressed, opened, authVars>>
      /\ alive' = alive \cup {s \in sessions : s.ws = w}
  BY DEF Pong
<1>2. TypeOK'
  BY <1>1 DEF TypeOK, netVars, authVars
<1>3. \A i : Charged(i)' = Charged(i)
  BY <1>1, ChargesStay DEF netVars
<1>4. CountsExact' /\ OpenIsCharged' /\ FreshOK'
  BY <1>1, <1>3 DEF CountsExact, OpenIsCharged, FreshOK, netVars, authVars
<1>5. ChargedOnce' /\ LimitsKept' /\ PairedOnce' /\ KeysKnown'
  BY <1>1 DEF ChargedOnce, LimitsKept, PairedOnce, KeysKnown, authVars
<1> QED BY <1>2, <1>4, <1>5, PartsNext

(* The check of the heartbeat.                                             *)
LEMMA CheckKeeps ==
  ASSUME IInv, CheckConnections
  PROVE  IInv'
<1> USE Parts
<1>1. /\ CountDown({}, TimedOut) /\ TimedOut \in SUBSET sessions
      /\ sessions' = sessions \ TimedOut /\ addressed' = addressed \ TimedOut
      /\ alive' = {} /\ conn' = ConnWithout(TimedOut)
      /\ UNCHANGED <<phase, restarts, ipOf, gone, refused, pending, opened, authVars>>
  BY DEF CheckConnections, TimedOut
<1> HIDE DEF TimedOut
<1>2. /\ conn' \in [Ws -> {"none", "open", "closing", "closed"}]
      /\ \A x \in Ws : conn'[x] = "none" <=> conn[x] = "none"
      /\ \A x \in Ws : conn'[x] = "open" =>
                         conn[x] = "open" /\ \A s \in TimedOut : s.ws # x
  BY <1>1 DEF ConnWithout, TypeOK
<1>3. {} \in SUBSET pending /\ pending' = pending \ {} /\ alive' \subseteq sessions'
  BY <1>1
<1> QED BY <1>1, <1>2, <1>3, GoneKeeps

---------------------------------------------------------------------------
(* The messages that open no session.                                      *)
LEMMA AskKeeps ==
  ASSUME IInv, NEW w \in Ws,
         \/ \E k \in Key : Hello(w, k)
         \/ \E t \in Token : Pair(w, t)
         \/ \E l \in Key \cup {NoKey} : StartVerify(w, l)
         \/ VerifyExpired(w)
  PROVE  IInv'
<1> USE Parts
<1>1. conn[w] # "none" /\ UNCHANGED <<phase, restarts, netVars, tableVars, bound>>
  BY DEF Hello, Pair, StartVerify, VerifyExpired, Heard
<1>2. CASE \/ \E k \in Key : Hello(w, k)
           \/ \E t \in Token : Pair(w, t)
           \/ VerifyExpired(w)
  <2>1. /\ auth' \in [Ws -> PendingAuth]
        /\ verifying' = verifying /\ asked' = asked
    BY <1>2 DEF Hello, Pair, VerifyExpired, TypeOK, PendingAuth, NoAuth
  <2>2. TypeOK'
    BY <1>1, <2>1 DEF TypeOK, netVars, tableVars
  <2>3. \A v \in verifying' : conn[v.ws] # "none"
    BY <2>1 DEF FreshOK, TypeOK, Verification
  <2> QED BY <1>1, <2>2, <2>3, Elsewhere
<1>3. ASSUME NEW l \in Key \cup {NoKey}, StartVerify(w, l) PROVE IInv'
  <2> DEFINE v0 == [ws |-> w, id |-> asked, auth |-> auth[w], key |-> l]
  <2>1. /\ verifying' = verifying \cup {v0} /\ asked' = asked + 1 /\ auth' = auth
        /\ v0.ws = w
    BY <1>3 DEF StartVerify
  <2>2. v0 \in Verification
    BY DEF TypeOK, Verification
  <2> HIDE DEF v0
  <2>3. TypeOK'
    BY <1>1, <2>1, <2>2 DEF TypeOK, netVars, tableVars
  <2>4. \A v \in verifying' : conn[v.ws] # "none"
    BY <1>1, <2>1 DEF FreshOK, TypeOK, Verification
  <2> QED BY <1>1, <2>3, <2>4, Elsewhere
<1> QED BY <1>2, <1>3

(* A verification that ends: of those that race for a token, one pairs.    *)
LEMMA FinishVerifyKeeps ==
  ASSUME IInv, NEW v \in verifying, NEW valid \in BOOLEAN, FinishVerify(v, valid)
  PROVE  IInv'
<1> USE Parts, Constants DEF ConstOK
<1> DEFINE pairs == v.auth.token # NoToken /\ v.key # NoKey
           key == IF v.auth.key # NoKey THEN v.auth.key ELSE v.key
           succeeds == valid /\ (pairs => Binds(v.auth.token))
           via == IF pairs THEN v.auth.token ELSE NoToken
<1>1. /\ v.ws \in Ws /\ v.auth \in PendingAuth /\ v.key \in Key \cup {NoKey}
      /\ conn[v.ws] # "none"
  BY DEF TypeOK, Verification, FreshOK
<1>2. /\ key \in Key \cup {NoKey} /\ via \in Token \cup {NoToken}
      /\ pairs => v.auth.key = NoKey /\ key = v.key /\ v.auth.token \in Token
  BY <1>1 DEF PendingAuth
<1>3. /\ auth' = [auth EXCEPT ![v.ws] = NoAuth] /\ verifying' = verifying \ {v}
      /\ UNCHANGED <<phase, restarts, asked>>
  BY DEF FinishVerify
<1>4. auth' \in [Ws -> PendingAuth]
  BY <1>1, <1>3 DEF TypeOK, PendingAuth, NoAuth
<1>5. CASE succeeds
  <2>1. /\ Promote(v.ws, key, via)
        /\ bound' = IF pairs THEN [bound EXCEPT ![v.auth.token] = v.key] ELSE bound
    BY <1>5 DEF FinishVerify
  <2>2. pairs => bound[v.auth.token] = NoKey
    BY <1>5 DEF Binds
  <2> HIDE DEF key, via, succeeds
  <2>3. /\ pending' \subseteq Ws /\ counts' \in [Ip -> Nat]
        /\ sessions' \subseteq Session /\ addressed' \subseteq sessions'
        /\ alive' \subseteq sessions' /\ opened' \in [Ws -> Nat]
        /\ ChargedOnce' /\ CountsExact' /\ LimitsKept'
        /\ phase' = phase => OpenIsCharged'
        /\ verifying' \subseteq verifying => FreshOK'
        /\ \A s \in sessions' : s \in sessions \/ (s.key = key /\ s.via = via)
    BY <1>1, <1>2, <2>1, PromoteKeeps
  <2>4. conn' = conn /\ ipOf' = ipOf /\ gone' = gone /\ refused' = refused
    BY <2>1 DEF Promote, netVars
  <2>5. bound' \in [Token -> Key \cup {NoKey}]
    BY <1>1, <1>2, <2>1 DEF TypeOK
  <2>6. TypeOK'
    BY <1>3, <1>4, <2>3, <2>4, <2>5 DEF TypeOK
  <2>7. \A s \in sessions : s.via # NoToken => bound'[s.via] = s.key /\ s.key # NoKey
    <3>1. \A s \in sessions : s.via \in Token \cup {NoToken}
      BY DEF TypeOK, Session
    <3>2. \A s \in sessions : s.via # NoToken => bound[s.via] = s.key /\ s.key # NoKey
      BY DEF PairedOnce, KeysKnown
    <3> HIDE DEF pairs
    <3> QED BY <1>2, <2>1, <2>2, <3>1, <3>2 DEF TypeOK
  <2>8. via # NoToken => bound'[via] = key /\ key # NoKey
    BY <1>2, <2>1 DEF via, TypeOK
  <2>9. PairedOnce' /\ KeysKnown'
    BY <2>3, <2>7, <2>8 DEF PairedOnce, KeysKnown
  <2> QED BY <1>3, <2>3, <2>6, <2>9, PartsNext
<1>6. CASE ~succeeds
  <2>1. UNCHANGED <<bound, netVars, tableVars>>
    BY <1>6 DEF FinishVerify
  <2>2. TypeOK'
    BY <1>3, <1>4, <2>1 DEF TypeOK, netVars, tableVars
  <2>3. \A u \in verifying' : conn[u.ws] # "none"
    BY <1>3 DEF FreshOK, TypeOK, Verification
  <2> QED BY <1>3, <2>1, <2>2, <2>3, Elsewhere
<1> QED BY <1>5, <1>6

(* The token of an administrator.                                          *)
LEMMA TokenAuthKeeps ==
  ASSUME IInv, NEW w \in Ws, NEW t \in Token, TokenAuth(w, t)
  PROVE  IInv'
<1> USE Parts
<1>1. /\ conn[w] # "none" /\ Promote(w, NoKey, NoToken) /\ asked' = asked + 1
      /\ UNCHANGED <<phase, restarts, auth, verifying, bound>>
  BY DEF TokenAuth, Heard
<1>2. /\ pending' \subseteq Ws /\ counts' \in [Ip -> Nat]
      /\ sessions' \subseteq Session /\ addressed' \subseteq sessions'
      /\ alive' \subseteq sessions' /\ opened' \in [Ws -> Nat]
      /\ ChargedOnce' /\ CountsExact' /\ LimitsKept'
      /\ phase' = phase => OpenIsCharged'
      /\ verifying' \subseteq verifying => FreshOK'
      /\ \A s \in sessions' : s \in sessions \/ (s.key = NoKey /\ s.via = NoToken)
  BY <1>1, PromoteKeeps
<1>3. conn' = conn /\ ipOf' = ipOf /\ gone' = gone /\ refused' = refused
  BY <1>1 DEF Promote, netVars
<1>4. TypeOK'
  BY <1>1, <1>2, <1>3 DEF TypeOK
<1>5. PairedOnce' /\ KeysKnown'
  BY <1>1, <1>2 DEF PairedOnce, KeysKnown
<1> QED BY <1>1, <1>2, <1>4, <1>5, PartsNext

---------------------------------------------------------------------------
(* The server starts to stop, has stopped, and starts again.               *)
LEMMA PhaseKeeps ==
  ASSUME IInv, Stop \/ Stopped \/ Start
  PROVE  IInv'
<1> USE Parts
<1>1. /\ UNCHANGED <<netVars, tableVars, authVars>>
      /\ phase' \in {"running", "draining", "stopped"} /\ restarts' \in Nat
  BY DEF Stop, Stopped, Start, TypeOK
<1>2. TypeOK'
  BY <1>1 DEF TypeOK, netVars, tableVars, authVars
<1>3. \A i : Charged(i)' = Charged(i)
  BY <1>1, ChargesStay DEF netVars, tableVars
<1>4. OpenIsCharged'
  BY <1>1, <1>3 DEF Stop, Stopped, Start, OpenIsCharged, TypeOK, netVars
<1>5. CountsExact' /\ FreshOK' /\ ChargedOnce' /\ LimitsKept' /\ PairedOnce' /\ KeysKnown'
  BY <1>1, <1>3 DEF CountsExact, FreshOK, ChargedOnce, LimitsKept, PairedOnce, KeysKnown,
                    netVars, tableVars, authVars
<1> QED BY <1>2, <1>4, <1>5, PartsNext

(* The connection manager forgets all.                                     *)
LEMMA StopManagerKeeps ==
  ASSUME IInv, StopManager
  PROVE  IInv'
<1> USE Parts, Constants DEF ConstOK
<1>1. /\ phase' = "closing" /\ pending' = {} /\ counts' = [i \in Ip |-> 0]
      /\ sessions' = {} /\ addressed' = {} /\ alive' = {}
      /\ UNCHANGED <<restarts, ipOf, gone, refused, opened, authVars>>
  BY DEF StopManager
<1>2. /\ conn' \in [Ws -> {"none", "open", "closing", "closed"}]
      /\ \A x \in Ws : conn'[x] = "none" <=> conn[x] = "none"
  BY DEF StopManager, ConnAfterStop, ConnWithout, TypeOK
<1>3. TypeOK'
  BY <1>1, <1>2 DEF TypeOK, authVars
<1>4. \A i : Charged(i)' = {}
  BY <1>1 DEF Charged
<1>5. CountsExact'
  BY <1>1, <1>4, FS_EmptySet DEF CountsExact
<1>6. OpenIsCharged' /\ FreshOK' /\ ChargedOnce' /\ LimitsKept' /\ PairedOnce' /\ KeysKnown'
  BY <1>1, <1>2 DEF OpenIsCharged, FreshOK, ChargedOnce, LimitsKept, PairedOnce, KeysKnown,
                    authVars
<1> QED BY <1>3, <1>5, <1>6, PartsNext

---------------------------------------------------------------------------
(* Every step keeps the invariant.                                         *)
LEMMA StepKeeps == IInv /\ [Next]_vars => IInv'
<1> SUFFICES ASSUME IInv, [Next]_vars PROVE IInv'
  OBVIOUS
<1>1. CASE UNCHANGED vars
  <2>1. TypeOK' /\ \A v \in verifying' : conn[v.ws] # "none"
    BY <1>1, Parts DEF TypeOK, FreshOK, Verification, vars, netVars, tableVars, authVars
  <2> QED BY <1>1, <2>1, Elsewhere DEF vars, authVars
<1>2. ASSUME NEW w \in Ws, NEW i \in Ip, Open(w, i) PROVE IInv'
  BY <1>2, OpenKeeps
<1>3. ASSUME NEW w \in Ws, \/ AuthTimeout(w) \/ Leave(w) \/ Vanish(w) \/ Close(w) \/ Pong(w)
      PROVE  IInv'
  BY <1>3, AuthTimeoutKeeps, LeaveKeeps, CloseKeeps, PongKeeps
<1>4. ASSUME NEW w \in Ws, Message(w) PROVE IInv'
  BY <1>4, AskKeeps, TokenAuthKeeps DEF Message
<1>5. ASSUME NEW v \in verifying, NEW valid \in BOOLEAN, FinishVerify(v, valid) PROVE IInv'
  BY <1>5, FinishVerifyKeeps
<1>6. CASE CheckConnections \/ Stop \/ StopManager \/ Stopped \/ Start
  BY <1>6, CheckKeeps, PhaseKeeps, StopManagerKeeps
<1> QED BY <1>1, <1>2, <1>3, <1>4, <1>5, <1>6 DEF Next

---------------------------------------------------------------------------
(* IInv holds of every state: in particular the tables of the connection   *)
(* manager, the heartbeat and the authentication agree with each other.    *)
THEOREM GatewayInvariant == Spec => []IInv
<1>1. Init => IInv
  BY InitHolds
<1>2. IInv /\ [Next]_vars => IInv'
  BY StepKeeps
<1> QED BY <1>1, <1>2, PTL DEF Spec

(* ipConnectionCounts holds exactly the connections that are pending or    *)
(* have a session with an address, whatever order timers, closes, late     *)
(* promotions, checks and restarts come in (connection-manager.ts).        *)
THEOREM CountsAreExact == Spec => []CountsExact
<1>1. IInv => CountsExact
  BY DEF IInv
<1> QED BY <1>1, GatewayInvariant, PTL

(* While the gateway runs, no address has more open connections than its   *)
(* limit: an open connection is always charged to its address.             *)
THEOREM LimitIsKept == Spec => []LimitHolds
<1>1. IInv => LimitHolds
  <2> SUFFICES ASSUME IInv, phase = "running", NEW i \in Ip
               PROVE  Cardinality({w \in Ws \ refused : conn[w] = "open" /\ ipOf[w] = i}) <= Limit[i]
    BY DEF LimitHolds
  <2> DEFINE Opened == {w \in Ws \ refused : conn[w] = "open" /\ ipOf[w] = i}
  <2>1. Opened \subseteq Charged(i)
    BY Parts DEF OpenIsCharged
  <2>2. IsFiniteSet(Charged(i)) /\ Cardinality(Charged(i)) \in Nat
    BY ChargedFinite
  <2> HIDE DEF Opened
  <2>3. Cardinality(Opened) <= Cardinality(Charged(i)) /\ Cardinality(Opened) \in Nat
    BY <2>1, <2>2, FS_Subset, FS_CardinalityType
  <2>4. Cardinality(Charged(i)) <= Limit[i] /\ Limit[i] \in Nat
    BY Parts, Constants DEF CountsExact, LimitsKept, ConstOK
  <2>5. Cardinality(Opened) <= Limit[i]
    BY <2>2, <2>3, <2>4
  <2> QED BY <2>5 DEF Opened
<1> QED BY <1>1, GatewayInvariant, PTL

(* A pairing token is paired with one key, that of every session it        *)
(* opened: of verifications that await their signatures at the same time   *)
(* the UPDATE of bindPublicKey lets one through (pairing-token-store.ts).  *)
THEOREM TokensPairOnce == Spec => []PairedOnce
<1>1. IInv => PairedOnce
  BY DEF IInv
<1> QED BY <1>1, GatewayInvariant, PTL

---------------------------------------------------------------------------
(* What a step does to a connection: only Open leads out of none, and to   *)
(* closing when the connection is refused; none becomes open otherwise.    *)
LEMMA ConnMoves ==
  ASSUME IInv, Next, NEW w \in Ws
  PROVE  \/ conn'[w] = conn[w] /\ (w \in refused' <=> w \in refused)
         \/ /\ conn[w] = "none" /\ phase \in {"running", "draining"} /\ phase' = phase
            /\ w \in refused' \ refused => conn'[w] = "closing"
         \/ /\ conn[w] \in {"open", "closing"} /\ conn'[w] \in {"closing", "closed"}
            /\ w \in refused' <=> w \in refused
<1>0. conn \in [Ws -> {"none", "open", "closing", "closed"}]
  BY Parts DEF TypeOK
<1>1. ASSUME NEW x \in Ws, NEW i \in Ip, Open(x, i)
      PROVE  \/ conn'[w] = conn[w] /\ (w \in refused' <=> w \in refused)
             \/ /\ conn[w] = "none" /\ phase \in {"running", "draining"} /\ phase' = phase
                /\ w \in refused' \ refused => conn'[w] = "closing"
  <2>1. /\ conn[x] = "none" /\ phase \in {"running", "draining"} /\ phase' = phase
        /\ \/ conn' = [conn EXCEPT ![x] = "open"] /\ refused' = refused
           \/ conn' = [conn EXCEPT ![x] = "closing"] /\ refused' = refused \cup {x}
    BY <1>1 DEF Open
  <2> QED BY <1>0, <2>1
<1>2. ASSUME NEW x \in Ws, AuthTimeout(x) \/ Leave(x) \/ Close(x)
      PROVE  /\ refused' = refused
             /\ \/ conn'[w] = conn[w]
                \/ conn[w] \in {"open", "closing"} /\ conn'[w] \in {"closing", "closed"}
  <2>1. /\ refused' = refused
        /\ \/ conn' = [conn EXCEPT ![x] = IF @ = "open" THEN "closing" ELSE @]
           \/ conn[x] = "open" /\ conn' = [conn EXCEPT ![x] = "closing"]
           \/ conn[x] = "closing" /\ conn' = [conn EXCEPT ![x] = "closed"]
    BY <1>2 DEF AuthTimeout, Leave, Close
  <2> QED BY <1>0, <2>1
<1>3. ASSUME NEW x \in Ws, Vanish(x) \/ Pong(x) \/ Message(x)
      PROVE  refused' = refused /\ conn' = conn
  <2>1. CASE Vanish(x) \/ Pong(x)
    BY <2>1 DEF Vanish, Pong, netVars
  <2>2. CASE Message(x)
    BY <2>2 DEF Message, Hello, Pair, StartVerify, VerifyExpired, TokenAuth, Promote, netVars
  <2> QED BY <1>3, <2>1, <2>2
<1>4. ASSUME NEW v \in verifying, NEW valid \in BOOLEAN, FinishVerify(v, valid)
      PROVE  refused' = refused /\ conn' = conn
  BY <1>4 DEF FinishVerify, Promote, netVars
<1>5. CASE CheckConnections \/ StopManager
  BY <1>0, <1>5 DEF CheckConnections, StopManager, ConnAfterStop, ConnWithout
<1>6. CASE Stop \/ Stopped \/ Start
  BY <1>6 DEF Stop, Stopped, Start, netVars
<1> QED BY <1>1, <1>2, <1>3, <1>4, <1>5, <1>6 DEF Next

(* A connection above the limit is closed from the moment it is accepted.  *)
LEMMA RefusedStayShut == Spec => []RefusedShut
<1>1. Init => RefusedShut
  BY DEF Init, RefusedShut
<1>2. IInv /\ RefusedShut /\ [Next]_vars => RefusedShut'
  <2> SUFFICES ASSUME IInv, RefusedShut, [Next]_vars, NEW w \in refused'
               PROVE  conn'[w] \in {"closing", "closed"}
    BY DEF RefusedShut
  <2>1. CASE UNCHANGED vars
    BY <2>1 DEF vars, netVars, RefusedShut
  <2>2. CASE Next
    <3>1. refused \subseteq Ws /\ refused' \subseteq Ws
      BY Parts, PartsNext, StepKeeps DEF TypeOK
    <3>2. QED
      BY <2>2, <3>1, ConnMoves DEF RefusedShut
  <2> QED BY <2>1, <2>2
<1> QED BY <1>1, <1>2, GatewayInvariant, PTL DEF Spec

(* When the gateway stops, the connections its stop waits for are those    *)
(* that had not authenticated: sessions' sockets are closed, refused ones  *)
(* were, and nothing opens until the next start (gateway-server.ts, stop). *)
THEOREM StopKnowsItsClients == Spec => StopWaitsForPending
<1> DEFINE A == /\ phase = "draining" /\ phase' = "closing" =>
                     \A w \in Ws : conn'[w] = "open" => w \in pending
                /\ phase \in {"closing", "stopped"} /\ phase' # "running" =>
                     \A w \in Ws : conn'[w] = "open" => conn[w] = "open"
<1>1. IInv /\ RefusedShut /\ [Next]_vars => [A]_vars
  <2> SUFFICES ASSUME IInv, RefusedShut, Next, NEW w \in Ws, conn'[w] = "open"
               PROVE  /\ phase = "draining" /\ phase' = "closing" => w \in pending
                      /\ phase \in {"closing", "stopped"} /\ phase' # "running" =>
                           conn[w] = "open"
    OBVIOUS
  <2>1. phase' = phase \/ conn[w] = "open"
    BY ConnMoves
  <2>2. phase \in {"closing", "stopped"} => conn[w] = "open"
    BY ConnMoves
  <2>3. ASSUME phase = "draining", phase' = "closing" PROVE w \in pending
    <3>1. StopManager
      <4>1. phase' # phase
        BY <2>3
      <4>2. Stop \/ StopManager \/ Stopped \/ Start
        BY <4>1 DEF Next, Open, AuthTimeout, Leave, Vanish, Close, Pong, Message, Hello,
                    Pair, StartVerify, VerifyExpired, TokenAuth, FinishVerify,
                    CheckConnections
      <4> QED BY <2>3, <4>2 DEF Stop, Stopped, Start
    <3>2. conn[w] = "open" /\ \A s \in sessions : s.ws # w
      BY <3>1 DEF StopManager, ConnAfterStop, ConnWithout
    <3>3. w \notin refused
      BY <3>2 DEF RefusedShut
    <3>4. w \in Charged(ipOf[w]) /\ addressed \subseteq sessions
      BY <2>3, <3>2, <3>3, Parts DEF OpenIsCharged, TypeOK
    <3> QED BY <3>2, <3>4 DEF Charged
  <2> QED BY <2>2, <2>3
<1> QED BY <1>1, GatewayInvariant, RefusedStayShut, PTL DEF Spec, StopWaitsForPending
=============================================================================
