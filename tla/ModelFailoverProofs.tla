------------------------ MODULE ModelFailoverProofs ------------------------
(* What holds of ModelFailover for any requests, chain, endpoints and Ttl. *)
EXTENDS ModelFailover, TLAPS

(* What the cache says of one endpoint, and what request r owes to one     *)
(* endpoint of a model of its chain: the parts of the invariant.           *)
EntryHonest(e) ==
  /\ coolUntil[e] <= now + Ttl
  /\ now < coolUntil[e] => health[e] = [available |-> FALSE, until |-> coolUntil[e]]
  /\ now < health[e].until => IF health[e].available
                              THEN e \in Configured
                              ELSE e \in Configured => coolUntil[e] = health[e].until

Reasoned(r) ==
  req[r].phase \in {"listing", "calling", "exhausted"} =>
    \A j \in 1..Len(Chain) : \A e \in EndpointsOf[Chain[j]] \cap Configured :
      DoneWith(r, j, e) => coolUntil[e] > req[r].begun

LocalMatches(q) ==
  /\ q.phase # "idle" => q.begun <= now
  /\ q.list \subseteq Configured
  /\ q.phase = "calling" => q.current \in q.list /\ q.unchecked = {}
  /\ q.phase = "exhausted" =>
       q.model = Len(Chain) /\ q.unchecked = {} /\ q.list = {}

(* The invariant by endpoint and by request: what an action must show.     *)
LEMMA Parts ==
  IInv <=> /\ TypeOK
           /\ \A e \in Endpoint : EntryHonest(e)
           /\ \A r \in Request : Reasoned(r) /\ LocalMatches(req[r])
BY DEF IInv, CacheIsHonest, GivenUpForAReason, LocalsMatch, EntryHonest,
       Reasoned, LocalMatches

(* The same of the state after a step.                                     *)
LEMMA PartsNext ==
  IInv' <=> /\ TypeOK'
            /\ \A e \in Endpoint : EntryHonest(e)'
            /\ \A r \in Request : Reasoned(r)' /\ LocalMatches(req[r])'
BY DEF IInv, CacheIsHonest, GivenUpForAReason, LocalsMatch, EntryHonest,
       Reasoned, LocalMatches

(* What the assumptions give of the chain and its positions.               *)
LEMMA Constants ==
  /\ Len(Chain) \in Nat \ {0} /\ 1 \in 1..Len(Chain)
  /\ \A m \in 1..Len(Chain) : EndpointsOf[Chain[m]] \subseteq Endpoint
  /\ \A m \in 1..Len(Chain) : m < Len(Chain) => m + 1 \in 1..Len(Chain)
  /\ Ttl \in Nat /\ Ttl > 0
<1>1. Len(Chain) \in Nat /\ Len(Chain) # 0
  BY ConfigAssumption
<1>2. \A m \in 1..Len(Chain) : Chain[m] \in Model
  BY ConfigAssumption
<1>3. \A m \in 1..Len(Chain) : EndpointsOf[Chain[m]] \subseteq Endpoint
  BY <1>2, ConfigAssumption
<1>4. QED
  BY <1>1, <1>3, TimeAssumption

(* The locals of the other requests are theirs, and what they gave up      *)
(* stays given up for a reason: a failure only moves coolUntil on.         *)
LEMMA Others ==
  ASSUME IInv, TypeOK', NEW r \in Request, now' >= now,
         \A s \in Request \ {r} : req'[s] = req[s],
         \A e \in Endpoint : coolUntil'[e] >= coolUntil[e]
  PROVE  \A s \in Request \ {r} : Reasoned(s)' /\ LocalMatches(req[s])'
<1> SUFFICES ASSUME NEW s \in Request \ {r}
             PROVE  Reasoned(s)' /\ LocalMatches(req[s])'
  OBVIOUS
<1>1. req'[s] = req[s] /\ req[s] \in Local /\ Reasoned(s) /\ LocalMatches(req[s])
  BY Parts DEF TypeOK
<1>2. LocalMatches(req[s])'
  <2>1. req[s].begun \in Nat /\ now \in Nat /\ now' \in Nat
    BY <1>1 DEF IInv, TypeOK, Local
  <2>2. QED
    BY <1>1, <2>1 DEF LocalMatches
<1>3. Reasoned(s)'
  <2> SUFFICES ASSUME req[s].phase \in {"listing", "calling", "exhausted"},
                      NEW j \in 1..Len(Chain),
                      NEW e \in EndpointsOf[Chain[j]] \cap Configured,
                      DoneWith(s, j, e)'
               PROVE  coolUntil'[e] > req[s].begun
    BY <1>1 DEF Reasoned
  <2>1. DoneWith(s, j, e)
    BY <1>1 DEF DoneWith
  <2>2. coolUntil[e] > req[s].begun
    BY <1>1, <2>1 DEF Reasoned
  <2>3. e \in Endpoint
    BY Constants
  <2>4. coolUntil[e] \in Nat /\ coolUntil'[e] \in Nat /\ req[s].begun \in Nat
    BY <1>1, <2>3 DEF IInv, TypeOK, Local
  <2>5. QED
    BY <2>2, <2>3, <2>4
<1>4. QED
  BY <1>2, <1>3

(* What a state q of a request owes when the endpoints cool until c: the   *)
(* endpoints it is done with failed.                                       *)
Owes(q, c) ==
  \A j \in 1..Len(Chain) : \A e \in EndpointsOf[Chain[j]] \cap Configured :
    (j < q.model \/ (j = q.model /\ e \notin q.unchecked \cup q.list))
      => c[e] > q.begun

(* A request goes to a state that is in order.                             *)
LEMMA OneMoves ==
  ASSUME IInv, NEW r \in Request, NEW q \in Local,
         req' = [req EXCEPT ![r] = q], LocalMatches(q), UNCHANGED now,
         q.phase \in {"listing", "calling", "exhausted"} => Owes(q, coolUntil'),
         health' \in [Endpoint -> Entry], coolUntil' \in [Endpoint -> Nat],
         \A e \in Endpoint : coolUntil'[e] >= coolUntil[e],
         \A e \in Endpoint : EntryHonest(e)'
  PROVE  IInv'
<1>1. TypeOK'
  BY DEF IInv, TypeOK
<1>2. now' >= now
  BY DEF IInv, TypeOK
<1>3. req'[r] = q /\ \A s \in Request \ {r} : req'[s] = req[s]
  BY DEF IInv, TypeOK
<1>4. \A s \in Request \ {r} : Reasoned(s)' /\ LocalMatches(req[s])'
  BY <1>1, <1>2, <1>3, Others
<1>5. LocalMatches(req[r])'
  BY <1>3 DEF LocalMatches
<1>6. Reasoned(r)'
  BY <1>3 DEF Reasoned, Owes, DoneWith
<1>7. QED
  BY <1>1, <1>4, <1>5, <1>6, PartsNext

(* What the invariant says of one request.                                 *)
LEMMA Here ==
  ASSUME IInv, NEW r \in Request
  PROVE  /\ req[r] \in Local /\ LocalMatches(req[r]) /\ Reasoned(r)
         /\ now \in Nat /\ req[r].begun \in Nat
         /\ req[r].model \in 1..Len(Chain)
BY Parts DEF TypeOK, Local

(* Starting on a model: nothing of it is done with yet.                    *)
LEMMA ListingFine ==
  ASSUME IInv, NEW q \in Local, NEW m \in 1..Len(Chain), NEW c,
         q.begun <= now,
         \A j \in 1..Len(Chain) : \A e \in EndpointsOf[Chain[j]] \cap Configured :
           j < m => c[e] > q.begun
  PROVE  /\ Listing(q, m) \in Local
         /\ LocalMatches(Listing(q, m))
         /\ Owes(Listing(q, m), c)
<1> DEFINE l == Listing(q, m)
<1>1. EndpointsOf[Chain[m]] \in SUBSET Endpoint
  BY Constants
<1>2. l \in Local
  BY <1>1 DEF Listing, Local, Phase
<1>3. /\ l.phase = "listing" /\ l.model = m /\ l.list = {}
      /\ l.unchecked = EndpointsOf[Chain[m]] /\ l.begun = q.begun
  BY DEF Listing, Local
<1> HIDE DEF l
<1>4. LocalMatches(l)
  BY <1>3 DEF LocalMatches
<1>5. Owes(l, c)
  BY <1>3 DEF Owes
<1>6. QED
  BY <1>2, <1>4, <1>5 DEF l

(* A request begins its chain with every endpoint still to look at.        *)
LEMMA BeginKeeps ==
  ASSUME IInv, NEW r \in Request, Begin(r)
  PROVE  IInv'
<1> DEFINE l == Listing(req[r], 1)
<1>1. EndpointsOf[Chain[1]] \in SUBSET Endpoint
  BY Constants
<1>2. l \in Local
  BY <1>1, Here, Constants DEF Listing, Local, Phase
<1>3. /\ l.phase = "listing" /\ l.model = 1 /\ l.list = {}
      /\ l.unchecked = EndpointsOf[Chain[1]]
  BY Here DEF Listing, Local
<1>4. req' = [req EXCEPT ![r] = [l EXCEPT !.begun = now]]
      /\ UNCHANGED <<now, health, coolUntil>>
  BY DEF Begin
<1> HIDE DEF l
<1>5. PICK q \in Local :
        /\ q.phase = "listing" /\ q.model = 1 /\ q.list = {}
        /\ q.unchecked = EndpointsOf[Chain[1]] /\ q.begun = now
        /\ req' = [req EXCEPT ![r] = q]
  <2>1. [l EXCEPT !.begun = now] \in Local
    BY <1>2, Here DEF Local
  <2>2. QED
    BY <1>2, <1>3, <1>4, <2>1 DEF Local
<1>6. LocalMatches(q)
  BY <1>5, Here DEF LocalMatches
<1>7. Owes(q, coolUntil')
  BY <1>5, Constants DEF Owes
<1>8. health' \in [Endpoint -> Entry] /\ coolUntil' \in [Endpoint -> Nat]
  BY <1>4 DEF IInv, TypeOK
<1>9. \A e \in Endpoint : EntryHonest(e)' /\ coolUntil'[e] >= coolUntil[e]
  BY <1>4, Parts DEF EntryHonest, TypeOK
<1>10. QED
  BY <1>4, <1>5, <1>6, <1>7, <1>8, <1>9, OneMoves

(* The next endpoint, model or end for a request in state q, all of whose  *)
(* checks are made.                                                        *)
LEMMA TryNextFine ==
  ASSUME IInv, NEW r \in Request, NEW q \in Local, NEW c,
         q.unchecked = {}, q.list \subseteq Configured, q.begun <= now, now \in Nat,
         Owes(q, c), TryNext(r, q)
  PROVE  \E p \in Local : /\ req' = [req EXCEPT ![r] = p]
                          /\ LocalMatches(p) /\ Owes(p, c)
<1>1. ASSUME NEW e \in q.list,
             req' = [req EXCEPT ![r] = [q EXCEPT !.phase = "calling", !.current = e]]
      PROVE  \E p \in Local : /\ req' = [req EXCEPT ![r] = p]
                              /\ LocalMatches(p) /\ Owes(p, c)
  <2> DEFINE p == [q EXCEPT !.phase = "calling", !.current = e]
  <2>1. e \in Endpoint
    BY ConfigAssumption
  <2>2. /\ p \in Local /\ p.phase = "calling" /\ p.current = e
        /\ p.list = q.list /\ p.unchecked = q.unchecked /\ p.model = q.model
        /\ p.begun = q.begun
    BY <2>1 DEF Local, Phase
  <2>3. req' = [req EXCEPT ![r] = p]
    BY <1>1
  <2> HIDE DEF p
  <2>4. LocalMatches(p) /\ Owes(p, c)
    BY <2>2 DEF LocalMatches, Owes
  <2>5. QED
    BY <2>2, <2>3, <2>4
<1>2. CASE q.list = {} /\ q.model < Len(Chain)
             /\ req' = [req EXCEPT ![r] = Listing(q, q.model + 1)]
  <2>1. q.model \in 1..Len(Chain) /\ q.model + 1 \in 1..Len(Chain)
    BY <1>2, Constants DEF Local
  <2>2. \A j \in 1..Len(Chain) : \A e \in EndpointsOf[Chain[j]] \cap Configured :
          j < q.model + 1 => c[e] > q.begun
    <3> SUFFICES ASSUME NEW j \in 1..Len(Chain),
                        NEW e \in EndpointsOf[Chain[j]] \cap Configured,
                        j < q.model + 1
                 PROVE  c[e] > q.begun
      OBVIOUS
    <3>1. j < q.model \/ j = q.model
      BY <2>1
    <3>2. e \notin q.unchecked \cup q.list
      BY <1>2
    <3>3. QED
      BY <3>1, <3>2 DEF Owes
  <2>3. /\ Listing(q, q.model + 1) \in Local
        /\ LocalMatches(Listing(q, q.model + 1)) /\ Owes(Listing(q, q.model + 1), c)
    BY <2>1, <2>2, ListingFine
  <2>4. QED
    BY <1>2, <2>3
<1>3. CASE q.list = {} /\ ~(q.model < Len(Chain))
             /\ req' = [req EXCEPT ![r] = [q EXCEPT !.phase = "exhausted",
                                                   !.current = NoEndpoint]]
  <2> DEFINE p == [q EXCEPT !.phase = "exhausted", !.current = NoEndpoint]
  <2>1. q.model = Len(Chain)
    BY <1>3, Constants DEF Local
  <2>2. /\ p \in Local /\ p.phase = "exhausted"
        /\ p.list = {} /\ p.unchecked = {} /\ p.model = q.model
        /\ p.begun = q.begun
    BY <1>3 DEF Local, Phase
  <2>3. req' = [req EXCEPT ![r] = p]
    BY <1>3
  <2> HIDE DEF p
  <2>4. LocalMatches(p) /\ Owes(p, c)
    BY <1>3, <2>1, <2>2 DEF LocalMatches, Owes
  <2>5. QED
    BY <2>2, <2>3, <2>4
<1>4. QED
  BY <1>1, <1>2, <1>3 DEF TryNext

(* The listing of a model is complete: the first endpoint is called.       *)
LEMMA ListedKeeps ==
  ASSUME IInv, NEW r \in Request, Listed(r)
  PROVE  IInv'
<1>1. /\ req[r].phase = "listing" /\ req[r].unchecked = {} /\ TryNext(r, req[r])
      /\ UNCHANGED <<now, health, coolUntil>>
  BY DEF Listed
<1>2. Owes(req[r], coolUntil)
  BY <1>1, Here DEF Reasoned, Owes, DoneWith
<1>3. PICK p \in Local : /\ req' = [req EXCEPT ![r] = p]
                         /\ LocalMatches(p) /\ Owes(p, coolUntil)
  BY <1>1, <1>2, Here, TryNextFine DEF LocalMatches
<1>4. Owes(p, coolUntil')
  BY <1>1, <1>3 DEF Owes
<1>5. health' \in [Endpoint -> Entry] /\ coolUntil' \in [Endpoint -> Nat]
  BY <1>1 DEF IInv, TypeOK
<1>6. \A e \in Endpoint : EntryHonest(e)' /\ coolUntil'[e] >= coolUntil[e]
  BY <1>1, Parts DEF EntryHonest, TypeOK
<1>7. QED
  BY <1>1, <1>3, <1>4, <1>5, <1>6, OneMoves

(* An answer ends the request; it gives nothing up.                        *)
LEMMA SucceedKeeps ==
  ASSUME IInv, NEW r \in Request, Succeed(r)
  PROVE  IInv'
<1> DEFINE q == [req[r] EXCEPT !.phase = "answered"]
<1>1. req' = [req EXCEPT ![r] = q] /\ UNCHANGED <<now, health, coolUntil>>
  BY DEF Succeed, IInv, TypeOK
<1>2. /\ q \in Local /\ q.phase = "answered"
      /\ q.begun = req[r].begun /\ q.list = req[r].list
  BY Here DEF Local, Phase
<1>3. req[r].phase = "calling"
  BY DEF Succeed
<1> HIDE DEF q
<1>4. LocalMatches(q)
  BY <1>2, <1>3, Here DEF LocalMatches
<1>5. health' \in [Endpoint -> Entry] /\ coolUntil' \in [Endpoint -> Nat]
  BY <1>1 DEF IInv, TypeOK
<1>6. \A e \in Endpoint : EntryHonest(e)' /\ coolUntil'[e] >= coolUntil[e]
  BY <1>1, Parts DEF EntryHonest, TypeOK
<1>7. QED
  BY <1>1, <1>2, <1>4, <1>5, <1>6, OneMoves

(* A check of an endpoint: the cache says what it knew, or looks at the    *)
(* configuration; an endpoint that is not listed now is cooling down.      *)
LEMMA CheckHealthKeeps ==
  ASSUME IInv, NEW r \in Request, NEW e \in Endpoint, CheckHealth(r, e)
  PROVE  IInv'
<1> DEFINE entry == IF now < health[e].until
                    THEN health[e]
                    ELSE [available |-> e \in Configured, until |-> now + Ttl]
           l == IF entry.available THEN req[r].list \cup {e} ELSE req[r].list
<1>1. /\ req[r].phase = "listing" /\ e \in req[r].unchecked
      /\ health' = [health EXCEPT ![e] = entry] /\ UNCHANGED <<now, coolUntil>>
  BY DEF CheckHealth
<1>2. req' = [req EXCEPT ![r] = [req[r] EXCEPT !.unchecked = @ \ {e}, !.list = l]]
  BY DEF CheckHealth, IInv, TypeOK, Local
<1>3. /\ now \in Nat /\ coolUntil[e] \in Nat /\ health[e] \in Entry
      /\ health[e].until \in Nat /\ Ttl \in Nat /\ Ttl > 0
  BY Constants DEF IInv, TypeOK, Entry
<1>4. EntryHonest(e)
  BY Parts
<1>5. /\ entry \in Entry /\ now < entry.until
      /\ coolUntil[e] <= now + Ttl
      /\ now < coolUntil[e] => entry = [available |-> FALSE, until |-> coolUntil[e]]
      /\ entry.available => e \in Configured
      /\ ~entry.available /\ e \in Configured => coolUntil[e] = entry.until
  <2>1. CASE now < health[e].until
    <3>1. entry = health[e]
      BY <2>1
    <3>2. QED
      BY <1>3, <1>4, <2>1, <3>1 DEF EntryHonest
  <2>2. CASE ~(now < health[e].until)
    <3>1. entry = [available |-> e \in Configured, until |-> now + Ttl]
      BY <2>2
    <3>2. entry.available = (e \in Configured) /\ entry.until = now + Ttl
      BY <3>1
    <3>3. entry \in Entry
      BY <1>3, <3>1 DEF Entry
    <3>4. ~(now < coolUntil[e])
      BY <1>3, <1>4, <2>2 DEF EntryHonest
    <3> HIDE DEF entry
    <3>5. entry.until = now + Ttl /\ now < entry.until
      BY <1>3, <3>2
    <3>6. coolUntil[e] <= now + Ttl
      BY <1>4 DEF EntryHonest
    <3>7. (entry.available => e \in Configured) /\ (e \in Configured => entry.available)
      BY <3>2
    <3>8. QED
      BY <3>3, <3>4, <3>5, <3>6, <3>7
  <2>3. QED
    BY <2>1, <2>2
<1> HIDE DEF entry
<1>6. health' \in [Endpoint -> Entry] /\ coolUntil' \in [Endpoint -> Nat]
  BY <1>1, <1>5 DEF IInv, TypeOK
<1>7. \A f \in Endpoint : EntryHonest(f)' /\ coolUntil'[f] >= coolUntil[f]
  <2> SUFFICES ASSUME NEW f \in Endpoint
               PROVE  EntryHonest(f)' /\ coolUntil'[f] >= coolUntil[f]
    OBVIOUS
  <2>1. coolUntil[f] \in Nat /\ coolUntil' = coolUntil /\ now' = now
    BY <1>1 DEF IInv, TypeOK
  <2>2. CASE f = e
    <3>1. health'[f] = entry
      BY <1>1, <2>2 DEF IInv, TypeOK
    <3>2. QED
      BY <1>5, <2>1, <2>2, <3>1 DEF EntryHonest
  <2>3. CASE f # e
    <3>1. health'[f] = health[f] /\ EntryHonest(f)
      BY <1>1, <2>3, Parts DEF IInv, TypeOK
    <3>2. QED
      BY <2>1, <3>1 DEF EntryHonest
  <2>4. QED
    BY <2>2, <2>3
<1>8. l \subseteq req[r].list \cup {e} /\ req[r].list \subseteq l
      /\ (e \in l => e \in req[r].list \/ e \in Configured)
      /\ (e \notin l => ~entry.available)
  BY <1>5
<1> HIDE DEF l
<1>9. PICK q \in Local :
        /\ q.phase = "listing" /\ q.model = req[r].model /\ q.begun = req[r].begun
        /\ q.list = l /\ q.unchecked = req[r].unchecked \ {e}
        /\ req' = [req EXCEPT ![r] = q]
  <2>1. [req[r] EXCEPT !.unchecked = @ \ {e}, !.list = l] \in Local
    BY <1>8, Here DEF Local
  <2>2. QED
    BY <1>1, <1>2, <2>1, Here DEF Local
<1>10. LocalMatches(q)
  BY <1>1, <1>8, <1>9, Here DEF LocalMatches
<1>11. Owes(q, coolUntil')
  <2> SUFFICES ASSUME NEW j \in 1..Len(Chain),
                      NEW f \in EndpointsOf[Chain[j]] \cap Configured,
                      j < q.model \/ (j = q.model /\ f \notin q.unchecked \cup q.list)
               PROVE  coolUntil[f] > req[r].begun
    BY <1>1, <1>9 DEF Owes
  <2>1. CASE DoneWith(r, j, f)
    BY <1>1, <2>1, Here DEF Reasoned
  <2>2. CASE ~DoneWith(r, j, f)
    <3>1. f = e /\ e \notin l
      BY <1>8, <1>9, <2>2 DEF DoneWith
    <3>2. coolUntil[e] = entry.until
      BY <1>5, <1>8, <3>1
    <3>3. now < coolUntil[e] /\ req[r].begun <= now
      BY <1>1, <1>5, <3>2, Here DEF LocalMatches
    <3>4. QED
      BY <1>3, <3>1, <3>3, Here
  <2>3. QED
    BY <2>1, <2>2
<1>12. QED
  BY <1>1, <1>6, <1>7, <1>9, <1>10, <1>11, OneMoves

(* A failure: the endpoint cools from now on, so the request that goes on  *)
(* without it has its reason, and no other endpoint cools less.            *)
LEMMA FailKeeps ==
  ASSUME IInv, NEW r \in Request, Fail(r)
  PROVE  IInv'
<1> DEFINE e == req[r].current
<1>1. req[r].phase = "calling" /\ UNCHANGED now
  BY DEF Fail
<1>2. /\ health' = [health EXCEPT ![e] = [available |-> FALSE, until |-> now + Ttl]]
      /\ coolUntil' = [coolUntil EXCEPT ![e] = now + Ttl]
  BY DEF Fail, MarkEndpointFailed
<1>3. e \in Endpoint /\ e \in req[r].list /\ req[r].unchecked = {}
  <2>1. e \in req[r].list /\ req[r].list \subseteq Configured /\ req[r].unchecked = {}
    BY <1>1, Here DEF LocalMatches
  <2>2. QED
    BY <2>1, ConfigAssumption
<1> HIDE DEF e
<1>4. now \in Nat /\ Ttl \in Nat /\ Ttl > 0 /\ coolUntil[e] \in Nat
  BY <1>3, Constants DEF IInv, TypeOK
<1>5. coolUntil[e] <= now + Ttl
  BY <1>3, Parts DEF EntryHonest
<1>6. health' \in [Endpoint -> Entry] /\ coolUntil' \in [Endpoint -> Nat]
  <2>1. now + Ttl \in Nat /\ [available |-> FALSE, until |-> now + Ttl] \in Entry
    BY <1>4 DEF Entry
  <2>2. QED
    BY <1>2, <1>3, <2>1 DEF IInv, TypeOK
<1>7. \A f \in Endpoint : EntryHonest(f)' /\ coolUntil'[f] >= coolUntil[f]
  <2> SUFFICES ASSUME NEW f \in Endpoint
               PROVE  EntryHonest(f)' /\ coolUntil'[f] >= coolUntil[f]
    OBVIOUS
  <2>1. CASE f = e
    <3>1. /\ health'[f] = [available |-> FALSE, until |-> now + Ttl]
          /\ coolUntil'[f] = now + Ttl
      BY <1>2, <2>1 DEF IInv, TypeOK
    <3>2. QED
      BY <1>1, <1>4, <1>5, <2>1, <3>1 DEF EntryHonest
  <2>2. CASE f # e
    <3>1. health'[f] = health[f] /\ coolUntil'[f] = coolUntil[f] /\ EntryHonest(f)
      BY <1>2, <2>2, Parts DEF IInv, TypeOK
    <3>2. coolUntil[f] \in Nat
      BY DEF IInv, TypeOK
    <3>3. QED
      BY <1>1, <3>1, <3>2 DEF EntryHonest
  <2>3. QED
    BY <2>1, <2>2
<1>8. coolUntil'[e] = now + Ttl /\ coolUntil'[e] > req[r].begun
  BY <1>1, <1>2, <1>3, <1>4, Here DEF IInv, TypeOK, LocalMatches
<1>9. Owes(req[r], coolUntil')
  <2> SUFFICES ASSUME NEW j \in 1..Len(Chain),
                      NEW f \in EndpointsOf[Chain[j]] \cap Configured,
                      DoneWith(r, j, f)
               PROVE  coolUntil'[f] > req[r].begun
    BY DEF Owes, DoneWith
  <2>1. coolUntil[f] > req[r].begun
    BY <1>1, Here DEF Reasoned
  <2>2. f \in Endpoint /\ coolUntil[f] \in Nat /\ coolUntil'[f] \in Nat
    BY <1>6, Constants DEF IInv, TypeOK
  <2>3. QED
    BY <1>7, <2>1, <2>2, Here
<1>10. CASE TryNext(r, [req[r] EXCEPT !.list = @ \ {e}])
  <2>1. PICK q \in Local :
          /\ q = [req[r] EXCEPT !.list = @ \ {e}]
          /\ q.list = req[r].list \ {e} /\ q.unchecked = {}
          /\ q.begun = req[r].begun /\ q.model = req[r].model
    <3>1. [req[r] EXCEPT !.list = @ \ {e}] \in Local
      BY Here DEF Local
    <3>2. QED
      BY <1>3, <3>1, Here DEF Local
  <2>2. Owes(q, coolUntil')
    <3> SUFFICES ASSUME NEW j \in 1..Len(Chain),
                        NEW f \in EndpointsOf[Chain[j]] \cap Configured,
                        j < q.model \/ (j = q.model /\ f \notin q.unchecked \cup q.list)
                 PROVE  coolUntil'[f] > req[r].begun
      BY <2>1 DEF Owes
    <3>1. CASE f = e
      BY <1>8, <3>1
    <3>2. CASE f # e
      BY <1>3, <1>9, <2>1, <3>2 DEF Owes
    <3>3. QED
      BY <3>1, <3>2
  <2>3. q.list \subseteq Configured /\ q.begun <= now
    BY <1>1, <2>1, Here DEF LocalMatches
  <2>4. PICK p \in Local : /\ req' = [req EXCEPT ![r] = p]
                           /\ LocalMatches(p) /\ Owes(p, coolUntil')
    BY <1>4, <1>10, <2>1, <2>2, <2>3, TryNextFine
  <2>5. QED
    BY <1>1, <1>6, <1>7, <2>4, OneMoves
<1>11. CASE req' = [req EXCEPT ![r].phase = "refused"]
  <2>1. PICK q \in Local : /\ req' = [req EXCEPT ![r] = q]
                           /\ q.phase = "refused"
                           /\ q.begun = req[r].begun /\ q.list = req[r].list
    <3>1. [req[r] EXCEPT !.phase = "refused"] \in Local
      BY Here DEF Local, Phase
    <3>2. QED
      BY <1>11, <3>1, Here DEF Local
  <2>2. LocalMatches(q)
    BY <1>1, <2>1, Here DEF LocalMatches
  <2>3. QED
    BY <1>1, <1>6, <1>7, <2>1, <2>2, OneMoves
<1>12. QED
  BY <1>10, <1>11 DEF Fail, e

(* Time only lets entries run out.                                         *)
LEMMA TickKeeps ==
  ASSUME IInv, Tick
  PROVE  IInv'
<1>1. now' = now + 1 /\ UNCHANGED <<health, req, coolUntil>> /\ now \in Nat
  BY DEF Tick, IInv, TypeOK
<1>2. TypeOK'
  BY <1>1 DEF IInv, TypeOK
<1>3. \A e \in Endpoint : EntryHonest(e)'
  <2> SUFFICES ASSUME NEW e \in Endpoint PROVE EntryHonest(e)'
    OBVIOUS
  <2>1. EntryHonest(e) /\ coolUntil[e] \in Nat /\ health[e].until \in Nat /\ Ttl \in Nat
    BY Parts, Constants DEF TypeOK, Entry
  <2>2. QED
    BY <1>1, <2>1 DEF EntryHonest
<1>4. \A r \in Request : Reasoned(r)' /\ LocalMatches(req[r])'
  <2> SUFFICES ASSUME NEW r \in Request PROVE Reasoned(r)' /\ LocalMatches(req[r])'
    OBVIOUS
  <2>1. QED
    BY <1>1, Here DEF Reasoned, DoneWith, LocalMatches
<1>5. QED
  BY <1>2, <1>3, <1>4, PartsNext

(* Nothing was asked and nothing failed yet.                               *)
LEMMA InitHolds == Init => IInv
<1> SUFFICES ASSUME Init PROVE IInv
  OBVIOUS
<1>1. TypeOK
  BY Constants DEF Init, TypeOK, Entry, Local, Phase
<1>2. \A e \in Endpoint : EntryHonest(e)
  BY Constants DEF Init, EntryHonest
<1>3. \A r \in Request : Reasoned(r) /\ LocalMatches(req[r])
  BY DEF Init, Reasoned, LocalMatches
<1>4. QED
  BY <1>1, <1>2, <1>3, Parts

(* Every step keeps the invariant, one lemma per action.                   *)
LEMMA NextKeeps == IInv /\ [Next]_vars => IInv'
<1> SUFFICES ASSUME IInv, [Next]_vars PROVE IInv'
  OBVIOUS
<1>1. CASE \E r \in Request : Begin(r) \/ Listed(r) \/ Succeed(r) \/ Fail(r)
  BY <1>1, BeginKeeps, ListedKeeps, SucceedKeeps, FailKeeps
<1>2. CASE \E r \in Request : \E e \in Endpoint : CheckHealth(r, e)
  BY <1>2, CheckHealthKeeps
<1>3. CASE Tick
  BY <1>3, TickKeeps
<1>4. CASE UNCHANGED vars
  BY <1>4 DEF vars, IInv, TypeOK, CacheIsHonest, GivenUpForAReason, DoneWith,
              LocalsMatch
<1>5. QED
  BY <1>1, <1>2, <1>3, <1>4 DEF Next

(* The cache never forgets a failure before its time nor invents one, and  *)
(* no request gives an endpoint up, or its whole chain, without a failure  *)
(* that justifies it: whatever the chain, the endpoints, the concurrent    *)
(* requests and the order of their awaits.                                 *)
THEOREM FailoverInvariant == Spec => []IInv
  BY InitHolds, NextKeeps, PTL DEF Spec

(* Going on to the next endpoint or model lists no endpoint.               *)
LEMMA NoneListed ==
  ASSUME req \in [Request -> Local], NEW s \in Request, NEW q \in Local,
         TryNext(s, q), q.list \subseteq req[s].list
  PROVE  \A r \in Request : req'[r].list \subseteq req[r].list
<1>1. PICK p : req' = [req EXCEPT ![s] = p] /\ p.list \subseteq q.list
  <2>1. ASSUME NEW e \in q.list,
               req' = [req EXCEPT ![s] = [q EXCEPT !.phase = "calling", !.current = e]]
        PROVE  \E p : req' = [req EXCEPT ![s] = p] /\ p.list \subseteq q.list
    <3>1. [q EXCEPT !.phase = "calling", !.current = e].list = q.list
      BY DEF Local
    <3>2. QED
      BY <2>1, <3>1
  <2>2. ASSUME req' = [req EXCEPT ![s] = Listing(q, q.model + 1)]
        PROVE  \E p : req' = [req EXCEPT ![s] = p] /\ p.list \subseteq q.list
    <3>1. Listing(q, q.model + 1).list = {}
      BY DEF Listing, Local
    <3>2. QED
      BY <2>2, <3>1
  <2>3. ASSUME req' = [req EXCEPT ![s] = [q EXCEPT !.phase = "exhausted",
                                                   !.current = NoEndpoint]]
        PROVE  \E p : req' = [req EXCEPT ![s] = p] /\ p.list \subseteq q.list
    <3>1. [q EXCEPT !.phase = "exhausted", !.current = NoEndpoint].list = q.list
      BY DEF Local
    <3>2. QED
      BY <2>3, <3>1
  <2>4. QED
    BY <2>1, <2>2, <2>3 DEF TryNext
<1>2. QED
  BY <1>1

(* An endpoint that failed is listed by no request for a Ttl.              *)
THEOREM CooldownHolds == Spec => CooldownKept
<1> DEFINE A == \A r \in Request : \A e \in req'[r].list \ req[r].list :
                  coolUntil[e] <= now
<1>1. IInv /\ [Next]_vars => [A]_vars
  <2> SUFFICES ASSUME IInv, Next, NEW r \in Request,
                      NEW e \in req'[r].list \ req[r].list
               PROVE  coolUntil[e] <= now
    OBVIOUS
  <2>1. req \in [Request -> Local]
    BY DEF IInv, TypeOK
  <2>2. CASE \E s \in Request : \E f \in Endpoint : CheckHealth(s, f)
    <3>1. PICK s \in Request, f \in Endpoint : CheckHealth(s, f)
      BY <2>2
    <3>2. /\ s = r /\ e = f
          /\ (now < health[f].until => health[f].available)
      <4>1. req[s] \in Local
        BY <2>1
      <4>2. QED
        BY <2>1, <3>1, <4>1 DEF CheckHealth, Local
    <3>3. now \in Nat /\ coolUntil[f] \in Nat
      BY DEF IInv, TypeOK
    <3>4. EntryHonest(f)
      BY Parts
    <3>5. QED
      BY <3>2, <3>3, <3>4 DEF EntryHonest
  <2>3. CASE \E s \in Request : Begin(s) \/ Succeed(s)
    <3>1. PICK s \in Request : Begin(s) \/ Succeed(s)
      BY <2>3
    <3>2. PICK q : req' = [req EXCEPT ![s] = q] /\ q.list \subseteq req[s].list
      <4>1. CASE Begin(s)
        <5>1. [Listing(req[s], 1) EXCEPT !.begun = now].list = {}
          BY <2>1 DEF Listing, Local
        <5>2. QED
          BY <4>1, <5>1 DEF Begin
      <4>2. CASE Succeed(s)
        <5>1. [req[s] EXCEPT !.phase = "answered"].list = req[s].list
          BY <2>1 DEF Local
        <5>2. QED
          BY <4>2, <5>1 DEF Succeed
      <4>3. QED
        BY <3>1, <4>1, <4>2
    <3>3. QED
      BY <2>1, <3>2
  <2>4. CASE \E s \in Request : Listed(s)
    BY <2>1, <2>4, NoneListed DEF Listed
  <2>5. CASE \E s \in Request : Fail(s)
    <3>1. PICK s \in Request : Fail(s)
      BY <2>5
    <3>2. CASE TryNext(s, [req[s] EXCEPT !.list = @ \ {req[s].current}])
      <4>1. /\ [req[s] EXCEPT !.list = @ \ {req[s].current}] \in Local
            /\ [req[s] EXCEPT !.list = @ \ {req[s].current}].list \subseteq req[s].list
        BY <2>1 DEF Local
      <4>2. QED
        BY <2>1, <3>2, <4>1, NoneListed
    <3>3. CASE req' = [req EXCEPT ![s].phase = "refused"]
      <4>1. [req[s] EXCEPT !.phase = "refused"].list = req[s].list
        BY <2>1 DEF Local
      <4>2. QED
        BY <2>1, <3>3, <4>1
    <3>4. QED
      BY <3>1, <3>2, <3>3 DEF Fail
  <2>6. CASE Tick
    BY <2>6 DEF Tick
  <2>7. QED
    BY <2>2, <2>3, <2>4, <2>5, <2>6 DEF Next
<1>2. QED
  BY <1>1, FailoverInvariant, PTL DEF Spec, CooldownKept

---------------------------------------------------------------------------
(* Going on from a state whose checks are made: to another endpoint of the *)
(* list, to a later model, or to the end of the chain.                     *)
LEMMA TryNextMoves ==
  ASSUME req \in [Request -> Local], NEW r \in Request, NEW q \in Local, TryNext(r, q)
  PROVE  \/ req'[r].phase \in Over
         \/ req'[r].model > q.model
         \/ /\ req'[r].phase = "calling" /\ req'[r].model = q.model
            /\ req'[r].unchecked = q.unchecked /\ req'[r].list = q.list
<1>1. ASSUME NEW e \in q.list,
             req' = [req EXCEPT ![r] = [q EXCEPT !.phase = "calling", !.current = e]]
      PROVE  /\ req'[r].phase = "calling" /\ req'[r].model = q.model
             /\ req'[r].unchecked = q.unchecked /\ req'[r].list = q.list
  BY <1>1 DEF Local
<1>2. CASE req' = [req EXCEPT ![r] = Listing(q, q.model + 1)]
  <2>1. req'[r].model = q.model + 1
    BY <1>2 DEF Listing, Local
  <2>2. q.model \in Nat
    BY Constants DEF Local
  <2>3. QED
    BY <2>1, <2>2
<1>3. CASE req' = [req EXCEPT ![r] = [q EXCEPT !.phase = "exhausted",
                                              !.current = NoEndpoint]]
  BY <1>3 DEF Local, Over
<1>4. QED
  BY <1>1, <1>2, <1>3 DEF TryNext

(* A failed call leaves the list without its endpoint.                     *)
LEMMA FailBringsOn ==
  ASSUME IInv, NEW r \in Request, Fail(r)
  PROVE  req'[r].phase \in Over \/ FurtherOn(req'[r], req[r])
<1> DEFINE q == req[r]
           p == [q EXCEPT !.list = @ \ {q.current}]
<1>1. q \in Local /\ q.phase = "calling" /\ q.current \in q.list
  BY Here DEF Fail, LocalMatches
<1>2. CASE TryNext(r, p)
  <2>1. /\ p \in Local /\ p.model = q.model /\ p.unchecked = q.unchecked
        /\ p.list = q.list \ {q.current}
    BY <1>1 DEF Local
  <2>2. req \in [Request -> Local]
    BY DEF IInv, TypeOK
  <2> HIDE DEF p
  <2>3. \/ req'[r].phase \in Over
        \/ req'[r].model > p.model
        \/ /\ req'[r].phase = "calling" /\ req'[r].model = p.model
           /\ req'[r].unchecked = p.unchecked /\ req'[r].list = p.list
    BY <1>2, <2>1, <2>2, TryNextMoves
  <2>4. QED
    BY <1>1, <2>1, <2>3 DEF FurtherOn
<1>3. CASE req' = [req EXCEPT ![r].phase = "refused"]
  BY <1>3, <1>1 DEF Over, Local, IInv, TypeOK
<1>4. QED
  BY <1>2, <1>3 DEF Fail

(* An endpoint is checked once.                                            *)
LEMMA CheckBringsOn ==
  ASSUME IInv, NEW r \in Request, NEW e \in Endpoint, CheckHealth(r, e)
  PROVE  FurtherOn(req'[r], req[r])
<1>1. req[r] \in Local /\ e \in req[r].unchecked
  BY Here DEF CheckHealth
<1>2. req'[r].model = req[r].model /\ req'[r].unchecked = req[r].unchecked \ {e}
  BY <1>1 DEF CheckHealth, Local, IInv, TypeOK
<1>3. QED
  BY <1>1, <1>2 DEF FurtherOn

(* What other requests do leaves a request where it is.                    *)
LEMMA StepOfOne ==
  ASSUME IInv, Next
  PROVE  \/ req' = req
         \/ \E s \in Request :
              /\ Begin(s) \/ Listed(s) \/ Succeed(s) \/ Fail(s)
                   \/ \E e \in Endpoint : CheckHealth(s, e)
              /\ \A r \in Request \ {s} : req'[r] = req[r]
<1>1. ASSUME NEW s \in Request, Begin(s) \/ Succeed(s)
      PROVE  \A r \in Request \ {s} : req'[r] = req[r]
  BY <1>1 DEF Begin, Succeed, IInv, TypeOK
<1>2. ASSUME NEW s \in Request, NEW q, TryNext(s, q)
      PROVE  \A r \in Request \ {s} : req'[r] = req[r]
  BY <1>2 DEF TryNext, IInv, TypeOK
<1>3. ASSUME NEW s \in Request, Listed(s) \/ Fail(s)
      PROVE  \A r \in Request \ {s} : req'[r] = req[r]
  BY <1>2, <1>3 DEF Listed, Fail, IInv, TypeOK
<1>4. ASSUME NEW s \in Request, NEW e \in Endpoint, CheckHealth(s, e)
      PROVE  \A r \in Request \ {s} : req'[r] = req[r]
  BY <1>4 DEF CheckHealth, IInv, TypeOK
<1>5. CASE Tick
  BY <1>5 DEF Tick
<1>6. QED
  BY <1>1, <1>3, <1>4, <1>5 DEF Next

(* A request never goes back: for any chain and any endpoints, and         *)
(* whatever the cache says while others write it, every step that changes  *)
(* a request under way ends it or brings it further on, so with finitely   *)
(* many endpoints it makes finitely many checks and calls.                 *)
THEOREM RequestsAreFinite == Spec => RequestsRunDown
<1> DEFINE A == \A r \in Request :
                  req[r].phase \in {"listing", "calling"} =>
                    \/ req'[r] = req[r]
                    \/ req'[r].phase \in Over
                    \/ FurtherOn(req'[r], req[r])
<1>1. IInv /\ [Next]_vars => [A]_vars
  <2> SUFFICES ASSUME IInv, Next, NEW r \in Request,
                      req[r].phase \in {"listing", "calling"}, req'[r] # req[r]
               PROVE  req'[r].phase \in Over \/ FurtherOn(req'[r], req[r])
    OBVIOUS
  <2>1. /\ req \in [Request -> Local] /\ req[r] \in Local
    BY DEF IInv, TypeOK
  <2>2. \/ Begin(r) \/ Listed(r) \/ Succeed(r) \/ Fail(r)
        \/ \E e \in Endpoint : CheckHealth(r, e)
    BY StepOfOne
  <2>3. CASE Begin(r)
    BY <2>3 DEF Begin, Over
  <2>4. CASE Listed(r)
    <3>1. req[r].phase = "listing" /\ TryNext(r, req[r])
      BY <2>4 DEF Listed
    <3>2. QED
      BY <2>1, <3>1, TryNextMoves DEF FurtherOn
  <2>5. CASE Succeed(r)
    BY <2>1, <2>5 DEF Succeed, Over, Local
  <2>6. CASE Fail(r)
    BY <2>6, FailBringsOn
  <2>7. CASE \E e \in Endpoint : CheckHealth(r, e)
    BY <2>7, CheckBringsOn
  <2>8. QED
    BY <2>2, <2>3, <2>4, <2>5, <2>6, <2>7
<1>2. QED
  BY <1>1, FailoverInvariant, PTL DEF Spec, RequestsRunDown
=============================================================================
