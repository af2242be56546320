--------------------------- MODULE ModelFailover ---------------------------
(* The provider manager: a completion for an agent goes down a chain of    *)
(* models and, for each, over the endpoints that serve it. An endpoint     *)
(* that fails is left alone for a while, through a health cache all the    *)
(* requests of the process share. Requests of Agent A and of conversations *)
(* run at once; between two awaits of one, others read and write the cache.*)
(*                                                                         *)
(* An answer is an answer, a recoverable error (isRecoverableError, a      *)
(* timeout, a network failure, missing credentials) or one that is not.    *)
EXTENDS Naturals, Sequences

CONSTANTS
  Request,     \* concurrent completions; each may be made again when it ended
  Model,
  Endpoint,
  NoEndpoint,
  Chain,       \* getFallbackChain: the primary model and its fallbacks
  EndpointsOf, \* endpoints listed for a model (none for an unknown model)
  Priority,    \* priority of an endpoint, the lowest first
  Configured,  \* endpoints enabled and with credentials
  Ttl,         \* healthCacheTTL (30 s)
  MaxTime      \* bound: the clock

ASSUME ConfigAssumption ==
  /\ Chain \in Seq(Model) /\ Chain # <<>>
  /\ EndpointsOf \in [Model -> SUBSET Endpoint]
  /\ Priority \in [Endpoint -> Nat]
  /\ Configured \subseteq Endpoint
  /\ NoEndpoint \notin Endpoint
ASSUME TimeAssumption == Ttl \in Nat \ {0} /\ MaxTime \in Nat

Phase == {"idle", "listing", "calling", "answered", "refused", "exhausted"}

VARIABLES
  now,
  health,    \* healthCache; an entry counts while now < until
  req,       \* the locals of completeWithFallback
  coolUntil  \* Ttl after the latest failure of an endpoint, for the
             \* properties only

vars == <<now, health, req, coolUntil>>

Entry == [available : BOOLEAN, until : Nat]

(* model is the position in the chain; unchecked and list are the model's  *)
(* endpoints that getAvailableEndpointsForModel has still to look at, and  *)
(* those it found available and that were not tried yet. begun is for the  *)
(* properties only.                                                        *)
Local == [phase : Phase, model : 1..Len(Chain), unchecked : SUBSET Endpoint,
          list : SUBSET Endpoint, current : Endpoint \cup {NoEndpoint}, begun : Nat]

Init ==
  /\ now = 0
  /\ health = [e \in Endpoint |-> [available |-> FALSE, until |-> 0]]
  /\ req = [r \in Request |->
              [phase |-> "idle", model |-> 1, unchecked |-> {}, list |-> {},
               current |-> NoEndpoint, begun |-> 0]]
  /\ coolUntil = [e \in Endpoint |-> 0]

-----------------------------------------------------------------------------
Over == {"idle", "answered", "refused", "exhausted"}

Listing(q, m) ==
  [q EXCEPT !.phase = "listing", !.model = m, !.list = {},
            !.unchecked = EndpointsOf[Chain[m]], !.current = NoEndpoint]

(* The loops of completeWithFallback: the best endpoint left, or the next  *)
(* model, or the end of the chain.                                         *)
TryNext(r, q) ==
  \/ \E e \in q.list :
       /\ \A f \in q.list : Priority[e] <= Priority[f]
       /\ req' = [req EXCEPT ![r] = [q EXCEPT !.phase = "calling", !.current = e]]
  \/ /\ q.list = {}
     /\ req' = [req EXCEPT ![r] =
          IF q.model < Len(Chain)
          THEN Listing(q, q.model + 1)
          ELSE [q EXCEPT !.phase = "exhausted", !.current = NoEndpoint]]

Begin(r) ==
  /\ req[r].phase \in Over
  /\ req' = [req EXCEPT ![r] = [Listing(req[r], 1) EXCEPT !.begun = now]]
  /\ UNCHANGED <<now, health, coolUntil>>

(* getEndpointHealth: a cached entry is believed while it is young, or the *)
(* configuration is looked at again. One await per endpoint.               *)
CheckHealth(r, e) ==
  LET entry == IF now < health[e].until
               THEN health[e]
               ELSE [available |-> e \in Configured, until |-> now + Ttl]
  IN  /\ req[r].phase = "listing"
      /\ e \in req[r].unchecked
      /\ health' = [health EXCEPT ![e] = entry]
      /\ req' = [req EXCEPT ![r].unchecked = @ \ {e},
                            ![r].list = IF entry.available THEN @ \cup {e} ELSE @]
      /\ UNCHANGED <<now, coolUntil>>

Listed(r) ==
  /\ req[r].phase = "listing"
  /\ req[r].unchecked = {}
  /\ TryNext(r, req[r])
  /\ UNCHANGED <<now, health, coolUntil>>

Succeed(r) ==
  /\ req[r].phase = "calling"
  /\ req' = [req EXCEPT ![r].phase = "answered"]
  /\ UNCHANGED <<now, health, coolUntil>>

(* Mutant: the entry keeps the time of the check that made it. *)
MarkFailedInPlace(e) ==
  /\ health' = [health EXCEPT ![e].available = FALSE]
  /\ coolUntil' = [coolUntil EXCEPT ![e] = now + Ttl]

MarkEndpointFailed(e) ==
  /\ health' = [health EXCEPT ![e] = [available |-> FALSE, until |-> now + Ttl]]
  /\ coolUntil' = [coolUntil EXCEPT ![e] = now + Ttl]

(* Mutant: one failed endpoint is enough to go on to the next model. *)
FailModel(r) ==
  LET q == req[r]
  IN  /\ q.phase = "calling"
      /\ MarkEndpointFailed(q.current)
      /\ \/ TryNext(r, [q EXCEPT !.list = {}])
         \/ req' = [req EXCEPT ![r].phase = "refused"]
      /\ UNCHANGED now

(* Every error takes the endpoint out, the caller's own included; the      *)
(* caller's own ends the request.                                          *)
Fail(r) ==
  LET q == req[r]
      e == q.current
  IN  /\ q.phase = "calling"
      /\ MarkEndpointFailed(e)
      /\ \/ TryNext(r, [q EXCEPT !.list = @ \ {e}])
         \/ req' = [req EXCEPT ![r].phase = "refused"]
      /\ UNCHANGED now

Tick ==
  /\ now < MaxTime
  /\ now' = now + 1
  /\ UNCHANGED <<health, req, coolUntil>>

Next ==
  \/ \E r \in Request :
       \/ Begin(r) \/ Listed(r) \/ Succeed(r) \/ Fail(r)
       \/ \E e \in Endpoint : CheckHealth(r, e)
  \/ Tick

Spec == Init /\ [][Next]_vars

-----------------------------------------------------------------------------
TypeOK ==
  /\ now \in Nat
  /\ health \in [Endpoint -> Entry]
  /\ req \in [Request -> Local]
  /\ coolUntil \in [Endpoint -> Nat]

(* The cache remembers every failure for as long as it should, whatever    *)
(* other requests checked or completed since, and offers only endpoints    *)
(* that can be called.                                                     *)
CacheIsHonest ==
  \A e \in Endpoint :
    /\ coolUntil[e] <= now + Ttl
    /\ now < coolUntil[e] => health[e] = [available |-> FALSE, until |-> coolUntil[e]]
    /\ now < health[e].until => IF health[e].available
                                THEN e \in Configured
                                ELSE e \in Configured => coolUntil[e] = health[e].until

(* Endpoints request r is done with: those of the models it left and those *)
(* of its model that it has neither to check nor to try.                   *)
DoneWith(r, j, e) ==
  \/ j < req[r].model
  \/ j = req[r].model /\ e \notin req[r].unchecked \cup req[r].list

(* A request gives an endpoint up only for a reason: it failed since the   *)
(* request began, or less than a Ttl before. In particular a request whose *)
(* chain is exhausted has met an outage, or the traces of one, on every    *)
(* endpoint of every model of the chain.                                   *)
GivenUpForAReason ==
  \A r \in Request :
    req[r].phase \in {"listing", "calling", "exhausted"} =>
      \A j \in 1..Len(Chain) : \A e \in EndpointsOf[Chain[j]] \cap Configured :
        DoneWith(r, j, e) => coolUntil[e] > req[r].begun

LocalsMatch ==
  \A r \in Request :
    LET q == req[r]
    IN  /\ q.phase # "idle" => q.begun <= now
        /\ q.list \subseteq Configured
        /\ q.phase = "calling" => q.current \in q.list /\ q.unchecked = {}
        /\ q.phase = "exhausted" =>
             q.model = Len(Chain) /\ q.unchecked = {} /\ q.list = {}

(* The inductive invariant of the proofs.                                  *)
IInv == TypeOK /\ CacheIsHonest /\ GivenUpForAReason /\ LocalsMatch

(* State p of a request is further on than q: a later model, or fewer      *)
(* endpoints of the model to check, then its calls, then fewer to call.    *)
FurtherOn(p, q) ==
  \/ p.model > q.model
  \/ /\ p.model = q.model
     /\ \/ p.unchecked \subseteq q.unchecked /\ p.unchecked # q.unchecked
        \/ /\ p.unchecked = q.unchecked
           /\ \/ q.phase = "listing" /\ p.phase = "calling"
              \/ p.phase = q.phase /\ p.list \subseteq q.list /\ p.list # q.list

(* A request calls an endpoint once for each of its models and never goes  *)
(* back: whatever other requests do to the cache, a step that changes it   *)
(* ends it or brings it on in an order that has no infinite ascent.        *)
RequestsRunDown ==
  [][\A r \in Request :
       req[r].phase \in {"listing", "calling"} =>
         \/ req'[r] = req[r]
         \/ req'[r].phase \in Over
         \/ FurtherOn(req'[r], req[r])]_vars

(* An endpoint that failed is offered to no request for a Ttl: only        *)
(* requests that had listed it before may still call it.                   *)
CooldownKept ==
  [][\A r \in Request : \A e \in req'[r].list \ req[r].list : coolUntil[e] <= now]_vars
=============================================================================
