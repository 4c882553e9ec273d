----------------------------- MODULE RateLimiting ----------------------------
(***************************************************************************)
(* RateLimitingMiddleware for one service: a request reads the usage of    *)
(* its entity from Redis and is refused at the quota; when it was served,  *)
(* a background task increments the usage.  A missing key is created with  *)
(* a SETEX nobody waits for; it is the INCR, which keeps no expiry of its  *)
(* own, that may create it again.  Nobody sees the SETEX or the task fail. *)
(*                                                                         *)
(* entity_id is a property of the class ServiceRequest, so both phases     *)
(* read the entity of the request authenticated last.  Only a request with *)
(* an idempotency key awaits between AuthMiddleware and this middleware.   *)
(***************************************************************************)
EXTENDS Integers, FiniteSets

CONSTANTS Requests,
          EntityOf,        \* the entity that authenticates a request
          Keyed,           \* requests with an idempotency key
          Quota,           \* RATE_LIMITS, -1 where the service has no quota
          Window,          \* and their windows in ticks
          OnlyFulfilled,   \* only_limit_fulfilled of the service
          MaxInFlight,     \* bound: requests and tasks of the worker at a time
          MaxTime          \* bound: ticks of the clock

Scopes == {"service", "total"}
Entities == {EntityOf[r] : r \in Requests}
NoEntity == "nobody"

ASSUME LimitAssumption == /\ Keyed \subseteq Requests
                          /\ Quota \in [Scopes -> Int] /\ Quota["total"] >= 0
                          /\ Window \in [Scopes -> Nat \ {0}]
                          /\ OnlyFulfilled \in BOOLEAN
                          /\ MaxInFlight \in Nat /\ MaxTime \in Nat
                          /\ NoEntity \notin Entities

VARIABLES
  redis,     \* usage of each entity in each scope
  now,       \* Redis' clock
  entity,    \* ServiceRequest.entity_id, one property of the class
  pc,        \* "new", "waiting", "service", "total", "serving" or "done"
  reader,    \* entity_id of process_request
  setting,   \* SETEX commands on their way, by request and scope
  charging,  \* pipelines of the background tasks: the entity they charge
  outcome,   \* how the request ended
  payer,     \* history: the entity charged for a request in each scope
  when,      \* history: the time of that charge
  lost,      \* history: requests whose task ended without all of it
  crossed,   \* history: requests during which another entity came
  overlapped \* history: a request came before the last one was counted

request == <<pc, reader, outcome>>
charges == <<payer, when, lost>>
vars == <<redis, now, entity, request, setting, charging, charges, crossed,
          overlapped>>

Keys == Entities \X Scopes
Missing == [val |-> 0, ttl |-> "missing", exp |-> 0]
Lasting(n) == [val |-> n, ttl |-> "none", exp |-> 0]
Expiring(n, t) == [val |-> n, ttl |-> "set", exp |-> t]

Init == /\ redis = [k \in Keys |-> Missing]
        /\ now = 0
        /\ entity = NoEntity
        /\ pc = [r \in Requests |-> "new"]
        /\ reader = [r \in Requests |-> NoEntity]
        /\ setting = {}
        /\ charging = {}
        /\ outcome = [r \in Requests |-> "none"]
        /\ payer = [r \in Requests |-> [s \in Scopes |-> NoEntity]]
        /\ when = [r \in Requests |-> 0]
        /\ lost = {}
        /\ crossed = {}
        /\ overlapped = FALSE

InProgress == {r \in Requests : pc[r] \notin {"new", "done"}}
Busy == {r \in Requests : \/ r \in InProgress
                          \/ \E c \in charging : c.by = r
                          \/ \E s \in setting : s.by = r}

-----------------------------------------------------------------------------
(* Request phase *)

(* AuthMiddleware stores the entity on the class; without an idempotency   *)
(* key process_request goes on to read it at once.                         *)
Arrive(r) ==
  /\ pc[r] = "new" /\ Cardinality(Busy) < MaxInFlight
  /\ entity' = EntityOf[r]
  /\ IF r \in Keyed
       THEN /\ pc' = [pc EXCEPT ![r] = "waiting"]
            /\ UNCHANGED reader
       ELSE /\ pc' = [pc EXCEPT ![r] = "service"]
            /\ reader' = [reader EXCEPT ![r] = EntityOf[r]]
  /\ crossed' = crossed \cup {q \in InProgress : EntityOf[q] # EntityOf[r]}
  /\ overlapped' = (overlapped \/ Busy # {})
  /\ UNCHANGED <<redis, now, setting, charging, outcome, charges>>

ReadEntity(r) == entity

Resume(r) ==
  /\ pc[r] = "waiting"
  /\ reader' = [reader EXCEPT ![r] = ReadEntity(r)]
  /\ pc' = [pc EXCEPT ![r] = "service"]
  /\ UNCHANGED <<redis, now, entity, setting, charging, outcome, charges,
                 crossed, overlapped>>

(* number_left: a scope without a quota is not looked up.                  *)
MutantLeft(r, s) == Quota[s] - redis[<<reader[r], s>>].val - 1
Left(r, s) == IF Quota[s] < 0 THEN Quota[s]
              ELSE Quota[s] - redis[<<reader[r], s>>].val

Creates(r, s) == Quota[s] >= 0 /\ redis[<<reader[r], s>>] = Missing

MutantRefuses(r, s) == FALSE
Refuses(r, s) == Left(r, s) = 0

(* The GET of a scope and what follows up to the next await.  Commands of  *)
(* one connection run in order: the SETEX of the first scope is done       *)
(* before the GET of the second is answered.                               *)
Look(r, s, onward) ==
  /\ pc[r] = s
  /\ ~\E c \in setting : c.by = r
  /\ setting' = IF Creates(r, s)
                  THEN setting \cup {[by |-> r, key |-> <<reader[r], s>>]}
                  ELSE setting
  /\ IF Refuses(r, s)
       THEN /\ pc' = [pc EXCEPT ![r] = "done"]
            /\ outcome' = [outcome EXCEPT ![r] = s]
       ELSE /\ pc' = [pc EXCEPT ![r] = onward]
            /\ UNCHANGED outcome
  /\ UNCHANGED <<redis, now, entity, reader, charging, charges, crossed,
                 overlapped>>

LookService(r) == Look(r, "service", "total")
LookTotal(r) == Look(r, "total", "serving")

(* The connection fails under a GET, with the SETEX before it.             *)
LookFails(r) ==
  /\ pc[r] \in Scopes
  /\ pc' = [pc EXCEPT ![r] = "done"]
  /\ outcome' = [outcome EXCEPT ![r] = "error"]
  /\ setting' = {c \in setting : c.by # r}
  /\ UNCHANGED <<redis, now, entity, reader, charging, charges, crossed,
                 overlapped>>

-----------------------------------------------------------------------------
(* Response phase *)

MutantCharged(how) == TRUE
MutantChargedInverted(how) == how = "unfulfilled" /\ OnlyFulfilled
Charged(how) == how = "fulfilled" \/ (how = "unfulfilled" /\ ~OnlyFulfilled)

(* An error has no response and is not counted; neither is an unfulfilled  *)
(* one of a service that asks for that.                                    *)
Serve(r, how) ==
  /\ pc[r] = "serving"
  /\ pc' = [pc EXCEPT ![r] = "done"]
  /\ outcome' = [outcome EXCEPT ![r] = how]
  /\ charging' = IF Charged(how)
                   THEN charging \cup {[by |-> r, who |-> entity]}
                   ELSE charging
  /\ UNCHANGED <<redis, now, entity, reader, setting, charges, crossed,
                 overlapped>>

-----------------------------------------------------------------------------
(* Redis *)

(* A SETEX whose connection is lost meanwhile stays on its way for good.   *)
RunSetex(c) ==
  /\ redis' = [redis EXCEPT ![c.key] = Expiring(0, now + Window[c.key[2]])]
  /\ setting' = setting \ {c}
  /\ UNCHANGED <<now, entity, request, charging, charges, crossed, overlapped>>

Incremented(cell) ==
  IF cell = Missing THEN Lasting(1) ELSE [cell EXCEPT !.val = @ + 1]

(* The pipeline increments both scopes, the service's also without quota.  *)
(* It is no transaction and its result is not looked at: the task may end  *)
(* when Redis has run none of it, or the first command only.               *)
Runs == {{}, {"service"}, Scopes}
RunIncr(c, ran) ==
  /\ redis' = [k \in Keys |-> IF k[1] = c.who /\ k[2] \in ran
                                THEN Incremented(redis[k]) ELSE redis[k]]
  /\ payer' = [payer EXCEPT ![c.by] = [s \in Scopes |->
                                IF s \in ran THEN c.who ELSE NoEntity]]
  /\ when' = [when EXCEPT ![c.by] = IF ran = {} THEN @ ELSE now]
  /\ lost' = IF ran = Scopes THEN lost ELSE lost \cup {c.by}
  /\ charging' = charging \ {c}
  /\ UNCHANGED <<now, entity, request, setting, crossed, overlapped>>

Expired(cell, t) == cell.ttl = "set" /\ cell.exp <= t

Tick ==
  /\ now < MaxTime
  /\ now' = now + 1
  /\ redis' = [k \in Keys |-> IF Expired(redis[k], now + 1) THEN Missing
                                                            ELSE redis[k]]
  /\ UNCHANGED <<entity, request, setting, charging, charges, crossed,
                 overlapped>>

Handle(r) == \/ Arrive(r) \/ Resume(r) \/ LookService(r) \/ LookTotal(r)
             \/ LookFails(r)
             \/ \E how \in {"fulfilled", "unfulfilled", "error"} : Serve(r, how)

Charge(c) == \E ran \in Runs : RunIncr(c, ran)

Next == \/ \E r \in Requests : Handle(r)
        \/ \E c \in setting : RunSetex(c)
        \/ \E c \in charging : Charge(c)
        \/ Tick

Spec == Init /\ [][Next]_vars

(* The event loop resumes requests and tasks, which end by an answer of    *)
(* Redis or by the loss of it.                                             *)
FairSpec == /\ Spec
            /\ \A r \in Requests : WF_vars(Handle(r) /\ pc[r] # "new")
            /\ WF_vars(\E c \in charging : Charge(c))

-----------------------------------------------------------------------------
(* Properties *)

Cells == [val : Nat, ttl : {"missing", "none", "set"}, exp : Nat]

TypeOK ==
  /\ redis \in [Keys -> Cells]
  /\ now \in 0..MaxTime
  /\ entity \in Entities \cup {NoEntity}
  /\ pc \in [Requests -> {"new", "waiting", "service", "total", "serving", "done"}]
  /\ reader \in [Requests -> Entities \cup {NoEntity}]
  /\ setting \subseteq [by : Requests, key : Keys]
  /\ charging \subseteq [by : Requests, who : Entities]
  /\ outcome \in [Requests -> Scopes \cup {"none", "fulfilled", "unfulfilled",
                                           "error"}]
  /\ payer \in [Requests -> [Scopes -> Entities \cup {NoEntity}]]
  /\ when \in [Requests -> 0..MaxTime]
  /\ lost \subseteq Requests
  /\ crossed \subseteq Requests
  /\ overlapped \in BOOLEAN

(* The requests of an entity that were charged to it in this window.       *)
Recent(e, s) == {q \in Requests : /\ EntityOf[q] = e /\ payer[q][s] = e
                                  /\ now < when[q] + Window[s]}

(* Nobody else's request was charged to the entity.                        *)
Unmixed(e, s) == \A q \in crossed : payer[q][s] # e

(* No client is refused early: when it is told the quota is used up, that  *)
(* many requests of its own were counted within one window before, however *)
(* SETEX, INCR, expiry and failures of Redis interleaved.  There are two   *)
(* ways the code refuses more than that, and no other: the class attribute *)
(* entity_id changed hands, for the request or for one charged to its      *)
(* entity, or the key has lost its expiry.                                 *)
Unexcused(r, s) == /\ r \notin crossed /\ Unmixed(EntityOf[r], s)
                   /\ redis[<<reader[r], s>>].ttl # "none"
NoFalseRefusal ==
  [][\A r \in Requests, s \in Scopes :
       outcome[r] # s /\ outcome'[r] = s /\ Unexcused(r, s)
         => Cardinality(Recent(EntityOf[r], s)) >= Quota[s]]_vars

(* The counts are requests that were served: no usage is above the number  *)
(* of requests that were charged to the entity, each of them once and none *)
(* for a refused request, an error or, where the service asks for it, for  *)
(* one that was not fulfilled.                                             *)
CountsAreServedRequests ==
  \A e \in Entities, s \in Scopes :
    redis[<<e, s>>].val <=
      Cardinality({r \in Requests : payer[r][s] = e
                     /\ \/ outcome[r] = "fulfilled"
                        \/ outcome[r] = "unfulfilled" /\ ~OnlyFulfilled})

(* Within a window no entity gets beyond the quota: rate_limiting.py 15,   *)
(* "5000 in hour".  A usage above the quota also turns the limit off,      *)
(* process_request refuses only at a difference of exactly 0.              *)
UsageWithinQuota ==
  \A e \in Entities, s \in Scopes :
    Quota[s] >= 0 => redis[<<e, s>>].val <= Quota[s]

(* Requests that come one after the other, each when the last one has been *)
(* counted, never get beyond the quota, whenever the windows expire: the   *)
(* race is the only way past the difference of 0 that process_request      *)
(* looks for.                                                              *)
WithinQuotaUnlessOverlapping == ~overlapped => UsageWithinQuota

(* The quota resets: gateway_exceptions.py 130, "But quota resets every    *)
(* hour".  Usage that counts against a quota carries an expiry, unless a   *)
(* SETEX is on its way.                                                    *)
QuotaResets ==
  \A e \in Entities, s \in Scopes :
    Quota[s] >= 0 /\ setting = {} => redis[<<e, s>>].ttl # "none"

(* A request that is to be counted is counted in both scopes in the end,   *)
(* though nobody awaits the task that does it; but for those whose task    *)
(* failed or was lost, which nobody repeats.                               *)
ServedIsCounted ==
  \A r \in Requests :
    outcome[r] = "fulfilled" ~> \/ \A s \in Scopes : payer[r][s] # NoEntity
                                \/ r \in lost
=============================================================================
