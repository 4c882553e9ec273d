---------------------------- MODULE IdempotencyKey ---------------------------
(***************************************************************************)
(* IdempotencyKeyMiddleware: requests that carry the same key within the   *)
(* TTL are to be handled once.  The key is looked up with one statement    *)
(* and recorded with another, each its own autocommitted transaction on an *)
(* awaited connection; it is released when the request was not fulfilled.  *)
(*                                                                         *)
(* A key is kept per scope, the entity of the request and its path.  The   *)
(* entity is read from ServiceRequest.entity_id, which add_lazy_property   *)
(* sets on the class: all requests of a worker read the last one stored.   *)
(* Between AuthMiddleware and get_scope of the request phase nothing       *)
(* awaits, so that scope is the request's own; the one of the response     *)
(* phase is computed when the service has finished.                        *)
(***************************************************************************)
EXTENDS Integers, FiniteSets

CONSTANTS Requests,
          Webhooks,      \* requests that skip AuthMiddleware
          EntityOf,      \* the entity that authenticates a request
          KeyOf,         \* X-Idempotency-Key or idempotency_key, where it has one
          AnyEntity,     \* scope of a request without entity_id
          TTL,           \* IDEMPOTENCY_TTL in ticks
          MaxHandling,   \* bound: ticks a request takes, below Sanic's time-out
          LastArrival,   \* bound: last tick at which a request arrives
          MaxCrashes     \* bound: restarts of the worker

ASSUME KeyAssumption == /\ Webhooks \subseteq Requests
                        /\ TTL \in Nat /\ MaxHandling \in Nat
                        /\ LastArrival \in Nat /\ MaxCrashes \in Nat
                        /\ MaxHandling < TTL
                        /\ AnyEntity \notin {EntityOf[r] : r \in Requests}

Entities == {EntityOf[r] : r \in Requests}
EndOfTime == LastArrival + MaxHandling + TTL

VARIABLES
  rows,        \* table idempotancy_request, with the request of each row
  entity,      \* ServiceRequest.entity_id, one property of the class
  now,         \* time.time() in ticks
  pc,          \* "new", "check", "insert", "serving", "release" or "done"
  scope,       \* scope_id of check
  freed,       \* scope_id of process_response
  started,     \* when the request arrived
  outcome,     \* how the request ended
  crashes,     \* restarts so far
  since,       \* history: when a request got its row past the check
  doubled,     \* history: scopes and keys inserted while they were held
  crossed      \* history: requests during which another entity came

handling == <<pc, scope, freed, started, outcome>>
marks == <<since, doubled>>
vars == <<rows, entity, now, handling, crashes, marks, crossed>>

Path(r) == IF r \in Webhooks THEN "webhook" ELSE "method"
Scopes == (Entities \cup {AnyEntity}) \X {"webhook", "method"}
NoScope == <<AnyEntity, "none">>
Never == -1

InFlight == {r \in Requests : pc[r] \notin {"new", "done"}}

Init == /\ rows = {}
        /\ entity = AnyEntity
        /\ now = 0
        /\ pc = [r \in Requests |-> "new"]
        /\ scope = [r \in Requests |-> NoScope]
        /\ freed = [r \in Requests |-> NoScope]
        /\ started = [r \in Requests |-> 0]
        /\ outcome = [r \in Requests |-> "none"]
        /\ crashes = 0
        /\ since = [r \in Requests |-> Never]
        /\ doubled = {}
        /\ crossed = {}

-----------------------------------------------------------------------------
(* The table *)

MutantLive(row) == row.time > now - TTL + 1
MutantLiveForever(row) == TRUE
Live(row) == row.time > now - TTL

Holds(row, s, k) == row.scope = s /\ row.key = k
Held(s, k) == \E row \in rows : Holds(row, s, k) /\ Live(row)

NewRow(r) == [key |-> KeyOf[r], scope |-> scope[r], time |-> now, owner |-> r]

End(r, how) == /\ pc' = [pc EXCEPT ![r] = "done"]
               /\ outcome' = [outcome EXCEPT ![r] = how]

-----------------------------------------------------------------------------
(* Request phase *)

(* AuthMiddleware.process_request; webhooks leave the property alone.      *)
Authenticated(r) == IF r \in Webhooks THEN entity ELSE EntityOf[r]

(* The requests that are to compute their scope again, and now would get   *)
(* another one than they took.                                             *)
Crossing == {q \in InFlight : pc[q] # "release" /\ scope[q][1] # entity'}

Arrive(r) ==
  /\ pc[r] = "new"
  /\ now <= LastArrival
  /\ entity' = Authenticated(r)
  /\ scope' = [scope EXCEPT ![r] = <<entity', Path(r)>>]
  /\ pc' = [pc EXCEPT ![r] = "check"]
  /\ started' = [started EXCEPT ![r] = now]
  /\ crossed' = crossed \cup Crossing
  /\ UNCHANGED <<rows, now, freed, outcome, crashes, marks>>

(* Without a key the middleware does nothing in either phase.              *)
ArriveWithoutKey(r) ==
  /\ pc[r] = "new"
  /\ now <= LastArrival
  /\ entity' = Authenticated(r)
  /\ crossed' = crossed \cup Crossing
  /\ End(r, "fulfilled")
  /\ UNCHANGED <<rows, now, scope, freed, started, crashes, marks>>

Check(r) ==
  /\ pc[r] = "check"
  /\ ~Held(scope[r], KeyOf[r])
  /\ pc' = [pc EXCEPT ![r] = "insert"]
  /\ UNCHANGED <<rows, entity, now, scope, freed, started, outcome, crashes,
                 marks, crossed>>

(* The extension with the key is added only after check returned: the      *)
(* response phase of a rejected request does nothing.                      *)
MutantReject(r) ==
  /\ pc[r] = "check"
  /\ Held(scope[r], KeyOf[r])
  /\ pc' = [pc EXCEPT ![r] = "release"]
  /\ outcome' = [outcome EXCEPT ![r] = "rejected"]
  /\ freed' = [freed EXCEPT ![r] = <<entity, Path(r)>>]
  /\ UNCHANGED <<rows, entity, now, scope, started, crashes, marks, crossed>>
Reject(r) ==
  /\ pc[r] = "check"
  /\ Held(scope[r], KeyOf[r])
  /\ End(r, "rejected")
  /\ UNCHANGED <<rows, entity, now, scope, freed, started, crashes, marks,
                 crossed>>

Insert(r) ==
  /\ pc[r] = "insert"
  /\ doubled' = IF Held(scope[r], KeyOf[r])
                  THEN doubled \cup {<<scope[r], KeyOf[r]>>} ELSE doubled
  /\ rows' = rows \cup {NewRow(r)}
  /\ since' = [since EXCEPT ![r] = now]
  /\ pc' = [pc EXCEPT ![r] = "serving"]
  /\ UNCHANGED <<entity, now, scope, freed, started, outcome, crashes,
                 crossed>>

(* A statement of check fails: the database error ends the request, whose  *)
(* key is not yet in the extensions, be the row inserted or not.           *)
CheckFails(r, inserted) ==
  /\ pc[r] \in {"check", "insert"}
  /\ inserted => pc[r] = "insert"
  /\ rows' = IF inserted THEN rows \cup {NewRow(r)} ELSE rows
  /\ doubled' = IF inserted /\ Held(scope[r], KeyOf[r])
                  THEN doubled \cup {<<scope[r], KeyOf[r]>>} ELSE doubled
  /\ End(r, "failed")
  /\ UNCHANGED <<entity, now, scope, freed, started, crashes, since, crossed>>

-----------------------------------------------------------------------------
(* Service and response phase *)

Fulfil(r) ==
  /\ pc[r] = "serving"
  /\ End(r, "fulfilled")
  /\ UNCHANGED <<rows, entity, now, scope, freed, started, crashes, marks,
                 crossed>>

(* A later hook or the service raises, or answers with request_fulfilled   *)
(* False; the work may have been done before, nobody looks at that.        *)
Fail(r) ==
  /\ pc[r] = "serving"
  /\ outcome' = [outcome EXCEPT ![r] = "failed"]
  /\ freed' = [freed EXCEPT ![r] = <<entity, Path(r)>>]
  /\ pc' = [pc EXCEPT ![r] = "release"]
  /\ UNCHANGED <<rows, entity, now, scope, started, crashes, marks, crossed>>

MutantDeleted(r) == {row \in rows : Holds(row, freed[r], KeyOf[r]) /\ ~Live(row)}
Deleted(r) == {row \in rows : Holds(row, freed[r], KeyOf[r])}

Release(r) ==
  /\ pc[r] = "release"
  /\ rows' = rows \ Deleted(r)
  /\ pc' = [pc EXCEPT ![r] = "done"]
  /\ UNCHANGED <<entity, now, scope, freed, started, outcome, crashes,
                 marks, crossed>>

ReleaseFails(r) ==
  /\ pc[r] = "release"
  /\ End(r, "stuck")
  /\ UNCHANGED <<rows, entity, now, scope, freed, started, crashes, marks,
                 crossed>>

-----------------------------------------------------------------------------
(* Environment *)

(* The worker is restarted: its requests are gone, the table stays.        *)
Crash ==
  /\ crashes < MaxCrashes
  /\ InFlight # {}
  /\ crashes' = crashes + 1
  /\ entity' = AnyEntity
  /\ pc' = [r \in Requests |-> IF r \in InFlight THEN "done" ELSE pc[r]]
  /\ outcome' = [r \in Requests |-> IF r \in InFlight THEN "lost" ELSE outcome[r]]
  /\ UNCHANGED <<rows, now, scope, freed, started, marks, crossed>>

Tick ==
  /\ now < EndOfTime
  /\ \A r \in InFlight : now < started[r] + MaxHandling
  /\ now' = now + 1
  /\ UNCHANGED <<rows, entity, handling, crashes, marks, crossed>>

Handle(r) == \/ Check(r) \/ Reject(r) \/ Insert(r)
             \/ \E b \in BOOLEAN : CheckFails(r, b)
             \/ Fulfil(r) \/ Fail(r) \/ Release(r) \/ ReleaseFails(r)

Next == \/ \E r \in Requests : Arrive(r) \/ ArriveWithoutKey(r) \/ Handle(r)
        \/ Crash \/ Tick

(* A worker goes on with the requests it has, and time passes.             *)
Spec == Init /\ [][Next]_vars
FairSpec == Spec /\ WF_vars(Tick) /\ \A r \in Requests : WF_vars(Handle(r))

-----------------------------------------------------------------------------
(* Properties *)

Rows == [key : {KeyOf[r] : r \in Requests}, scope : Scopes,
         time : 0..EndOfTime, owner : Requests]

TypeOK ==
  /\ rows \subseteq Rows
  /\ entity \in Entities \cup {AnyEntity}
  /\ now \in 0..EndOfTime
  /\ pc \in [Requests -> {"new", "check", "insert", "serving", "release", "done"}]
  /\ scope \in [Requests -> Scopes \cup {NoScope}]
  /\ freed \in [Requests -> Scopes \cup {NoScope}]
  /\ started \in [Requests -> 0..EndOfTime]
  /\ outcome \in [Requests -> {"none", "rejected", "fulfilled", "failed",
                               "stuck", "lost"}]
  /\ crashes \in 0..MaxCrashes
  /\ since \in [Requests -> 0..EndOfTime \cup {Never}]
  /\ doubled \subseteq Scopes \X {KeyOf[r] : r \in Requests}
  /\ crossed \subseteq Requests

RowsOf(r) == {row \in rows : row.owner = r}
SameKey(r, q) == KeyOf[r] = KeyOf[q] /\ scope[r] = scope[q]
Within(r, q) == /\ since[r] # Never /\ since[q] # Never
                /\ since[r] - since[q] < TTL /\ since[q] - since[r] < TTL

(* A duplicate that was rejected never frees the key of the request that   *)
(* holds it, whatever its own response: tests/test_middlewares.py, "same   *)
(* (though unfulfilled) request can not drop the lock".  Rows disappear    *)
(* only at the hands of a request that got past the check.                 *)
OnlyHoldersRelease ==
  [][rows \subseteq rows' \/
     \E r \in Requests : /\ pc[r] = "release" /\ pc'[r] = "done"
                        /\ since[r] # Never
                        /\ \A row \in rows \ rows' : row.key = KeyOf[r]]_vars

(* Somebody freed the key in this scope, who had taken it in another one.  *)
Robbed(r) == \E p \in Requests : /\ KeyOf[p] = KeyOf[r]
                                 /\ freed[p] = scope[r] /\ scope[p] # scope[r]

(* Requests of a key are fulfilled at most once in a TTL, by any entities: *)
(* crashes, lost statements, failed releases and expiries open no second   *)
(* way in.  Two things do, and nothing else: the table held two live rows  *)
(* of the key, or a request of another entity released it, with the scope  *)
(* that get_scope reads off the class.                                     *)
OncePerWindowUnlessDoubled ==
  \A r, q \in Requests :
    /\ r # q /\ SameKey(r, q)
    /\ outcome[r] = "fulfilled" /\ outcome[q] = "fulfilled"
    /\ <<scope[r], KeyOf[r]>> \notin doubled /\ ~Robbed(r)
    => ~Within(r, q)

(* A request that failed and could talk to the database has given its key  *)
(* back: idempotency_key.py 64, "until previous request finished with some *)
(* error (key will be deleted)".  Only who was crossed by another entity   *)
(* may leave his row, as get_scope of process_response then names the      *)
(* other one.                                                              *)
FailureFreesKeyUnlessCrossed ==
  \A r \in Requests \ crossed :
    pc[r] = "done" /\ outcome[r] = "failed" /\ freed[r] # NoScope =>
      RowsOf(r) = {}

(* The same transfer "can't happen twice" (idempotency_key.py 23-25): of   *)
(* the requests with one key at most one is fulfilled in a TTL.            *)
TransferOnce ==
  \A r, q \in Requests :
    /\ r # q /\ SameKey(r, q)
    /\ outcome[r] = "fulfilled" /\ outcome[q] = "fulfilled"
    => ~Within(r, q)

(* A key that no fulfilled request holds comes free, by the release or by  *)
(* the TTL, also after a crash and after a lost statement.                 *)
UnfulfilledKeyComesFree ==
  \A r \in Requests :
    (\E row \in RowsOf(r) : outcome[r] # "fulfilled")
      ~> (outcome[r] = "fulfilled" \/ ~\E row \in RowsOf(r) : Live(row))
=============================================================================
