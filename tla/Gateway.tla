------------------------------- MODULE Gateway -------------------------------
(***************************************************************************)
(* The pipeline with the middlewares of the configuration: start time,     *)
(* authentication, idempotency key, rate limiting, billing, cache and log, *)
(* around one call that a client may repeat, or that comes as a message.   *)
(* RequestPipeline, which it extends, says when a hook is called and what  *)
(* follows from its outcome; this module says what each of the seven hooks *)
(* does.  One call at a time: what concurrent calls do to the key and to   *)
(* the counters is the subject of IdempotencyKey and RateLimiting.         *)
(***************************************************************************)
EXTENDS RequestPipeline

CONSTANTS Quota,        \* calls before the limit of the sender is met
          MaxAttempts   \* bound: how often a client sends its call

ASSUME GatewayAssumption == Quota \in Nat /\ MaxAttempts \in Nat \ {0}

VARIABLES
  config,     \* the configuration module of the gateway
  call,       \* the method called, its token, has it an idempotency key
  built,      \* the ServiceRequest was made of the HTTP request or message
  key,        \* the row of the key in the table: "free" or "held"
  mine,       \* the extension _idempotency_key: this attempt inserted it
  entity,     \* the class ServiceRequest has an entity_id
  usage,      \* the counter of the sender in Redis
  cached,     \* Redis has an answer for the call
  charged,    \* what this attempt was charged: quota, cost
  fulfilment, \* request_fulfilled of the response of this attempt
  attempts,   \* times the client has sent its call
  fulfilled,  \* history: attempts whose response was a fulfilled one
  broke       \* history: a response hook or a statement for the key failed

Start   == 1
Auth    == 2
Idem    == 3
Limit   == 4
Billing == 5
Cache   == 6
Log     == 7

(* SERVICES_PIPELINE_MIDDLEWARES, and the webhook friendly among them.     *)
Configured == NumHooks = 7 /\ WebhookFriendly = {Start, Idem, Log}

fixed    == <<config, call>>
stores   == <<key, usage, cached>>
attempt  == <<built, mine, charged, fulfilment>>
tally    == <<attempts, fulfilled, broke>>
gatewayVars == <<vars, fixed, stores, attempt, entity, tally>>

(* local asks for no token; local and dev leave position 6 empty; prod      *)
(* publishes its log, and in debug mode a failure to do so is raised.      *)
Configs == [tokenless : BOOLEAN, cache : BOOLEAN, loud : BOOLEAN]
LocalConfig == [tokenless |-> TRUE,  cache |-> FALSE, loud |-> FALSE]
DevConfig   == [tokenless |-> FALSE, cache |-> FALSE, loud |-> FALSE]
StageConfig == [tokenless |-> FALSE, cache |-> TRUE,  loud |-> FALSE]
ProdConfig  == [tokenless |-> FALSE, cache |-> TRUE,  loud |-> TRUE]

(* rates is called by GET and asks to be cached; submit may answer that    *)
(* nothing was to be done; address is taxes_for_address, which returns no  *)
(* ServiceResponse; callback is a webhook; nonsense names no method.       *)
Methods == {"rates", "send", "submit", "address", "callback", "nonsense"}
Priced == {"rates", "send"}
Calls == [method : Methods, token : {"valid", "bad", "none"}, keyed : BOOLEAN]

(* A message has no headers and no query: neither a token nor a key.       *)
Sent == /\ source = "http" => call.method # "nonsense"
        /\ source = "mq" => call.token = "none" /\ ~call.keyed
        /\ webhook = (call.method = "callback")

GatewayInit ==
  /\ Init /\ Configured
  /\ config \in {LocalConfig, DevConfig, StageConfig, ProdConfig}
  /\ call \in Calls /\ Sent
  /\ built = (source = "http")
  /\ key = "free" /\ usage = 0 /\ cached = FALSE /\ entity = FALSE
  /\ mine = FALSE /\ charged = {} /\ fulfilment = "none"
  /\ attempts = 1 /\ fulfilled = 0 /\ broke = FALSE

-----------------------------------------------------------------------------
(* A message becomes a ServiceRequest *)

Build == /\ ~built /\ call.method # "nonsense"
         /\ built' = TRUE
         /\ UNCHANGED <<vars, fixed, stores, mine, charged, fulfilment,
                        entity, tally>>

-----------------------------------------------------------------------------
(* The request hooks *)

Pass(i) == built /\ RequestHookReturns(i, NoResponse)
Refuse(i, e) == RequestHookRaises(i, e)

NoRequestHook == /\ \E i \in {Start, Billing, Log} : Pass(i)
                 /\ UNCHANGED <<fixed, stores, attempt, entity, tally>>

Authorized == call.token = "valid" \/ (call.token = "none" /\ config.tokenless)

Authenticate ==
  /\ Authorized /\ Pass(Auth)
  /\ entity' = TRUE
  /\ UNCHANGED <<fixed, stores, attempt, tally>>

(* An expired token is none of the errors that the middleware catches.     *)
Unauthorized ==
  /\ ~Authorized
  /\ \/ Refuse(Auth, "permanent")
     \/ call.token = "bad" /\ Refuse(Auth, "crash")
  /\ UNCHANGED <<fixed, stores, attempt, entity, tally>>

WithoutKey == /\ ~call.keyed /\ Pass(Idem)
              /\ UNCHANGED <<fixed, stores, attempt, entity, tally>>

InsertKey ==
  /\ call.keyed /\ key = "free" /\ Pass(Idem)
  /\ key' = "held" /\ mine' = TRUE
  /\ UNCHANGED <<fixed, usage, cached, built, charged, fulfilment, entity,
                 tally>>

DuplicateKey == /\ call.keyed /\ key = "held" /\ Refuse(Idem, "permanent")
                /\ UNCHANGED <<fixed, stores, attempt, entity, tally>>

(* A statement fails, having taken effect or not.                          *)
CheckFails ==
  /\ call.keyed /\ Refuse(Idem, "crash")
  /\ key' \in {key, "held"}
  /\ broke' = TRUE
  /\ UNCHANGED <<fixed, usage, cached, attempt, entity, attempts, fulfilled>>

MutantWithinQuota == /\ Pass(Limit)
                     /\ UNCHANGED <<fixed, stores, attempt, entity, tally>>
WithinQuota == /\ usage # Quota /\ Pass(Limit)
               /\ UNCHANGED <<fixed, stores, attempt, entity, tally>>

QuotaSpent == /\ usage = Quota /\ Refuse(Limit, "permanent")
              /\ UNCHANGED <<fixed, stores, attempt, entity, tally>>

(* Only HTTP requests have a method; the other calls use POST.             *)
Cacheable == config.cache /\ source = "http" /\ call.method = "rates"

CacheMiss == /\ ~(Cacheable /\ cached) /\ Pass(Cache)
             /\ UNCHANGED <<fixed, stores, attempt, entity, tally>>

CacheHit ==
  /\ Cacheable /\ cached
  /\ RequestHookReturns(Cache, EarlyBy(Cache))
  /\ fulfilment' = "fulfilled" /\ fulfilled' = fulfilled + 1
  /\ UNCHANGED <<fixed, stores, built, mine, charged, entity, attempts, broke>>

RedisFails == /\ \/ Refuse(Limit, "crash")
                 \/ Cacheable /\ Refuse(Cache, "crash")
              /\ UNCHANGED <<fixed, stores, attempt, entity, tally>>

-----------------------------------------------------------------------------
(* The service method *)

Dispatch == /\ CallService \/ AnswerWithoutService
            /\ UNCHANGED <<fixed, stores, attempt, entity, tally>>

Fulfil ==
  /\ call.method # "address"
  /\ ServiceReturns(Served)
  /\ fulfilment' = "fulfilled" /\ fulfilled' = fulfilled + 1
  /\ UNCHANGED <<fixed, stores, built, mine, charged, entity, attempts, broke>>

NothingToDo ==
  /\ call.method = "submit"
  /\ ServiceReturns(Served)
  /\ fulfilment' = "unfulfilled"
  /\ UNCHANGED <<fixed, stores, built, mine, charged, entity, tally>>

(* What the client sent under "test" is returned as it is.                 *)
NoServiceResponse ==
  /\ call.method = "address"
  /\ \E r \in {Raw, NoResponse} : ServiceReturns(r)
  /\ UNCHANGED <<fixed, stores, attempt, entity, tally>>

ServiceFails == /\ \E e \in Errors : ServiceRaises(e)
                /\ UNCHANGED <<fixed, stores, attempt, entity, tally>>

-----------------------------------------------------------------------------
(* The response hooks *)

End(i) == ResponseHookReturns(i, NoResponse)
Break(i) == ResponseHookRaises(i, "crash") /\ broke' = TRUE

NoResponseHook ==
  /\ End(Start) \/ End(Auth)
  /\ UNCHANGED <<fixed, stores, attempt, entity, tally>>

MutantReleases == mine
MutantReleasesOnError == mine /\ error = "permanent"
Releases == mine /\ (running = NoResponse \/ fulfilment = "unfulfilled")
(* A hook that reads an attribute of a ServiceResponse from another object. *)
Misread(i) == /\ running = Raw
              /\ \/ i = Idem /\ mine
                 \/ i = Limit
                 \/ i = Log

KeepKey == /\ ~Releases /\ ~Misread(Idem) /\ End(Idem)
           /\ UNCHANGED <<fixed, stores, attempt, entity, tally>>

ReleaseKey == /\ Releases /\ End(Idem)
              /\ key' = "free"
              /\ UNCHANGED <<fixed, usage, cached, attempt, entity, tally>>

ReleaseFails ==
  /\ Releases /\ Break(Idem)
  /\ key' \in {key, "free"}
  /\ UNCHANGED <<fixed, usage, cached, attempt, entity, attempts, fulfilled>>

MisreadResponse ==
  /\ \E i \in {Idem, Limit, Log} : Misread(i) /\ Break(i)
  /\ UNCHANGED <<fixed, stores, attempt, entity, attempts, fulfilled>>

(* Nobody limited answers with an unfulfilled response.                    *)
MutantCharges == entity
Charges == running # NoResponse /\ entity

(* The counting task may fail without anybody noticing.                    *)
Count ==
  /\ Charges /\ ~Misread(Limit) /\ End(Limit)
  /\ usage' \in {usage, usage + 1}
  /\ charged' = charged \cup {"quota"}
  /\ UNCHANGED <<fixed, key, cached, built, mine, fulfilment, entity, tally>>

Bill == /\ Charges /\ call.method \in Priced /\ End(Billing)
        /\ charged' = charged \cup {"cost"}
        /\ UNCHANGED <<fixed, stores, built, mine, fulfilment, entity, tally>>

NoCharge == /\ \/ ~Charges /\ End(Limit)
               \/ ~(Charges /\ call.method \in Priced) /\ End(Billing)
            /\ UNCHANGED <<fixed, stores, attempt, entity, tally>>

(* An answer from the cache does not ask to be cached.                     *)
Stores == Cacheable /\ running = Served

StoreAnswer == /\ Stores /\ End(Cache)
               /\ cached' = TRUE
               /\ UNCHANGED <<fixed, key, usage, attempt, entity, tally>>

MutantNothingToStore ==
  /\ ~Cacheable /\ End(Cache)
  /\ UNCHANGED <<fixed, stores, attempt, entity, tally>>
NothingToStore == /\ ~Stores /\ End(Cache)
                  /\ UNCHANGED <<fixed, stores, attempt, entity, tally>>

WriteLog == /\ ~Misread(Log) /\ End(Log)
            /\ UNCHANGED <<fixed, stores, attempt, entity, tally>>

(* Redis, or the queue of the log, cannot be reached.                      *)
WriteFails ==
  /\ \/ Charges /\ ~Misread(Limit) /\ Break(Limit) /\ UNCHANGED cached
     \/ Stores /\ Break(Cache) /\ cached' \in {cached, TRUE}
     \/ config.loud /\ ~Misread(Log) /\ Break(Log) /\ UNCHANGED cached
  /\ UNCHANGED <<fixed, key, usage, attempt, entity, attempts, fulfilled>>

Finish == /\ SkipHook \/ EndOutgoing \/ Reply
          /\ UNCHANGED <<fixed, stores, attempt, entity, tally>>

-----------------------------------------------------------------------------
(* The client, the broker, and what Redis forgets *)

FreshAttempt == /\ built' = (source = "http")
                /\ mine' = FALSE /\ charged' = {} /\ fulfilment' = "none"

(* A client sends its call again, whatever it was told, if it was.         *)
Repeat ==
  /\ source = "http" /\ phase = "done" /\ attempts < MaxAttempts
  /\ attempts' = attempts + 1
  /\ phase' = "request" /\ next' = 1
  /\ running' = NoResponse /\ response' = NoResponse
  /\ error' = "none" /\ verdict' = "pending"
  /\ ran' = [p \in {"request", "response"} |-> [i \in Hooks |-> 0]]
  /\ responders' = {} /\ overriders' = {}
  /\ cause' = "none" /\ called' = FALSE /\ aborted' = FALSE
  /\ FreshAttempt
  /\ UNCHANGED <<source, webhook, deliveries, fixed, stores, entity, fulfilled,
                 broke>>

Redelivery == /\ Redeliver /\ FreshAttempt
              /\ UNCHANGED <<fixed, stores, entity, tally>>

Expire == /\ \/ cached /\ cached' = FALSE /\ UNCHANGED usage
             \/ usage > 0 /\ usage' = 0 /\ UNCHANGED cached
          /\ UNCHANGED <<vars, fixed, key, attempt, entity, tally>>

RequestHook == \/ NoRequestHook \/ Authenticate \/ Unauthorized \/ WithoutKey
               \/ InsertKey \/ DuplicateKey \/ CheckFails \/ WithinQuota
               \/ QuotaSpent \/ CacheMiss \/ CacheHit \/ RedisFails
ServiceMethod == \/ Dispatch \/ Fulfil \/ NothingToDo
                 \/ NoServiceResponse \/ ServiceFails
ResponseHook == \/ NoResponseHook \/ KeepKey \/ ReleaseKey \/ ReleaseFails
                \/ MisreadResponse \/ Count \/ Bill \/ NoCharge \/ StoreAnswer
                \/ NothingToStore \/ WriteLog \/ WriteFails
Handle == Build \/ RequestHook \/ ServiceMethod \/ ResponseHook \/ Finish

GatewayNext == Handle \/ Repeat \/ Redelivery \/ Expire

(* The event loop resumes the handler until it ends.                       *)
GatewaySpec == GatewayInit /\ [][GatewayNext]_gatewayVars
                           /\ WF_gatewayVars(Handle)

-----------------------------------------------------------------------------
(* Properties *)

GatewayTypeOK ==
  /\ TypeOK
  /\ config \in Configs /\ call \in Calls /\ Sent
  /\ built \in BOOLEAN /\ key \in {"free", "held"} /\ mine \in BOOLEAN
  /\ entity \in BOOLEAN /\ usage \in 0..Quota /\ cached \in BOOLEAN
  /\ charged \subseteq {"quota", "cost"}
  /\ fulfilment \in {"none", "unfulfilled", "fulfilled"}
  /\ attempts \in 1..MaxAttempts /\ fulfilled \in Nat /\ broke \in BOOLEAN

(* A client that repeats its call with its key, whatever it was told and   *)
(* whichever hook failed at whichever end of the pipeline, is served once: *)
(* an answer that a later hook turned into an error keeps the key.         *)
FulfilledOncePerKey == call.keyed => fulfilled <= 1

(* At rest, the key of a call that was never fulfilled is free: a refusal  *)
(* by the quota, an error of the cache or of the service give it back,     *)
(* unless a statement for the key or a response hook failed.  One that     *)
(* always does is behind taxes_for_address, whose answer the response      *)
(* hooks cannot read (idempotency_key.py 88).                              *)
HeldKeyMeansFulfilled ==
  phase = "done" /\ key = "held" /\ fulfilled = 0 => broke

(* Neither the quota nor the account of a client is charged for a call     *)
(* that a hook refused or that the service failed.                         *)
NothingChargedForFailures == charged # {} => cause = "none"

(* Every call comes to a reply or a verdict, except a message that names   *)
(* no method: its error leaves the handler before the try (mq.py 84).      *)
EveryCallIsSettled ==
  phase = "request" /\ call.method # "nonsense" ~> phase = "done"
=============================================================================
