--------------------------- MODULE RequestPipeline ---------------------------
(***************************************************************************)
(* One request, or one message of the queue, on its way through            *)
(* RequestHandler.make_response: the request hooks of the gateway          *)
(* middlewares, the service method, the response hooks, and the caller     *)
(* that turns the result into an HTTP reply or into a verdict on the       *)
(* message.  Hooks and service methods are user code: each call returns    *)
(* nothing, a response or an object of another type, or raises, and the    *)
(* model tries them all.                                                   *)
(* A cancelled task (Sanic's request timeout) raises at the same places    *)
(* and is one of the "crash" outcomes.                                     *)
(***************************************************************************)
EXTENDS Naturals, FiniteSets

CONSTANTS NumHooks,         \* length of SERVICES_PIPELINE_MIDDLEWARES
          WebhookFriendly,  \* positions of the webhook_friendly middlewares
          MaxDeliveries     \* bound: how often a message may come back

ASSUME PipelineAssumption == /\ NumHooks \in Nat
                             /\ WebhookFriendly \subseteq 1..NumHooks
                             /\ MaxDeliveries \in Nat \ {0}

Hooks == 1..NumHooks

(* A response is known by who made it.  A raw object is no ServiceResponse, *)
(* an HttpResponse of Sanic for example; a falsy one is as good as None.   *)
NoResponse  == [kind |-> "none", by |-> 0]
Served      == [kind |-> "service", by |-> 0]
RawBy(i)    == [kind |-> "raw", by |-> i]
Raw         == RawBy(0)
EarlyBy(i)  == [kind |-> "early", by |-> i]
OverrideBy(i) == [kind |-> "override", by |-> i]

ServiceResponses == {Served} \cup {EarlyBy(i) : i \in Hooks}
                             \cup {OverrideBy(i) : i \in Hooks}
Responses == ServiceResponses \cup {RawBy(i) : i \in Hooks} \cup {NoResponse, Raw}

(* What a hook may return: the types are annotations that nothing checks.  *)
EarlyAnswers(i)    == {NoResponse, EarlyBy(i), RawBy(i)}
OverrideAnswers(i) == {NoResponse, OverrideBy(i), RawBy(i)}

(* A BaseApiException with client_retry, one without, anything else.       *)
Errors == {"retry", "permanent", "crash"}

VARIABLES
  source,      \* "http" or "mq": who called make_response
  webhook,     \* service_request.is_webhook
  phase,       \* where make_response is
  next,        \* position of the loop over the middlewares
  running,     \* service_response, local to _run_gateway_middlewares
  response,    \* service_response, local to make_response
  error,       \* the exception in flight
  verdict,     \* what the caller made of it
  deliveries,  \* times the message was handed to the handler
  ran,         \* history: calls of each hook, by phase
  responders,  \* history: hooks that answered in the request phase
  overriders,  \* history: hooks that answered in the response phase
  cause,       \* history: error of the request phase or of the service
  called,      \* history: the service method was called
  aborted      \* history: a response hook raised

caller  == <<source, webhook>>
history == <<ran, responders, overriders, cause, called, aborted>>
vars == <<caller, phase, next, running, response, error, verdict, deliveries,
          history>>

(* Webhooks are HTTP callbacks; a message may name a webhook method too.   *)
Init == /\ source \in {"http", "mq"}
        /\ webhook \in BOOLEAN
        /\ phase = "request" /\ next = 1
        /\ running = NoResponse /\ response = NoResponse
        /\ error = "none" /\ verdict = "pending" /\ deliveries = 1
        /\ ran = [p \in {"request", "response"} |-> [i \in Hooks |-> 0]]
        /\ responders = {} /\ overriders = {}
        /\ cause = "none" /\ called = FALSE /\ aborted = FALSE

-----------------------------------------------------------------------------
(* The loop of _run_gateway_middlewares *)

Applicable(i) == ~webhook \/ i \in WebhookFriendly

LoopLength == NumHooks

AtHook(p, i) == phase = p /\ i = next /\ i \in 1..LoopLength /\ Applicable(i)
Ran(p, i) == ran' = [ran EXCEPT ![p][i] = @ + 1]

SkipHook ==
  /\ phase \in {"request", "response"}
  /\ next <= LoopLength
  /\ ~Applicable(next)
  /\ next' = next + 1
  /\ UNCHANGED <<caller, phase, running, response, error, verdict, deliveries,
                 history>>

(* The first response of the request phase is kept, later ones dropped.    *)
MutantKept(answer) == IF answer = NoResponse THEN running ELSE answer
Kept(answer) == IF running = NoResponse THEN answer ELSE running

RequestHookReturns(i, answer) ==
  /\ AtHook("request", i)
  /\ next' = next + 1
  /\ running' = Kept(answer)
  /\ responders' = IF answer = NoResponse THEN responders ELSE responders \cup {i}
  /\ Ran("request", i)
  /\ UNCHANGED <<caller, phase, response, error, verdict, deliveries,
                 overriders, cause, called, aborted>>

(* The try block is left: the finally block starts the response phase      *)
(* with make_response's own variable, a response of the loop is lost.      *)
MutantOutgoing(r) == phase' = "reply" /\ next' = 1 /\ running' = r
Outgoing(r) == phase' = "response" /\ next' = 1 /\ running' = r

RequestHookRaises(i, e) ==
  /\ AtHook("request", i)
  /\ Ran("request", i)
  /\ error' = e /\ cause' = e
  /\ Outgoing(response)
  /\ UNCHANGED <<caller, response, verdict, deliveries, responders,
                 overriders, called, aborted>>

-----------------------------------------------------------------------------
(* make_response between the loops *)

MutantServiceNeeded == TRUE
ServiceNeeded == running = NoResponse

CallService ==
  /\ phase = "request" /\ next > LoopLength
  /\ ServiceNeeded
  /\ phase' = "service"
  /\ called' = TRUE
  /\ UNCHANGED <<caller, next, running, response, error, verdict, deliveries,
                 ran, responders, overriders, cause, aborted>>

AnswerWithoutService ==
  /\ phase = "request" /\ next > LoopLength
  /\ ~ServiceNeeded
  /\ response' = running
  /\ Outgoing(running)
  /\ UNCHANGED <<caller, error, verdict, deliveries, history>>

(* The assertion on the type comes after the assignment.                   *)
MutantServiceError(r) == "none"
ServiceError(r) == IF r = Served THEN "none" ELSE "crash"

ServiceReturns(r) ==
  /\ phase = "service"
  /\ response' = r
  /\ error' = ServiceError(r) /\ cause' = ServiceError(r)
  /\ Outgoing(r)
  /\ UNCHANGED <<caller, verdict, deliveries, ran, responders, overriders,
                 called, aborted>>

ServiceRaises(e) ==
  /\ phase = "service"
  /\ error' = e /\ cause' = e
  /\ Outgoing(NoResponse)
  /\ UNCHANGED <<caller, response, verdict, deliveries, ran, responders,
                 overriders, called, aborted>>

-----------------------------------------------------------------------------
(* The finally block *)

ResponseHookReturns(i, answer) ==
  /\ AtHook("response", i)
  /\ next' = next + 1
  /\ running' = IF answer = NoResponse THEN running ELSE answer
  /\ overriders' = IF answer = NoResponse THEN overriders ELSE overriders \cup {i}
  /\ Ran("response", i)
  /\ UNCHANGED <<caller, phase, response, error, verdict, deliveries,
                 responders, cause, called, aborted>>

(* An exception of a response hook ends the loop and replaces the one in   *)
(* flight.                                                                 *)
ResponseHookRaises(i, e) ==
  /\ AtHook("response", i)
  /\ Ran("response", i)
  /\ error' = e
  /\ aborted' = TRUE
  /\ phase' = "reply"
  /\ UNCHANGED <<caller, next, running, response, verdict, deliveries,
                 responders, overriders, cause, called>>

(* The assertion on what the loop left looks at the variable that          *)
(* make_response had before: it lets a raw object of a response hook pass  *)
(* behind a ServiceResponse, and refuses any answer behind none.           *)
OldResponseChecked == response \in ServiceResponses

EndOutgoing ==
  /\ phase = "response" /\ next > LoopLength
  /\ phase' = "reply"
  /\ IF running = NoResponse
       THEN UNCHANGED <<response, error>>
       ELSE IF OldResponseChecked
              THEN response' = running /\ error' = error
              ELSE response' = response /\ error' = "crash"
  /\ UNCHANGED <<caller, next, running, verdict, deliveries, history>>

-----------------------------------------------------------------------------
(* The callers: request_handler of the blueprint, GatewayMQHandler.handle  *)

(* Only a ServiceResponse can be rendered, and no response is an error; the *)
(* queue does not look at the response.                                    *)
MutantHttpVerdict == IF response # NoResponse THEN "answered" ELSE "error"
HttpVerdict == IF error = "none" /\ response \in ServiceResponses
                 THEN "answered" ELSE "error"
MutantMqVerdict == CASE error = "none"  -> "ack"
                     [] error = "crash" -> "abandon"
                     [] OTHER           -> "requeue"
MqVerdict == CASE error = "none"  -> "ack"
               [] error = "retry" -> "requeue"
               [] OTHER           -> "abandon"

Reply ==
  /\ phase = "reply"
  /\ phase' = "done"
  /\ verdict' = IF source = "http" THEN HttpVerdict ELSE MqVerdict
  /\ UNCHANGED <<caller, next, running, response, error, deliveries, history>>

(* The broker hands a requeued message to the handler again.               *)
Redeliver ==
  /\ phase = "done" /\ verdict = "requeue"
  /\ deliveries < MaxDeliveries
  /\ deliveries' = deliveries + 1
  /\ phase' = "request" /\ next' = 1
  /\ running' = NoResponse /\ response' = NoResponse
  /\ error' = "none" /\ verdict' = "pending"
  /\ ran' = [p \in {"request", "response"} |-> [i \in Hooks |-> 0]]
  /\ responders' = {} /\ overriders' = {}
  /\ cause' = "none" /\ called' = FALSE /\ aborted' = FALSE
  /\ UNCHANGED caller

Incoming == \E i \in Hooks :
              \/ \E answer \in EarlyAnswers(i) : RequestHookReturns(i, answer)
              \/ \E e \in Errors : RequestHookRaises(i, e)
Service == \/ CallService
           \/ AnswerWithoutService
           \/ \E r \in {NoResponse, Raw, Served} : ServiceReturns(r)
           \/ \E e \in Errors : ServiceRaises(e)
Closing == \/ \E i \in Hooks :
                \/ \E answer \in OverrideAnswers(i) : ResponseHookReturns(i, answer)
                \/ \E e \in Errors : ResponseHookRaises(i, e)
           \/ EndOutgoing

Step == SkipHook \/ Incoming \/ Service \/ Closing \/ Reply
Next == Step \/ Redeliver

(* The event loop resumes the handler's task until it ends.  Nothing       *)
(* forces the broker to redeliver.                                         *)
Spec == Init /\ [][Next]_vars
FairSpec == Spec /\ WF_vars(Step)

-----------------------------------------------------------------------------
(* Properties *)

TypeOK ==
  /\ source \in {"http", "mq"} /\ webhook \in BOOLEAN
  /\ phase \in {"request", "service", "response", "reply", "done"}
  /\ next \in 1..(NumHooks + 1)
  /\ running \in Responses /\ response \in Responses
  /\ error \in Errors \cup {"none"} /\ cause \in Errors \cup {"none"}
  /\ verdict \in {"pending", "answered", "error", "ack", "requeue", "abandon"}
  /\ deliveries \in 1..MaxDeliveries
  /\ ran \in [{"request", "response"} -> [Hooks -> Nat]]
  /\ responders \subseteq Hooks /\ overriders \subseteq Hooks
  /\ called \in BOOLEAN /\ aborted \in BOOLEAN

Succeeded == verdict \in {"answered", "ack"}
Least(S) == CHOOSE i \in S : \A j \in S : i <= j
Greatest(S) == CHOOSE i \in S : \A j \in S : j <= i

(* The service method runs only after every request hook that applies to   *)
(* the request has run, exactly once, without raising and without          *)
(* answering for it; hooks that do not apply to a webhook never run        *)
(* (make_response 244-246, _run_gateway_middlewares 287-297).              *)
ServiceBehindAllHooks ==
  called => /\ responders = {}
            /\ \A i \in Hooks :
                 ran["request"][i] = IF webhook /\ i \notin WebhookFriendly
                                       THEN 0 ELSE 1

(* What a successful caller gets was made by the last response hook that   *)
(* answered, else by the first request hook that answered, else by the     *)
(* service: the docstring of _run_gateway_middlewares, 272-278.  Only the  *)
(* response hook may have made an object of another type: an early answer  *)
(* of another type ends in an error, whatever the response hooks return.   *)
AnswerProvenance ==
  Succeeded =>
    IF overriders # {}
      THEN \/ response = OverrideBy(Greatest(overriders))
           \/ response = RawBy(Greatest(overriders))
      ELSE response = IF responders # {} THEN EarlyBy(Least(responders))
                                         ELSE Served

(* A request that failed in a request hook or in the service is never      *)
(* reported as a success, whatever the response hooks return: the finally  *)
(* block at 257-263 raises on.  No caller is left without a response and   *)
(* without an error either, so the check of request_handler for an empty   *)
(* one (views.py 29-30) never bites; but the response need not be a        *)
(* ServiceResponse.  The assertions keep out the objects of the service    *)
(* and of the request hooks, and let pass those of a response hook.        *)
FailureStaysFailure ==
  /\ cause # "none" => ~Succeeded
  /\ phase = "reply" /\ error = "none" =>
       response \in ServiceResponses \cup {RawBy(i) : i \in overriders}

(* When make_response ends, every response hook that applies has run once, *)
(* also those whose request hook never ran and whatever failed before;     *)
(* only an exception of a response hook cuts the phase short, and then no  *)
(* hook behind it has run.                                                 *)
EveryResponseHookRuns ==
  phase \in {"reply", "done"} =>
    \A i \in Hooks :
      ran["response"][i] = IF Applicable(i) /\ (~aborted \/ i <= next)
                             THEN 1 ELSE 0

(* A message whose handling failed with client_retry is given back to the  *)
(* queue, unless a response hook answered for it or raised in turn; the    *)
(* queue never gets back a message that was handled without an error.      *)
RetryKeepsMessage ==
  phase = "done" /\ source = "mq" /\ overriders = {} /\ ~aborted =>
    (verdict = "requeue" <=> cause = "retry")

(* What RequestContract sees of a request.                                 *)
Stage == CASE phase \in {"request", "service"} -> "incoming"
           [] phase \in {"response", "reply"}  -> "closing"
           [] OTHER -> "done"
Outcome == CASE verdict = "pending" -> "pending"
             [] Succeeded -> "success"
             [] OTHER -> "failure"

Contract == INSTANCE RequestContract WITH stage   <- Stage,
                                          served  <- called,
                                          failed  <- cause # "none",
                                          outcome <- Outcome

(* The pipeline implements the contract, fairness included.                *)
ImplementsContract == Contract!FairSpec

=============================================================================
