------------------------ MODULE RequestPipelineProofs ------------------------
(***************************************************************************)
(* Theorems of RequestPipeline, for every number of middlewares, every set *)
(* of webhook friendly ones and every number of deliveries: the invariants *)
(* of the runs, and that the pipeline implements RequestContract.  Then    *)
(* theorems of Gateway, which fills the hooks of a pipeline of seven: each *)
(* of its steps is one of the pipeline's, or outside of it.                *)
(***************************************************************************)
EXTENDS Gateway, TLAPS

(* What each phase may rely on.  A loop has run the hooks it has passed;   *)
(* an error of the request phase or of the service stays in flight; what   *)
(* goes into the reply without an error is a response, or the object of a  *)
(* response hook that came after a response.                               *)
RanBefore(p) == \A i \in Hooks :
                  ran[p][i] = IF i < next /\ Applicable(i) THEN 1 ELSE 0
RanNone(p) == \A i \in Hooks : ran[p][i] = 0

Passed == ServiceResponses \cup {RawBy(i) : i \in overriders}

InRequest == /\ ~called /\ ~aborted /\ cause = "none" /\ error = "none"
             /\ response = NoResponse
             /\ running = NoResponse <=> responders = {}
             /\ RanBefore("request") /\ RanNone("response")
InService == /\ called /\ ~aborted /\ cause = "none" /\ error = "none"
             /\ response = NoResponse /\ RanNone("response")
InResponse == /\ ~aborted /\ RanBefore("response")
              /\ error = "none" =>
                   /\ response # NoResponse /\ running # NoResponse
                   /\ response \in ServiceResponses => running \in Passed

Flow == /\ phase = "request"  => InRequest
        /\ phase = "service"  => InService
        /\ phase = "response" => InResponse
        /\ cause # "none" => error # "none"
        /\ phase \in {"reply", "done"} /\ error = "none" => response \in Passed
        /\ phase # "done" => verdict = "pending"
        /\ Succeeded => error = "none"

IInv == TypeOK /\ Flow /\ ServiceBehindAllHooks /\ EveryResponseHookRuns

-----------------------------------------------------------------------------
(* Types                                                                   *)

(* One more call of a hook is one more call of a hook.                     *)
LEMMA RanType ==
  ASSUME TypeOK, NEW p \in {"request", "response"}, NEW i \in Hooks, Ran(p, i)
  PROVE  /\ ran' \in [{"request", "response"} -> [Hooks -> Nat]]
         /\ ran'[p] = [ran[p] EXCEPT ![i] = @ + 1]
         /\ \A q \in {"request", "response"} \ {p} : ran'[q] = ran[q]
  BY DEF TypeOK, Ran

(* Nothing has run yet when a message is handed to the handler.            *)
LEMMA FreshType ==
  /\ 1 \in 1..(NumHooks + 1) /\ 1 \in 1..MaxDeliveries
  /\ [p \in {"request", "response"} |-> [i \in Hooks |-> 0]]
       \in [{"request", "response"} -> [Hooks -> Nat]]
  <1>1. 1 \in 1..(NumHooks + 1) /\ 1 \in 1..MaxDeliveries
    BY PipelineAssumption
  <1>2. [i \in Hooks |-> 0] \in [Hooks -> Nat]
    OBVIOUS
  <1>. QED BY <1>1, <1>2

(* The loop moves on inside its bounds.                                    *)
LEMMA StepOn ==
  ASSUME TypeOK, next <= LoopLength
  PROVE  next + 1 \in 1..(NumHooks + 1)
  BY PipelineAssumption DEF TypeOK, LoopLength

(* Who answers is a response.                                              *)
LEMMA ResponseType ==
  /\ ServiceResponses \subseteq Responses
  /\ NoResponse \in Responses /\ Raw \in Responses /\ Served \in ServiceResponses
  /\ \A i \in Hooks : /\ EarlyBy(i) \in ServiceResponses
                      /\ OverrideBy(i) \in ServiceResponses
                      /\ EarlyAnswers(i) \subseteq Responses
                      /\ OverrideAnswers(i) \subseteq Responses
  BY DEF Responses, ServiceResponses, EarlyAnswers, OverrideAnswers

(* Every step keeps the types; only here does the loop's bound matter.     *)
LEMMA NextType == TypeOK /\ [Next]_vars => TypeOK'
  <1> SUFFICES ASSUME TypeOK, [Next]_vars PROVE TypeOK'
    OBVIOUS
  <1> USE DEF caller, history
  <1>1. CASE UNCHANGED vars
    BY <1>1 DEF vars, TypeOK
  <1>2. CASE SkipHook
    BY <1>2, StepOn DEF SkipHook, TypeOK
  <1>3. ASSUME NEW i \in Hooks, NEW answer \in EarlyAnswers(i),
               RequestHookReturns(i, answer)
        PROVE  TypeOK'
    <2>1. next' \in 1..(NumHooks + 1)
      <3>1. next <= LoopLength
        BY <1>3, PipelineAssumption
        DEF RequestHookReturns, AtHook, LoopLength, TypeOK
      <3>. QED BY <1>3, <3>1, StepOn DEF RequestHookReturns
    <2>2. running' \in Responses
      BY <1>3, ResponseType DEF RequestHookReturns, Kept, TypeOK
    <2>3. ran' \in [{"request", "response"} -> [Hooks -> Nat]]
      BY <1>3, RanType DEF RequestHookReturns
    <2>. QED BY <1>3, <2>1, <2>2, <2>3 DEF RequestHookReturns, TypeOK
  <1>4. ASSUME NEW i \in Hooks, NEW e \in Errors, RequestHookRaises(i, e)
        PROVE  TypeOK'
    <2>1. ran' \in [{"request", "response"} -> [Hooks -> Nat]]
      BY <1>4, RanType DEF RequestHookRaises
    <2>. QED BY <1>4, <2>1, FreshType DEF RequestHookRaises, Outgoing, TypeOK
  <1>5. CASE CallService
    BY <1>5 DEF CallService, TypeOK
  <1>6. CASE AnswerWithoutService
    BY <1>6, FreshType DEF AnswerWithoutService, Outgoing, TypeOK
  <1>7. ASSUME NEW r \in {NoResponse, Raw, Served}, ServiceReturns(r)
        PROVE  TypeOK'
    <2>1. r \in Responses
      BY ResponseType
    <2>. QED BY <1>7, <2>1, FreshType DEF ServiceReturns, ServiceError,
                                          Outgoing, TypeOK, Errors
  <1>8. ASSUME NEW e \in Errors, ServiceRaises(e) PROVE TypeOK'
    BY <1>8, ResponseType, FreshType DEF ServiceRaises, Outgoing, TypeOK
  <1>9. ASSUME NEW i \in Hooks, NEW answer \in OverrideAnswers(i),
               ResponseHookReturns(i, answer)
        PROVE  TypeOK'
    <2>1. next' \in 1..(NumHooks + 1)
      <3>1. next <= LoopLength
        BY <1>9, PipelineAssumption
        DEF ResponseHookReturns, AtHook, LoopLength, TypeOK
      <3>. QED BY <1>9, <3>1, StepOn DEF ResponseHookReturns
    <2>2. running' \in Responses
      BY <1>9, ResponseType DEF ResponseHookReturns, TypeOK
    <2>3. ran' \in [{"request", "response"} -> [Hooks -> Nat]]
      BY <1>9, RanType DEF ResponseHookReturns
    <2>. QED BY <1>9, <2>1, <2>2, <2>3 DEF ResponseHookReturns, TypeOK
  <1>10. ASSUME NEW i \in Hooks, NEW e \in Errors, ResponseHookRaises(i, e)
         PROVE  TypeOK'
    BY <1>10, RanType DEF ResponseHookRaises, TypeOK
  <1>11. CASE EndOutgoing
    BY <1>11 DEF EndOutgoing, TypeOK, Errors
  <1>12. CASE Reply
    BY <1>12 DEF Reply, HttpVerdict, MqVerdict, TypeOK
  <1>13. CASE Redeliver
    <2>1. deliveries' \in 1..MaxDeliveries
      BY <1>13, PipelineAssumption DEF Redeliver, TypeOK
    <2>. QED BY <1>13, <2>1, ResponseType, FreshType DEF Redeliver, TypeOK
  <1>. QED BY <1>1, <1>2, <1>3, <1>4, <1>5, <1>6, <1>7, <1>8, <1>9, <1>10,
              <1>11, <1>12, <1>13 DEF Next, Step, Incoming, Service, Closing

-----------------------------------------------------------------------------
(* The initial state                                                       *)

(* A fresh request is at the start of its loop with nothing done.          *)
LEMMA InitIInv == Init => IInv
  <1> SUFFICES ASSUME Init PROVE IInv
    OBVIOUS
  <1>1. TypeOK
    BY FreshType, ResponseType DEF Init, TypeOK
  <1>2. Flow
    BY DEF Init, Flow, InRequest, RanBefore, RanNone, Hooks, Succeeded
  <1>3. ServiceBehindAllHooks /\ EveryResponseHookRuns
    BY DEF Init, ServiceBehindAllHooks, EveryResponseHookRuns
  <1>. QED BY <1>1, <1>2, <1>3 DEF IInv

-----------------------------------------------------------------------------
(* Flow                                                                    *)

(* None and an object of another type are no responses.                    *)
LEMMA NotResponses == NoResponse \notin ServiceResponses /\ Raw \notin ServiceResponses
  BY DEF NoResponse, Raw, RawBy, ServiceResponses, Served, EarlyBy, OverrideBy

(* Nor is what another type of object a hook returns.                      *)
LEMMA NotRaw == \A i : RawBy(i) \notin ServiceResponses
  BY DEF RawBy, ServiceResponses, Served, EarlyBy, OverrideBy

(* The position of a hook that is called.                                  *)
LEMMA HookPosition ==
  ASSUME TypeOK, NEW i \in Hooks
  PROVE  i \in Nat /\ next \in Nat /\ NumHooks \in Nat /\ i <= NumHooks
  BY PipelineAssumption DEF TypeOK, Hooks

(* A loop that calls its next hook, or skips it, has run what it passed.   *)
LEMMA LoopRuns ==
  ASSUME TypeOK, NEW p \in {"request", "response"}, NEW i \in Hooks,
         RanBefore(p), i = next, Applicable(i), Ran(p, i), next' = next + 1,
         UNCHANGED webhook
  PROVE  RanBefore(p)'
  <1> SUFFICES ASSUME NEW j \in Hooks
               PROVE  ran'[p][j] = IF j < next' /\ Applicable(j) THEN 1 ELSE 0
    BY DEF RanBefore, Applicable
  <1>1. /\ ran'[p] = [ran[p] EXCEPT ![i] = @ + 1] /\ ran[p] \in [Hooks -> Nat]
        /\ ran[p][j] = IF j < next /\ Applicable(j) THEN 1 ELSE 0
    BY RanType DEF TypeOK, RanBefore
  <1>2. j \in Nat /\ next \in Nat
    BY HookPosition
  <1>3. CASE j = i
    BY <1>1, <1>2, <1>3
  <1>4. CASE j # i
    BY <1>1, <1>2, <1>4
  <1>. QED BY <1>3, <1>4

(* The same for a hook that does not apply to the request.                 *)
LEMMA LoopSkips ==
  ASSUME TypeOK, NEW p \in {"request", "response"}, RanBefore(p),
         ~Applicable(next), next' = next + 1, UNCHANGED <<webhook, ran>>
  PROVE  RanBefore(p)'
  BY HookPosition DEF RanBefore, Applicable

(* The loop over the response hooks starts from the beginning.             *)
LEMMA LoopStarts ==
  ASSUME TypeOK, NEW p \in {"request", "response"}, RanNone(p)
  PROVE  (next' = 1 /\ webhook' = webhook /\ ran'[p] = ran[p]) => RanBefore(p)'
  BY PipelineAssumption DEF RanNone, RanBefore, Hooks

(* A loop that is through has run every hook that applies.                 *)
LEMMA LoopEnds ==
  ASSUME TypeOK, NEW p \in {"request", "response"}, RanBefore(p),
         next > LoopLength, NEW i \in Hooks
  PROVE  ran[p][i] = IF Applicable(i) THEN 1 ELSE 0
  BY HookPosition DEF RanBefore, LoopLength

(* The steps of the loop over the request hooks.                           *)
LEMMA RequestHookFlow ==
  ASSUME IInv, NEW i \in Hooks, NEW answer \in EarlyAnswers(i),
         RequestHookReturns(i, answer)
  PROVE  Flow' /\ ServiceBehindAllHooks' /\ EveryResponseHookRuns'
  <1> USE DEF caller, history
  <1>1. TypeOK /\ InRequest /\ phase = "request" /\ i = next /\ Applicable(i)
    BY DEF IInv, Flow, RequestHookReturns, AtHook
  <1>2. RanBefore("request")'
    BY <1>1, LoopRuns DEF InRequest, RequestHookReturns
  <1>3. RanNone("response")'
    BY <1>1, RanType DEF RanNone, InRequest, RequestHookReturns
  <1>4. running' = NoResponse <=> responders' = {}
    BY <1>1 DEF RequestHookReturns, Kept, InRequest
  <1>5. InRequest'
    BY <1>1, <1>2, <1>3, <1>4 DEF InRequest, RequestHookReturns
  <1>6. /\ phase' = "request" /\ ~called' /\ cause' = "none" /\ error' = "none"
        /\ verdict' = verdict /\ verdict = "pending"
    BY <1>1 DEF RequestHookReturns, InRequest, IInv, Flow
  <1>. QED BY <1>5, <1>6 DEF Flow, Succeeded, ServiceBehindAllHooks,
                            EveryResponseHookRuns

(* A hook that is passed over for a webhook, in either phase.              *)
LEMMA SkipHookFlow ==
  ASSUME IInv, SkipHook
  PROVE  Flow' /\ ServiceBehindAllHooks' /\ EveryResponseHookRuns'
  <1> USE DEF caller, history
  <1>1. /\ TypeOK /\ ~Applicable(next) /\ next' = next + 1
        /\ UNCHANGED <<webhook, ran>> /\ phase' = phase
        /\ phase \in {"request", "response"}
    BY DEF IInv, SkipHook
  <1>2. CASE phase = "request"
    <2>1. InRequest'
      BY <1>1, <1>2, LoopSkips DEF SkipHook, IInv, Flow, InRequest, RanNone
    <2>. QED BY <1>1, <1>2, <2>1 DEF SkipHook, IInv, Flow, InRequest, Succeeded,
                ServiceBehindAllHooks, EveryResponseHookRuns
  <1>3. CASE phase = "response"
    <2>1. InResponse'
      BY <1>1, <1>3, LoopSkips DEF SkipHook, IInv, Flow, InResponse, Passed
    <2>. QED BY <1>1, <1>3, <2>1 DEF SkipHook, IInv, Flow, InResponse, Succeeded,
                ServiceBehindAllHooks, EveryResponseHookRuns
  <1>. QED BY <1>1, <1>2, <1>3

(* An exception in the request phase or in the service.                    *)
LEMMA RaisesFlow ==
  ASSUME IInv,
         \/ \E i \in Hooks, e \in Errors : RequestHookRaises(i, e)
         \/ \E e \in Errors : ServiceRaises(e)
  PROVE  Flow' /\ ServiceBehindAllHooks' /\ EveryResponseHookRuns'
  <1> USE DEF caller, history
  <1>1. TypeOK /\ ~aborted /\ RanNone("response")
        /\ error' # "none" /\ phase' = "response" /\ next' = 1
        /\ webhook' = webhook /\ called' = called /\ aborted' = aborted
        /\ verdict' = verdict /\ verdict = "pending"
    BY DEF IInv, Flow, InRequest, InService, RequestHookRaises, ServiceRaises,
           AtHook, Outgoing, Errors
  <1>2. ran'["response"] = ran["response"]
    BY <1>1, RanType DEF RequestHookRaises, ServiceRaises
  <1>3. RanBefore("response")'
    BY <1>1, <1>2, LoopStarts
  <1>4. Flow' /\ EveryResponseHookRuns'
    BY <1>1, <1>3 DEF Flow, InResponse, Succeeded, EveryResponseHookRuns
  <1>5. ServiceBehindAllHooks'
    <2>1. ASSUME NEW i \in Hooks, NEW e \in Errors, RequestHookRaises(i, e)
          PROVE  ~called'
      BY <2>1 DEF RequestHookRaises, AtHook, IInv, Flow, InRequest
    <2>2. ASSUME NEW e \in Errors, ServiceRaises(e)
          PROVE  ServiceBehindAllHooks'
      BY <2>2 DEF ServiceRaises, IInv, ServiceBehindAllHooks
    <2>. QED BY <2>1, <2>2 DEF ServiceBehindAllHooks
  <1>. QED BY <1>4, <1>5

(* The service is called behind all hooks.                                 *)
LEMMA CallServiceFlow ==
  ASSUME IInv, CallService
  PROVE  Flow' /\ ServiceBehindAllHooks' /\ EveryResponseHookRuns'
  <1> USE DEF caller, history
  <1>1. TypeOK /\ InRequest /\ running = NoResponse /\ next > LoopLength
    BY DEF IInv, Flow, CallService, ServiceNeeded
  <1>2. InService'
    BY <1>1 DEF InRequest, InService, RanNone, CallService
  <1>3. \A i \in Hooks : ran["request"][i] = IF Applicable(i) THEN 1 ELSE 0
    BY <1>1, LoopEnds DEF InRequest
  <1>4. ServiceBehindAllHooks'
    BY <1>1, <1>3 DEF ServiceBehindAllHooks, CallService, InRequest, Applicable
  <1>. QED BY <1>2, <1>4 DEF Flow, IInv, CallService, InService, Succeeded,
                            EveryResponseHookRuns

(* An early answer replaces the service.                                   *)
LEMMA AnswerFlow ==
  ASSUME IInv, AnswerWithoutService
  PROVE  Flow' /\ ServiceBehindAllHooks' /\ EveryResponseHookRuns'
  <1> USE DEF caller, history
  <1>1. TypeOK /\ InRequest /\ running # NoResponse
    BY DEF IInv, Flow, AnswerWithoutService, ServiceNeeded
  <1>2. InResponse'
    <2>1. RanBefore("response")'
      BY <1>1, LoopStarts DEF AnswerWithoutService, Outgoing, InRequest
    <2>. QED BY <1>1, <2>1 DEF InResponse, InRequest, AnswerWithoutService,
                               Outgoing, Passed
  <1>. QED BY <1>1, <1>2 DEF Flow, IInv, AnswerWithoutService, Outgoing,
                InRequest, Succeeded, ServiceBehindAllHooks,
                EveryResponseHookRuns

(* What a service returns without an error is a response.                  *)
LEMMA ServiceReturnsFlow ==
  ASSUME IInv, NEW r \in {NoResponse, Raw, Served}, ServiceReturns(r)
  PROVE  Flow' /\ ServiceBehindAllHooks' /\ EveryResponseHookRuns'
  <1> USE DEF caller, history
  <1>1. TypeOK /\ InService
    BY DEF IInv, Flow, ServiceReturns
  <1>2. InResponse'
    <2>1. RanBefore("response")'
      BY <1>1, LoopStarts DEF ServiceReturns, Outgoing, InService
    <2>2. error' = "none" => r \in ServiceResponses /\ r # NoResponse
      BY ResponseType, NotResponses DEF ServiceReturns, ServiceError
    <2>. QED BY <1>1, <2>1, <2>2 DEF InResponse, InService, ServiceReturns,
                                     Outgoing, Passed
  <1>. QED BY <1>1, <1>2 DEF Flow, IInv, ServiceReturns, Outgoing, InService,
                Succeeded, ServiceBehindAllHooks, EveryResponseHookRuns

(* The response phase does not touch what the request phase recorded.      *)
LEMMA ServiceHistoryKept ==
  ASSUME IInv, ran'["request"] = ran["request"],
         UNCHANGED <<webhook, called, responders>>
  PROVE  ServiceBehindAllHooks'
  BY DEF IInv, ServiceBehindAllHooks

(* A response hook that returns.                                           *)
LEMMA ResponseHookFlow ==
  ASSUME IInv, NEW i \in Hooks, NEW answer \in OverrideAnswers(i),
         ResponseHookReturns(i, answer)
  PROVE  Flow' /\ ServiceBehindAllHooks' /\ EveryResponseHookRuns'
  <1> USE DEF caller, history
  <1>1. TypeOK /\ InResponse /\ phase = "response" /\ i = next /\ Applicable(i)
    BY DEF IInv, Flow, ResponseHookReturns, AtHook
  <1>2. InResponse'
    <2>1. RanBefore("response")'
      BY <1>1, LoopRuns DEF InResponse, ResponseHookReturns
    <2>2. error = "none" /\ response \in ServiceResponses => running' \in Passed'
      BY <1>1, ResponseType
      DEF InResponse, ResponseHookReturns, OverrideAnswers, Passed
    <2>3. error = "none" => running' # NoResponse
      BY <1>1 DEF InResponse, ResponseHookReturns
    <2>. QED BY <1>1, <2>1, <2>2, <2>3 DEF InResponse, ResponseHookReturns
  <1>3. ServiceBehindAllHooks'
    BY <1>1, RanType, ServiceHistoryKept DEF ResponseHookReturns
  <1>. QED BY <1>1, <1>2, <1>3 DEF Flow, IInv, ResponseHookReturns, Succeeded,
                                  EveryResponseHookRuns

(* A response hook that raises: it has run, the ones behind it have not.   *)
LEMMA ResponseHookRaisesFlow ==
  ASSUME IInv, NEW i \in Hooks, NEW e \in Errors, ResponseHookRaises(i, e)
  PROVE  Flow' /\ ServiceBehindAllHooks' /\ EveryResponseHookRuns'
  <1> USE DEF caller, history
  <1>1. TypeOK /\ InResponse /\ phase = "response" /\ i = next /\ Applicable(i)
        /\ Ran("response", i) /\ next' = next /\ webhook' = webhook
        /\ phase' = "reply" /\ aborted'
    BY DEF IInv, Flow, ResponseHookRaises, AtHook
  <1>2. error' # "none" /\ verdict' = verdict /\ verdict = "pending"
    BY <1>1 DEF ResponseHookRaises, Errors, IInv, Flow
  <1>3. EveryResponseHookRuns'
    <2> SUFFICES ASSUME NEW j \in Hooks
                 PROVE  ran'["response"][j] =
                          IF Applicable(j) /\ j <= next THEN 1 ELSE 0
      BY <1>1 DEF EveryResponseHookRuns, Applicable
    <2>1. /\ ran'["response"] = [ran["response"] EXCEPT ![i] = @ + 1]
          /\ ran["response"] \in [Hooks -> Nat]
          /\ ran["response"][j] = IF j < next /\ Applicable(j) THEN 1 ELSE 0
      BY <1>1, RanType DEF TypeOK, InResponse, RanBefore
    <2>2. j \in Nat /\ next \in Nat
      BY <1>1, HookPosition
    <2>3. CASE j = i
      BY <1>1, <2>1, <2>2, <2>3
    <2>4. CASE j # i
      BY <1>1, <2>1, <2>2, <2>4
    <2>. QED BY <2>3, <2>4
  <1>4. ServiceBehindAllHooks'
    BY <1>1, RanType, ServiceHistoryKept DEF ResponseHookRaises
  <1>. QED BY <1>1, <1>2, <1>3, <1>4 DEF Flow, Succeeded

(* The end of the finally block.                                           *)
LEMMA EndOutgoingFlow ==
  ASSUME IInv, EndOutgoing
  PROVE  Flow' /\ ServiceBehindAllHooks' /\ EveryResponseHookRuns'
  <1> USE DEF caller, history
  <1>1. TypeOK /\ InResponse /\ next > LoopLength /\ phase' = "reply"
    BY DEF IInv, Flow, EndOutgoing
  <1>2. error' = "none" => response' \in Passed'
    BY <1>1 DEF InResponse, EndOutgoing, OldResponseChecked, Passed
  <1>3. cause' # "none" => error' # "none"
    BY DEF IInv, Flow, EndOutgoing
  <1>4. EveryResponseHookRuns'
    <2>1. \A i \in Hooks : ran["response"][i] = IF Applicable(i) THEN 1 ELSE 0
      BY <1>1, LoopEnds DEF InResponse
    <2>. QED BY <1>1, <2>1 DEF EveryResponseHookRuns, EndOutgoing, InResponse,
                               Applicable
  <1>5. verdict' = "pending"
    BY DEF IInv, Flow, EndOutgoing
  <1>6. ServiceBehindAllHooks'
    BY ServiceHistoryKept DEF EndOutgoing
  <1>. QED BY <1>1, <1>2, <1>3, <1>4, <1>5, <1>6 DEF Flow, Succeeded

(* The verdict of the caller.                                              *)
LEMMA ReplyFlow ==
  ASSUME IInv, Reply
  PROVE  Flow' /\ ServiceBehindAllHooks' /\ EveryResponseHookRuns'
  <1> USE DEF caller, history
  <1>1. phase = "reply" /\ phase' = "done" /\ error' = error
        /\ response' = response /\ cause' = cause /\ Passed' = Passed
    BY DEF Reply, Passed
  <1>2. Succeeded' => error = "none"
    BY DEF Reply, HttpVerdict, MqVerdict, Succeeded
  <1>3. EveryResponseHookRuns'
    BY <1>1 DEF IInv, Reply, EveryResponseHookRuns, Applicable
  <1>4. ServiceBehindAllHooks'
    BY ServiceHistoryKept DEF Reply
  <1>. QED BY <1>1, <1>2, <1>3, <1>4 DEF IInv, Flow

(* A message that came back is a fresh request.                            *)
LEMMA RedeliverFlow ==
  ASSUME IInv, Redeliver
  PROVE  Flow' /\ ServiceBehindAllHooks' /\ EveryResponseHookRuns'
  <1>1. InRequest'
    BY PipelineAssumption DEF Redeliver, InRequest, RanBefore, RanNone, Hooks
  <1>. QED BY <1>1 DEF Redeliver, Flow, Succeeded, ServiceBehindAllHooks,
                       EveryResponseHookRuns

(* Every step keeps the invariant.                                         *)
LEMMA NextIInv == IInv /\ [Next]_vars => IInv'
  <1> SUFFICES ASSUME IInv, [Next]_vars PROVE IInv'
    OBVIOUS
  <1>1. TypeOK'
    BY NextType DEF IInv
  <1>2. CASE UNCHANGED vars
    BY <1>2 DEF vars, caller, history, IInv, TypeOK, Flow, InRequest, InService,
                InResponse, RanBefore, RanNone, Passed, Succeeded, Applicable,
                ServiceBehindAllHooks, EveryResponseHookRuns
  <1>3. CASE Next
    <2>1. Flow' /\ ServiceBehindAllHooks' /\ EveryResponseHookRuns'
      BY <1>3, SkipHookFlow, RequestHookFlow, RaisesFlow, CallServiceFlow,
         AnswerFlow, ServiceReturnsFlow, ResponseHookFlow,
         ResponseHookRaisesFlow, EndOutgoingFlow, ReplyFlow, RedeliverFlow
      DEF Next, Step, Incoming, Service, Closing
    <2>. QED BY <1>1, <2>1 DEF IInv
  <1>. QED BY <1>2, <1>3

-----------------------------------------------------------------------------
(* Theorems                                                                *)

(* The inductive invariant holds in every reachable state.                 *)
THEOREM Invariance == Spec => []IInv
  BY InitIInv, NextIInv, PTL DEF Spec

(* The pipeline keeps its types for any list of middlewares.               *)
THEOREM TypeCorrect == Spec => []TypeOK
  <1>1. IInv => TypeOK
    BY DEF IInv
  <1>. QED BY <1>1, Invariance, PTL

(* No service method runs before every middleware let the request pass.    *)
THEOREM ServiceIsGuarded == Spec => []ServiceBehindAllHooks
  <1>1. IInv => ServiceBehindAllHooks
    BY DEF IInv
  <1>. QED BY <1>1, Invariance, PTL

(* The finally block reaches every response hook up to one that raises.    *)
THEOREM ResponseHooksRun == Spec => []EveryResponseHookRuns
  <1>1. IInv => EveryResponseHookRuns
    BY DEF IInv
  <1>. QED BY <1>1, Invariance, PTL

(* No response hook turns a failed request into a success, whatever        *)
(* objects the hooks and the service return; and what goes out without an  *)
(* error is a ServiceResponse or was returned by a response hook.          *)
THEOREM FailureIsReported == Spec => []FailureStaysFailure
  <1>1. IInv => FailureStaysFailure
    BY DEF IInv, Flow, FailureStaysFailure, Passed
  <1>. QED BY <1>1, Invariance, PTL

-----------------------------------------------------------------------------
(* Provenance                                                              *)

(* Who made the response r: the last overrider, the first responder or the *)
(* service.                                                                *)
FirstOf(S, r) == \E i \in S : /\ r \in {EarlyBy(i), RawBy(i)}
                              /\ \A j \in S : i <= j
LastOf(S, r)  == \E i \in S : /\ r \in {OverrideBy(i), RawBy(i)}
                              /\ \A j \in S : j <= i
Made(r) == /\ overriders # {} => LastOf(overriders, r)
           /\ overriders = {} /\ responders # {} => FirstOf(responders, r)
           /\ overriders = {} /\ responders = {} => r = Served

(* The hooks that answered lie behind the loop, and the loop carries the   *)
(* answer of the one that counts; no error is replaced or dropped unless a *)
(* response hook raises or answers.                                        *)
Answers ==
  /\ phase = "request"  => /\ overriders = {} /\ \A j \in responders : j < next
                           /\ responders # {} => FirstOf(responders, running)
  /\ phase = "service"  => responders = {} /\ overriders = {}
  /\ phase = "response" => /\ \A j \in overriders : j < next
                           /\ error = "none" => Made(running)
  /\ phase \in {"reply", "done"} /\ error = "none" => Made(response)

ErrorKept ==
  /\ phase = "response" =>
       /\ error = cause
       /\ overriders = {} /\ error # "none" =>
            running = NoResponse \/ (running = Raw /\ error = "crash")
  /\ phase \in {"reply", "done"} /\ overriders = {} /\ ~aborted =>
       error = cause \/ (error = "crash" /\ cause # "retry")
  /\ phase = "done" /\ source = "mq" => (verdict = "requeue" <=> error = "retry")

PInv == IInv /\ Answers /\ ErrorKept

(* The smallest and the largest hook are the ones the properties choose.   *)
LEMMA Ends ==
  ASSUME NEW S, S \subseteq Hooks, NEW r
  PROVE  /\ FirstOf(S, r) => S # {} /\ r \in {EarlyBy(Least(S)), RawBy(Least(S))}
         /\ LastOf(S, r)  =>
              S # {} /\ r \in {OverrideBy(Greatest(S)), RawBy(Greatest(S))}
  <1>0. \A j \in S : j \in Nat
    BY PipelineAssumption DEF Hooks
  <1>1. ASSUME NEW i \in S, \A j \in S : i <= j PROVE Least(S) = i
    <2> DEFINE k == Least(S)
    <2>1. k \in S /\ \A j \in S : k <= j
      BY <1>1 DEF Least
    <2>2. k <= i /\ i <= k
      BY <1>1, <2>1
    <2>3. k \in Nat /\ i \in Nat
      BY <1>0, <2>1
    <2>. QED BY <2>2, <2>3
  <1>2. ASSUME NEW i \in S, \A j \in S : j <= i PROVE Greatest(S) = i
    <2> DEFINE k == Greatest(S)
    <2>1. k \in S /\ \A j \in S : j <= k
      BY <1>2 DEF Greatest
    <2>2. k <= i /\ i <= k
      BY <1>2, <2>1
    <2>3. k \in Nat /\ i \in Nat
      BY <1>0, <2>1
    <2>. QED BY <2>2, <2>3
  <1>. QED BY <1>1, <1>2 DEF FirstOf, LastOf

(* A hook behind the ones that answered: the first stays, the last is new. *)
LEMMA NewAnswer ==
  ASSUME NEW S, S \subseteq Hooks, NEW i \in Hooks, \A j \in S : j < i, NEW r
  PROVE  /\ FirstOf(S, r) => FirstOf(S \cup {i}, r)
         /\ r \in {EarlyBy(i), RawBy(i)} => FirstOf({i}, r)
         /\ r \in {OverrideBy(i), RawBy(i)} => LastOf(S \cup {i}, r)
  BY DEF FirstOf, LastOf, Hooks

(* What the service returns without an error was served.                   *)
LEMMA ServedAlone ==
  ASSUME NEW r, ServiceError(r) = "none"
  PROVE  r = Served
  BY DEF ServiceError

(* A hook of the request phase answers, or lets the request pass.          *)
LEMMA RequestHookAnswers ==
  ASSUME IInv, Answers, NEW i \in Hooks, NEW answer \in EarlyAnswers(i),
         RequestHookReturns(i, answer)
  PROVE  Answers'
  <1>1. /\ TypeOK /\ InRequest /\ phase = "request" /\ phase' = "request"
        /\ i = next /\ next' = next + 1 /\ overriders' = overriders
        /\ overriders = {} /\ \A j \in responders : j < next
    BY DEF IInv, Flow, Answers, RequestHookReturns, AtHook
  <1>2. i \in Nat /\ \A j \in responders : j \in Nat
    BY <1>1, HookPosition DEF TypeOK
  <1>3. \A j \in responders' : j < next'
    BY <1>1, <1>2 DEF RequestHookReturns
  <1>4. responders' # {} => FirstOf(responders', running')
    <2>1. CASE answer = NoResponse
      BY <1>1, <2>1 DEF RequestHookReturns, Kept, Answers, InRequest
    <2>2. CASE answer # NoResponse /\ responders = {}
      <3>1. running' \in {EarlyBy(i), RawBy(i)} /\ responders' = {i}
        BY <1>1, <2>2 DEF RequestHookReturns, Kept, InRequest, EarlyAnswers
      <3>. QED BY <1>2, <3>1 DEF FirstOf
    <2>3. CASE answer # NoResponse /\ responders # {}
      <3>1. running' = running /\ responders' = responders \cup {i}
        BY <1>1, <2>3 DEF RequestHookReturns, Kept, InRequest
      <3>2. FirstOf(responders, running)
        BY <1>1, <2>3 DEF Answers
      <3>3. responders \subseteq Hooks /\ \A j \in responders : j < i
        BY <1>1 DEF TypeOK
      <3>. QED BY <3>1, <3>2, <3>3, NewAnswer
    <2>. QED BY <2>1, <2>2, <2>3
  <1>. QED BY <1>1, <1>3, <1>4 DEF Answers

(* A hook of the response phase replaces what was there, or leaves it.     *)
LEMMA ResponseHookAnswers ==
  ASSUME IInv, Answers, NEW i \in Hooks, NEW answer \in OverrideAnswers(i),
         ResponseHookReturns(i, answer)
  PROVE  Answers'
  <1> USE DEF caller, history
  <1>1. /\ TypeOK /\ phase = "response" /\ phase' = "response"
        /\ i = next /\ next' = next + 1 /\ UNCHANGED <<responders, error>>
        /\ \A j \in overriders : j < next
    BY DEF IInv, Answers, ResponseHookReturns, AtHook
  <1>2. i \in Nat /\ \A j \in overriders : j \in Nat
    BY <1>1, HookPosition DEF TypeOK
  <1>3. \A j \in overriders' : j < next'
    BY <1>1, <1>2 DEF ResponseHookReturns
  <1>4. error = "none" => Made(running)'
    <2>1. CASE answer = NoResponse
      BY <1>1, <2>1 DEF ResponseHookReturns, Answers, Made
    <2>2. CASE answer # NoResponse
      <3>1. /\ running' \in {OverrideBy(i), RawBy(i)}
            /\ overriders' = overriders \cup {i}
        BY <2>2 DEF ResponseHookReturns, OverrideAnswers
      <3>. QED BY <1>1, <3>1, NewAnswer DEF Made, TypeOK
    <2>. QED BY <2>1, <2>2
  <1>. QED BY <1>1, <1>3, <1>4 DEF Answers

(* The answers are where they should be after every step.                  *)
LEMMA NextAnswers == IInv /\ Answers /\ [Next]_vars => Answers'
  <1> SUFFICES ASSUME IInv, Answers, [Next]_vars PROVE Answers'
    OBVIOUS
  <1> USE DEF caller, history
  <1>1. CASE UNCHANGED vars
    BY <1>1 DEF vars, Answers, Made
  <1>2. CASE SkipHook
    <2>1. next \in Nat /\ responders \subseteq Nat /\ overriders \subseteq Nat
      BY HookPosition, PipelineAssumption DEF IInv, TypeOK, Hooks
    <2>2. \A S \in SUBSET Nat : (\A j \in S : j < next) => \A j \in S : j < next + 1
      BY <2>1
    <2>. QED BY <1>2, <2>1, <2>2 DEF SkipHook, Answers, Made
  <1>3. ASSUME NEW i \in Hooks, NEW e \in Errors,
               RequestHookRaises(i, e) \/ ResponseHookRaises(i, e)
        PROVE  Answers'
    BY <1>3 DEF RequestHookRaises, ResponseHookRaises, AtHook, Outgoing, Answers,
       Errors
  <1>4. CASE CallService
    BY <1>4 DEF CallService, ServiceNeeded, Answers, IInv, Flow, InRequest
  <1>5. CASE AnswerWithoutService
    BY <1>5 DEF AnswerWithoutService, ServiceNeeded, Outgoing, Answers, Made,
       IInv, Flow, InRequest
  <1>6. ASSUME NEW r \in {NoResponse, Raw, Served}, ServiceReturns(r)
        PROVE  Answers'
    BY <1>6, ServedAlone DEF ServiceReturns, Outgoing, Answers, Made
  <1>7. ASSUME NEW e \in Errors, ServiceRaises(e) PROVE Answers'
    BY <1>7 DEF ServiceRaises, Outgoing, Answers, Errors
  <1>8. CASE EndOutgoing
    <2>1. error' = "none" => error = "none" /\ response' = running
      BY <1>8 DEF EndOutgoing, IInv, Flow, InResponse
    <2>. QED BY <1>8, <2>1 DEF EndOutgoing, Answers, Made
  <1>9. CASE Reply
    BY <1>9 DEF Reply, Answers, Made
  <1>10. CASE Redeliver
    BY <1>10 DEF Redeliver, Answers
  <1>. QED BY <1>1, <1>2, <1>3, <1>4, <1>5, <1>6, <1>7, <1>8, <1>9, <1>10,
              RequestHookAnswers, ResponseHookAnswers
           DEF Next, Step, Incoming, Service, Closing

(* No error is lost on its way to the caller.                              *)
LEMMA NextErrorKept == IInv /\ ErrorKept /\ [Next]_vars => ErrorKept'
  <1> SUFFICES ASSUME IInv, ErrorKept, [Next]_vars PROVE ErrorKept'
    OBVIOUS
  <1> USE DEF caller, history
  <1>1. CASE UNCHANGED vars \/ SkipHook \/ CallService \/ Redeliver
    BY <1>1 DEF vars, SkipHook, CallService, Redeliver, ErrorKept
  <1>2. ASSUME NEW i \in Hooks, NEW answer \in EarlyAnswers(i),
               RequestHookReturns(i, answer)
        PROVE  ErrorKept'
    BY <1>2 DEF RequestHookReturns, AtHook, ErrorKept
  <1>3. ASSUME NEW i \in Hooks, NEW e \in Errors, RequestHookRaises(i, e)
        PROVE  ErrorKept'
    BY <1>3 DEF RequestHookRaises, AtHook, Outgoing, ErrorKept, IInv, Flow,
       InRequest
  <1>4. CASE AnswerWithoutService
    BY <1>4 DEF AnswerWithoutService, Outgoing, ErrorKept, IInv, Flow, InRequest
  <1>5. ASSUME NEW r \in {NoResponse, Raw, Served}, ServiceReturns(r)
        PROVE  ErrorKept'
    BY <1>5 DEF ServiceReturns, ServiceError, Outgoing, ErrorKept
  <1>6. ASSUME NEW e \in Errors, ServiceRaises(e) PROVE ErrorKept'
    BY <1>6 DEF ServiceRaises, Outgoing, ErrorKept
  <1>7. ASSUME NEW i \in Hooks, NEW answer \in OverrideAnswers(i),
               ResponseHookReturns(i, answer)
        PROVE  ErrorKept'
    BY <1>7 DEF ResponseHookReturns, AtHook, ErrorKept
  <1>8. ASSUME NEW i \in Hooks, NEW e \in Errors, ResponseHookRaises(i, e)
        PROVE  ErrorKept'
    BY <1>8 DEF ResponseHookRaises, AtHook, ErrorKept
  <1>9. CASE EndOutgoing
    BY <1>9, NotResponses DEF EndOutgoing, OldResponseChecked, ErrorKept, IInv,
       Flow, InResponse
  <1>10. CASE Reply
    BY <1>10 DEF Reply, MqVerdict, ErrorKept
  <1>. QED BY <1>1, <1>2, <1>3, <1>4, <1>5, <1>6, <1>7, <1>8, <1>9, <1>10
           DEF Next, Step, Incoming, Service, Closing

(* The inductive invariant with the answers and the errors.                *)
LEMMA ProvenanceInvariance == Spec => []PInv
  <1>1. Init => Answers /\ ErrorKept
    BY DEF Init, Answers, ErrorKept
  <1>2. PInv /\ [Next]_vars => PInv'
    BY NextIInv, NextAnswers, NextErrorKept DEF PInv
  <1>3. Init => PInv
    BY <1>1, InitIInv DEF PInv
  <1>. QED BY <1>2, <1>3, PTL DEF Spec

(* make_response: whatever hooks answer, skip or raise, a caller that      *)
(* succeeds has the response of the last response hook that answered, else *)
(* of the first request hook that did, else of the service.                *)
THEOREM ProvenanceHolds == Spec => []AnswerProvenance
  <1>1. PInv => AnswerProvenance
    <2> SUFFICES ASSUME PInv, Succeeded
                 PROVE  IF overriders # {}
                          THEN \/ response = OverrideBy(Greatest(overriders))
                               \/ response = RawBy(Greatest(overriders))
                          ELSE response = IF responders # {}
                                            THEN EarlyBy(Least(responders))
                                            ELSE Served
      BY DEF AnswerProvenance
    <2>1. phase = "done" /\ error = "none" /\ TypeOK /\ response \in Passed
      BY DEF PInv, IInv, Flow, Succeeded
    <2>4. overriders = {} => response # RawBy(Least(responders))
      BY <2>1, NotRaw DEF Passed
    <2>2. Made(response)
      BY <2>1 DEF PInv, Answers
    <2>3. responders \subseteq Hooks /\ overriders \subseteq Hooks
      BY <2>1 DEF TypeOK
    <2>. QED BY <2>2, <2>3, <2>4, Ends DEF Made
  <1>. QED BY <1>1, ProvenanceInvariance, PTL

(* GatewayMQHandler.handle: a message goes back to the queue exactly when  *)
(* its request or its service failed with client_retry, as long as no      *)
(* response hook answered or raised.                                       *)
THEOREM RetriesComeBack == Spec => []RetryKeepsMessage
  <1>1. PInv => RetryKeepsMessage
    BY DEF PInv, ErrorKept, RetryKeepsMessage
  <1>. QED BY <1>1, ProvenanceInvariance, PTL

-----------------------------------------------------------------------------
(* Refinement                                                              *)

(* The stages, before and after a step.                                    *)
LEMMA Stages ==
  /\ phase \in {"request", "service"} => Stage = "incoming"
  /\ phase \in {"response", "reply"} => Stage = "closing"
  /\ phase = "done" => Stage = "done"
  /\ phase' \in {"request", "service"} => Stage' = "incoming"
  /\ phase' \in {"response", "reply"} => Stage' = "closing"
  /\ phase' = "done" => Stage' = "done"
  BY DEF Stage

(* The outcomes, before and after a step.                                  *)
LEMMA Outcomes ==
  /\ verdict = "requeue" => Outcome = "failure"
  /\ verdict' = "pending" => Outcome' = "pending"
  /\ verdict' \in {"error", "requeue", "abandon"} => Outcome' = "failure"
  /\ verdict' \in {"answered", "ack"} => Outcome' = "success"
  /\ verdict' = verdict => Outcome' = Outcome
  BY DEF Outcome, Succeeded

(* The ways a step of the mapped variables is a step of the contract.      *)
Hidden == UNCHANGED <<Stage, called, cause # "none", Outcome>>
Serves == /\ Stage = "incoming" /\ ~called /\ called' = TRUE
          /\ UNCHANGED <<Stage, cause # "none", Outcome>>
Closes == /\ Stage = "incoming" /\ Stage' = "closing"
          /\ UNCHANGED <<called, Outcome>>
Concludes == /\ Stage = "closing" /\ Stage' = "done"
             /\ \/ Outcome' = "failure"
                \/ cause = "none" /\ Outcome' = "success"
             /\ UNCHANGED <<called, cause>>
Retries == /\ Stage = "done" /\ Outcome = "failure"
           /\ Stage' = "incoming" /\ called' = FALSE /\ cause' = "none"
           /\ Outcome' = "pending"

(* They are its steps.                                                     *)
LEMMA ContractStep ==
  Hidden \/ Serves \/ Closes \/ Concludes \/ Retries
    => [Contract!Next]_(Contract!vars)
  BY DEF Hidden, Serves, Closes, Concludes, Retries, Stage, Outcome,
         Contract!Next, Contract!vars, Contract!Serve, Contract!Close,
         Contract!Conclude, Contract!Retry

(* Every step of the pipeline is one of them.                              *)
LEMMA NextContract ==
  ASSUME IInv, [Next]_vars
  PROVE  Hidden \/ Serves \/ Closes \/ Concludes \/ Retries
  <1> USE Stages, Outcomes DEF caller, history
  <1>1. CASE UNCHANGED vars
    BY <1>1 DEF vars, Hidden, Stage
  <1>2. CASE SkipHook
    BY <1>2 DEF SkipHook, Hidden
  <1>3. ASSUME NEW i \in Hooks, NEW answer,
               RequestHookReturns(i, answer) \/ ResponseHookReturns(i, answer)
        PROVE  Hidden
    BY <1>3 DEF RequestHookReturns, ResponseHookReturns, AtHook, Hidden
  <1>4. ASSUME NEW i \in Hooks, NEW e \in Errors, ResponseHookRaises(i, e)
        PROVE  Hidden
    BY <1>4 DEF ResponseHookRaises, AtHook, Hidden
  <1>5. CASE EndOutgoing
    BY <1>5 DEF EndOutgoing, Hidden
  <1>6. CASE CallService
    BY <1>6 DEF CallService, Serves, IInv, Flow, InRequest
  <1>7. ASSUME NEW i \in Hooks, NEW e \in Errors, RequestHookRaises(i, e)
        PROVE  Closes
    BY <1>7 DEF RequestHookRaises, AtHook, Outgoing, Closes
  <1>8. CASE AnswerWithoutService
    BY <1>8 DEF AnswerWithoutService, Outgoing, Closes
  <1>9. ASSUME NEW r \in {NoResponse, Raw, Served}, ServiceReturns(r)
        PROVE  Closes
    BY <1>9 DEF ServiceReturns, Outgoing, Closes
  <1>10. ASSUME NEW e \in Errors, ServiceRaises(e) PROVE Closes
    BY <1>10 DEF ServiceRaises, Outgoing, Closes
  <1>11. CASE Reply
    <2>1. verdict' \in {"error", "requeue", "abandon"}
            \/ (error = "none" /\ verdict' \in {"answered", "ack"})
      BY <1>11 DEF Reply, HttpVerdict, MqVerdict
    <2>2. error = "none" => cause = "none"
      BY DEF IInv, Flow
    <2>. QED BY <1>11, <2>1, <2>2 DEF Reply, Concludes
  <1>12. CASE Redeliver
    BY <1>12 DEF Redeliver, Retries
  <1>. QED BY <1>1, <1>2, <1>3, <1>4, <1>5, <1>6, <1>7, <1>8, <1>9, <1>10,
              <1>11, <1>12 DEF Next, Step, Incoming, Service, Closing

(* Every behaviour of the pipeline is one the contract allows; that it     *)
(* also ends, the fairness part of ImplementsContract, is model-checked.   *)
THEOREM PipelineKeepsContract == Spec => Contract!Spec
  <1>1. Init => Contract!Init
    <2> SUFFICES ASSUME Init PROVE Contract!Init
      OBVIOUS
    <2>1. Stage = "incoming"
      BY Stages DEF Init
    <2>2. Outcome = "pending"
      BY DEF Init, Outcome, Succeeded
    <2>3. ~called /\ ~(cause # "none")
      BY DEF Init
    <2>. QED BY <2>1, <2>2, <2>3 DEF Contract!Init
  <1>2. IInv /\ [Next]_vars => [Contract!Next]_(Contract!vars)
    BY NextContract, ContractStep
  <1>. QED BY <1>1, <1>2, Invariance, PTL DEF Spec, Contract!Spec

-----------------------------------------------------------------------------
(* The gateway: the pipeline with the seven middlewares of the             *)
(* configuration, for any quota and any number of attempts and deliveries. *)

(* The answer of the cache in the request phase.                           *)
FromCache == EarlyBy(Cache)

(* What the response variable of a phase says of the attempt: only the     *)
(* cache answers early, what the service or the cache answered is in the   *)
(* hands of the response hooks unless it failed, and a failed attempt has  *)
(* nothing to be charged for.                                              *)
Answered ==
  /\ phase \in {"request", "service"} =>
       response = NoResponse /\ cause = "none" /\ charged = {}
  /\ phase = "request" =>
       \/ running = NoResponse /\ fulfilment = "none"
       \/ running = FromCache /\ fulfilment = "fulfilled" /\ next > Cache
  /\ phase = "service" => fulfilment = "none"
  /\ phase = "response" =>
       /\ running \in {NoResponse, Raw, Served, FromCache}
       /\ fulfilment = "fulfilled" => running # NoResponse
       /\ running \in {Served, FromCache} => fulfilment # "none"
       /\ cause # "none" => \/ running = NoResponse
                            \/ running = Raw /\ call.method = "address"
  /\ charged # {} => cause = "none"

(* Who is past the limit and not yet counted is below it: one call at a    *)
(* time.  Webhooks have no sender.                                         *)
BelowQuota ==
  /\ entity => ~webhook
  /\ \/ phase = "request" /\ next > Limit
     \/ phase = "service"
     \/ /\ phase = "response" /\ next <= Limit
        /\ running # NoResponse
     => webhook \/ usage < Quota

(* An attempt works under a key it inserted itself; the key of a           *)
(* fulfilled call stays; any other is held only while its attempt runs.    *)
KeyOwned ==
  /\ key = "held" => call.keyed
  /\ phase = "request" /\ next <= Idem => ~mine
  /\ \/ phase = "request" /\ next > Idem
     \/ phase = "service"
     => (call.keyed => mine /\ key = "held")
  /\ fulfilment = "fulfilled" => fulfilled > 0
  /\ call.keyed /\ fulfilled > 0 =>
       fulfilled = 1 /\ key = "held" /\ (mine => fulfilment = "fulfilled")
  /\ key = "held" /\ fulfilled = 0 /\ ~broke =>
       /\ mine
       /\ \/ phase \in {"request", "service"}
          \/ phase = "response" /\ next <= Idem

GatewayInv == Configured /\ GatewayTypeOK /\ Answered /\ BelowQuota /\ KeyOwned

(* The four things a response variable may hold are different.             *)
LEMMA Different ==
  /\ NoResponse # Raw /\ NoResponse # Served
  /\ NoResponse # FromCache /\ Raw # Served
  /\ Raw # FromCache /\ Served # FromCache
  BY DEF NoResponse, Raw, RawBy, Served, EarlyBy, FromCache

(* Where the loops are, and what they pass by.                             *)
LEMMA Positions ==
  ASSUME Configured
  PROVE  /\ Start = 1 /\ Auth = 2 /\ Idem = 3 /\ Limit = 4
         /\ Billing = 5 /\ Cache = 6 /\ Log = 7
         /\ Hooks = 1..7 /\ LoopLength = 7 /\ NumHooks = 7
         /\ \A i : Applicable(i) <=> ~webhook \/ i \in {1, 3, 7}
  BY DEF Configured, Start, Auth, Idem, Limit, Billing, Cache, Log,
         Hooks, LoopLength, Applicable

-----------------------------------------------------------------------------
(* What the steps of the pipeline do to the variables the invariant reads. *)

(* A request hook that returns passes the request on.                      *)
LEMMA RequestHookPasses ==
  ASSUME Configured, NEW i, Pass(i)
  PROVE  /\ phase = "request" /\ next = i /\ i \in 1..7
         /\ ~webhook \/ i \in {1, 3, 7}
         /\ phase' = phase /\ next' = i + 1 /\ running' = running
         /\ UNCHANGED <<source, webhook, response, cause>>
  BY Positions DEF Pass, RequestHookReturns, AtHook, Kept, caller

(* Only the cache answers.                                                 *)
LEMMA CacheAnswers ==
  ASSUME Configured, CacheHit
  PROVE  /\ phase = "request" /\ next = Cache /\ ~webhook
         /\ phase' = phase /\ next' = Log
         /\ running' = IF running = NoResponse THEN FromCache ELSE running
         /\ UNCHANGED <<source, webhook, response, cause>>
  BY Positions DEF RequestHookReturns, AtHook, caller,
                   Kept, CacheHit, FromCache

(* One that raises turns to the response hooks, without a response.        *)
LEMMA RequestHookFails ==
  ASSUME Configured, NEW i, NEW e, RequestHookRaises(i, e)
  PROVE  /\ phase = "request" /\ next = i /\ i \in 1..7
         /\ ~webhook \/ i \in {1, 3, 7}
         /\ phase' = "response" /\ next' = 1 /\ running' = response
         /\ UNCHANGED <<source, webhook, response>>
  BY Positions DEF RequestHookRaises, AtHook, Outgoing,
                   caller

(* The service method answers; the response hooks follow.                  *)
LEMMA ServiceAnswers ==
  ASSUME NEW r, ServiceReturns(r)
  PROVE  /\ phase = "service"
         /\ phase' = "response" /\ next' = 1 /\ running' = r /\ response' = r
         /\ cause' = IF r = Served THEN "none" ELSE "crash"
         /\ UNCHANGED <<source, webhook>>
  BY DEF ServiceReturns, ServiceError, Outgoing, caller

(* A response hook keeps the response, and moves the loop on or ends it.   *)
LEMMA ResponseHookEnds ==
  ASSUME Configured, NEW i, End(i) \/ Break(i)
  PROVE  /\ phase = "response" /\ next = i /\ i \in 1..7
         /\ ~webhook \/ i \in {1, 3, 7}
         /\ \/ phase' = phase /\ next' = i + 1 /\ End(i)
            \/ phase' = "reply" /\ broke' /\ Break(i)
         /\ UNCHANGED <<source, webhook, running, cause>>
  BY Positions DEF End, Break, ResponseHookReturns,
     ResponseHookRaises, AtHook, caller

-----------------------------------------------------------------------------
(* Every step of the gateway is a step of the pipeline, leaves it alone or *)
(* is the client's, who sends its call again.                              *)
LEMMA GatewaySteps ==
  ASSUME Configured, GatewayNext
  PROVE  Next \/ UNCHANGED vars \/ Repeat
  <1>1. ASSUME NEW i, NEW answer \in EarlyAnswers(i),
               RequestHookReturns(i, answer)
        PROVE  Next
    <2>1. i \in Hooks
      BY <1>1, Positions DEF RequestHookReturns, AtHook
    <2>. QED BY <1>1, <2>1 DEF Next, Step, Incoming
  <1>2. ASSUME NEW i, NEW e \in Errors, RequestHookRaises(i, e)
        PROVE  Next
    <2>1. i \in Hooks
      BY <1>2, RequestHookFails, Positions
    <2>. QED BY <1>2, <2>1 DEF Next, Step, Incoming
  <1>3. ASSUME NEW i, End(i) \/ Break(i) PROVE Next
    <2>1. i \in Hooks
      BY <1>3, ResponseHookEnds, Positions
    <2>. QED BY <1>3, <2>1 DEF End, Break, Next, Step,
                               Closing, Errors, OverrideAnswers
  <1>10. \A i : NoResponse \in EarlyAnswers(i) /\ EarlyBy(i) \in EarlyAnswers(i)
    BY DEF EarlyAnswers
  <1>4. CASE RequestHook
    BY <1>1, <1>2, <1>4, <1>10, Zenon
    DEF RequestHook, NoRequestHook, Authenticate, Unauthorized,
        WithoutKey, InsertKey, DuplicateKey, CheckFails,
        WithinQuota, QuotaSpent, CacheMiss, CacheHit,
        RedisFails, Pass, Refuse, Errors
  <1>5. CASE ServiceMethod
    BY <1>5
    DEF ServiceMethod, Dispatch, Fulfil, NothingToDo,
        NoServiceResponse, ServiceFails, Next, Step,
        Service
  <1>6. CASE ResponseHook
    BY <1>3, <1>6, Zenon
    DEF ResponseHook, NoResponseHook, KeepKey, ReleaseKey,
        ReleaseFails, MisreadResponse, Count, Bill, NoCharge,
        StoreAnswer, NothingToStore, WriteLog, WriteFails
  <1>7. CASE Finish
    BY <1>7 DEF Finish, Next, Step, Closing
  <1>8. CASE Build \/ Expire
    BY <1>8 DEF Build, Expire, vars
  <1>9. CASE Redelivery
    BY <1>9 DEF Redelivery, Next
  <1>. QED BY <1>4, <1>5, <1>6, <1>7, <1>8, <1>9 DEF GatewayNext, Handle

(* A call that is sent again starts with nothing done.                     *)
LEMMA GatewayPipelineTypes ==
  ASSUME TypeOK, Next \/ UNCHANGED vars \/ Repeat
  PROVE  TypeOK'
  <1>1. CASE Repeat
    BY <1>1, FreshType, ResponseType DEF Repeat, TypeOK
  <1>. QED BY <1>1, NextType

-----------------------------------------------------------------------------
(* The steps of the gateway keep the parts of the invariant.               *)

GatewayParts == Answered /\ BelowQuota /\ KeyOwned

LEMMA GatewayBounds ==
  ASSUME Configured, GatewayTypeOK
  PROVE  /\ Quota \in Nat /\ usage \in 0..Quota
         /\ next \in 1..8 /\ webhook \in BOOLEAN /\ fulfilled \in Nat
         /\ fulfilment \in {"none", "unfulfilled", "fulfilled"}
  BY GatewayAssumption DEF Configured, GatewayTypeOK, TypeOK

(* A request hook that passes the request on.                              *)
LEMMA PassesOn ==
  ASSUME GatewayInv, NEW i,
         Pass(i),
         UNCHANGED <<call, key, usage, mine, charged, fulfilment, fulfilled,
                     broke>>,
         i = Auth \/ entity' = entity,
         i = Idem => ~call.keyed,
         i = Limit => usage # Quota
  PROVE  GatewayParts'
  <1> USE RequestHookPasses, GatewayBounds, Positions DEF GatewayInv
  <1>1. Answered'
    BY DEF Answered
  <1>2. BelowQuota'
    BY DEF BelowQuota
  <1>3. KeyOwned'
    BY DEF KeyOwned
  <1>. QED BY <1>1, <1>2, <1>3 DEF GatewayParts

(* A request hook that refuses the request, or fails.                      *)
LEMMA Refuses ==
  ASSUME GatewayInv, NEW i, NEW e,
         RequestHookRaises(i, e), i <= Cache,
         UNCHANGED <<call, usage, mine, entity, charged, fulfilment, fulfilled>>,
         \/ UNCHANGED <<key, broke>>
         \/ key' \in {key, "held"} /\ call.keyed /\ broke'
  PROVE  GatewayParts'
  <1> USE RequestHookFails, GatewayBounds, Positions DEF GatewayInv
  <1>1. Answered'
    BY Different DEF Answered
  <1>2. BelowQuota'
    BY Different DEF BelowQuota, Answered
  <1>3. KeyOwned'
    BY DEF KeyOwned
  <1>. QED BY <1>1, <1>2, <1>3 DEF GatewayParts

(* The key of the call is inserted, or the answer found in the cache.      *)
LEMMA InsertKeyKeeps ==
  ASSUME GatewayInv, InsertKey
  PROVE  GatewayParts'
  <1>0. /\ call.keyed /\ key = "free" /\ key' = "held" /\ mine'
        /\ Pass(Idem)
        /\ UNCHANGED <<call, usage, charged, fulfilment, fulfilled, broke,
                       entity>>
    BY DEF InsertKey, fixed, tally
  <1> USE <1>0, RequestHookPasses, GatewayBounds, Positions DEF GatewayInv
  <1>1. Answered'
    BY DEF Answered
  <1>2. BelowQuota'
    BY DEF BelowQuota
  <1>3. KeyOwned'
    BY DEF KeyOwned
  <1>. QED BY <1>1, <1>2, <1>3 DEF GatewayParts

LEMMA CacheHitKeeps ==
  ASSUME GatewayInv, CacheHit
  PROVE  GatewayParts'
  <1>0. /\ fulfilment' = "fulfilled" /\ fulfilled' = fulfilled + 1
        /\ UNCHANGED <<call, key, usage, mine, charged, entity, broke>>
    BY DEF CacheHit, fixed, stores
  <1> USE <1>0, CacheAnswers, GatewayBounds, Positions DEF GatewayInv
  <1>1. Answered'
    BY Different DEF Answered
  <1>2. BelowQuota'
    BY DEF BelowQuota
  <1>3. KeyOwned'
    BY DEF KeyOwned, Answered
  <1>. QED BY <1>1, <1>2, <1>3 DEF GatewayParts

(* make_response calls the service, or answers without it.                 *)
LEMMA DispatchKeeps ==
  ASSUME GatewayInv, Dispatch
  PROVE  GatewayParts'
  <1>1. UNCHANGED <<webhook, call, key, usage, mine, charged, entity,
                    fulfilment, fulfilled, broke>>
    BY DEF Dispatch, CallService, AnswerWithoutService,
           caller, fixed, stores, attempt, tally
  <1>2. /\ phase = "request" /\ next > 7 /\ UNCHANGED cause
        /\ \/ /\ phase' = "service" /\ running = NoResponse
              /\ UNCHANGED <<running, response>>
           \/ /\ phase' = "response" /\ next' = 1
              /\ running # NoResponse /\ UNCHANGED running
    BY Positions DEF GatewayInv, Dispatch, CallService, Outgoing,
       AnswerWithoutService, ServiceNeeded, history
  <1> USE <1>1, <1>2, GatewayBounds, Positions DEF GatewayInv
  <1>3. Answered'
    BY Different DEF Answered
  <1>4. BelowQuota'
    BY DEF BelowQuota
  <1>5. KeyOwned'
    BY DEF KeyOwned
  <1>. QED BY <1>3, <1>4, <1>5 DEF GatewayParts

(* The service fulfils the request, finds nothing to do, or answers with   *)
(* something else.                                                         *)
LEMMA AnswerKeeps ==
  ASSUME GatewayInv, NEW r,
         r \in {NoResponse, Raw, Served},
         ServiceReturns(r),
         UNCHANGED <<call, key, usage, mine, charged, entity, broke>>,
         \/ /\ r = Served /\ fulfilment' = "fulfilled"
            /\ fulfilled' = fulfilled + 1
         \/ /\ r = Served /\ fulfilment' = "unfulfilled"
            /\ fulfilled' = fulfilled
         \/ /\ r # Served /\ call.method = "address"
            /\ UNCHANGED <<fulfilment, fulfilled>>
  PROVE  GatewayParts'
  <1> USE ServiceAnswers, GatewayBounds, Positions DEF GatewayInv
  <1>1. Answered'
    BY Different DEF Answered
  <1>2. BelowQuota'
    BY DEF BelowQuota
  <1>3. KeyOwned'
    BY DEF KeyOwned, Answered
  <1>. QED BY <1>1, <1>2, <1>3 DEF GatewayParts

LEMMA ServiceFailsKeeps ==
  ASSUME GatewayInv, ServiceFails
  PROVE  GatewayParts'
  <1>1. UNCHANGED <<webhook, call, key, usage, mine, charged, entity,
                    fulfilment, fulfilled, broke>>
    BY DEF ServiceFails, ServiceRaises, caller, fixed,
           stores, attempt, tally
  <1>2. /\ phase = "service" /\ phase' = "response" /\ next' = 1
        /\ running' = NoResponse
    BY DEF ServiceFails, ServiceRaises, Outgoing
  <1> USE <1>1, <1>2, GatewayBounds, Positions DEF GatewayInv
  <1>3. Answered'
    BY Different DEF Answered
  <1>4. BelowQuota'
    BY DEF BelowQuota
  <1>5. KeyOwned'
    BY DEF KeyOwned
  <1>. QED BY <1>3, <1>4, <1>5 DEF GatewayParts

(* What has failed has failed.                                             *)
LEMMA StaysBroken ==
  ASSUME broke \in BOOLEAN, broke' = broke \/ broke' = TRUE
  PROVE  broke' \in BOOLEAN /\ (broke => broke')
  <1>1. CASE broke' = broke
    BY <1>1
  <1>2. CASE broke' = TRUE
    BY <1>2
  <1>. QED BY <1>1, <1>2

(* A response hook counts and bills what was answered, and gives back the  *)
(* key of what was not fulfilled, or breaks off.                           *)
LEMMA ResponseHookKeeps ==
  ASSUME GatewayInv, NEW i, End(i) \/ Break(i),
         UNCHANGED <<call, mine, entity, fulfilment, fulfilled>>,
         usage' = usage \/ i = Limit,
         \/ charged' = charged
         \/ /\ running # NoResponse
            /\ running # Raw \/ call.method # "address",
         broke' \in BOOLEAN, broke => broke',
         \/ key' = key
         \/ key' = "free" /\ Releases,
         (* A hook of the key that ends has kept or released it. *)
         i = Idem /\ ~broke' =>
           \/ key' = "free"
           \/ ~Releases /\ ~Misread(Idem)
  PROVE  GatewayParts'
  <1> USE ResponseHookEnds, GatewayBounds, Positions DEF GatewayInv
  <1>1. Answered'
    BY Different DEF Answered
  <1>2. BelowQuota'
    BY DEF BelowQuota
  <1>3. KeyOwned'
    BY Different DEF KeyOwned, Answered, Releases, Misread
  <1>. QED BY <1>1, <1>2, <1>3 DEF GatewayParts

(* The end of the loop, the reply, and hooks that do not apply.            *)
LEMMA FinishKeeps ==
  ASSUME GatewayInv, Finish
  PROVE  GatewayParts'
  <1>1. UNCHANGED <<webhook, call, key, usage, mine, charged, entity,
                    fulfilment, fulfilled, broke, cause, running>>
    BY DEF Finish, SkipHook, EndOutgoing, Reply,
           caller, history, fixed, stores, attempt,
           tally
  <1>2. CASE SkipHook
    <2>1. /\ phase \in {"request", "response"} /\ phase' = phase
          /\ next' = next + 1 /\ webhook /\ next \notin {1, 3, 7}
          /\ next <= 7 /\ response' = response
      BY <1>2, Positions DEF GatewayInv, SkipHook
    <2> USE <1>1, <2>1, GatewayBounds, Positions DEF GatewayInv
    <2>2. Answered'
      BY DEF Answered
    <2>3. BelowQuota'
      BY DEF BelowQuota
    <2>4. KeyOwned'
      BY DEF KeyOwned
    <2>. QED BY <2>2, <2>3, <2>4 DEF GatewayParts
  <1>3. CASE EndOutgoing \/ Reply
    <2>1. /\ \/ phase = "response" /\ next > 7
             \/ phase = "reply"
          /\ phase' \in {"reply", "done"}
      BY <1>3, Positions DEF GatewayInv, EndOutgoing, Reply
    <2> USE <1>1, <2>1, GatewayBounds, Positions DEF GatewayInv
    <2>2. Answered'
      BY DEF Answered
    <2>3. BelowQuota'
      BY DEF BelowQuota
    <2>4. KeyOwned'
      BY DEF KeyOwned
    <2>. QED BY <2>2, <2>3, <2>4 DEF GatewayParts
  <1>. QED BY <1>2, <1>3 DEF Finish

(* The next attempt begins when the last one is over.                      *)
LEMMA AttemptKeeps ==
  ASSUME GatewayInv, Repeat \/ Redelivery
  PROVE  GatewayParts'
  <1>1. /\ phase = "done" /\ phase' = "request" /\ next' = 1
        /\ running' = NoResponse /\ response' = NoResponse
        /\ cause' = "none" /\ ~mine' /\ charged' = {}
        /\ fulfilment' = "none"
        /\ UNCHANGED <<webhook, call, key, usage, entity, fulfilled, broke>>
    BY DEF Repeat, Redelivery, FreshAttempt, Redeliver,
           caller, fixed, stores, tally
  <1> USE <1>1, GatewayBounds, Positions DEF GatewayInv
  <1>2. Answered'
    BY Different DEF Answered
  <1>3. BelowQuota'
    BY DEF BelowQuota
  <1>4. KeyOwned'
    BY DEF KeyOwned
  <1>. QED BY <1>2, <1>3, <1>4 DEF GatewayParts

(* Redis forgets, and a message becomes a request.                         *)
LEMMA ExpireKeeps ==
  ASSUME GatewayInv, Expire \/ Build
  PROVE  GatewayParts'
  <1>1. /\ UNCHANGED <<webhook, phase, next, running, response, cause, call,
                       key, mine, charged, entity, fulfilment, fulfilled, broke>>
        /\ usage' = usage \/ (usage > 0 /\ usage' = 0)
    BY DEF Expire, Build, vars, caller, history, fixed, stores, attempt, tally
  <1> USE <1>1, GatewayBounds, Positions DEF GatewayInv
  <1>2. Answered'
    BY DEF Answered
  <1>3. BelowQuota'
    BY DEF BelowQuota
  <1>4. KeyOwned'
    BY DEF KeyOwned
  <1>. QED BY <1>2, <1>3, <1>4 DEF GatewayParts

-----------------------------------------------------------------------------
(* The gateway keeps its invariant.                                        *)

(* Who calls, and what, is settled when the call comes.                    *)
LEMMA CallStays ==
  ASSUME Configured, GatewayNext
  PROVE  UNCHANGED <<source, webhook, config, call>>
  <1>1. Next => UNCHANGED <<source, webhook>>
    BY DEF Next, Step, SkipHook, Incoming,
       RequestHookReturns, RequestHookRaises, Service,
       CallService, AnswerWithoutService, ServiceReturns,
       ServiceRaises, Closing, ResponseHookReturns,
       ResponseHookRaises, EndOutgoing, Reply,
       Redeliver, caller
  <1>2. UNCHANGED <<source, webhook>>
    BY <1>1, GatewaySteps DEF Repeat, vars, caller
  <1>3. UNCHANGED fixed
    BY DEF GatewayNext, Handle, Build, RequestHook, NoRequestHook,
       Authenticate, Unauthorized, WithoutKey, InsertKey,
       DuplicateKey, CheckFails, WithinQuota, QuotaSpent,
       CacheMiss, CacheHit, RedisFails, ServiceMethod, Dispatch,
       Fulfil, NothingToDo, NoServiceResponse, ServiceFails,
       ResponseHook, NoResponseHook, KeepKey, ReleaseKey,
       ReleaseFails, MisreadResponse, Count, Bill, NoCharge,
       StoreAnswer, NothingToStore, WriteLog, WriteFails,
       Finish, Repeat, Redelivery, Expire
  <1>. QED BY <1>2, <1>3 DEF fixed

(* A sender is counted only when it is below its quota.                    *)
LEMMA CountedBelowQuota ==
  ASSUME GatewayInv, Count
  PROVE  usage' \in 0..Quota
  <1>1. /\ phase = "response" /\ next = Limit
        /\ running # NoResponse /\ entity
        /\ usage' \in {usage, usage + 1}
    BY ResponseHookEnds DEF GatewayInv, Count, Charges
  <1>. QED BY <1>1, GatewayBounds, Positions DEF GatewayInv, BelowQuota

(* The stores, the attempt and the history keep their types.               *)
LEMMA GatewayTypes ==
  ASSUME GatewayInv, GatewayNext
  PROVE  GatewayTypeOK'
  <1> USE DEF fixed, stores, attempt, tally
  <1>1. TypeOK'
    BY GatewaySteps, GatewayPipelineTypes DEF GatewayInv, GatewayTypeOK
  <1>2. config' \in Configs /\ call' \in Calls /\ Sent'
    BY CallStays DEF GatewayInv, GatewayTypeOK, Sent
  <1>3. GatewayTypeOK
    BY DEF GatewayInv
  <1> DEFINE Own == /\ built' \in BOOLEAN /\ key' \in {"free", "held"}
                    /\ mine' \in BOOLEAN /\ entity' \in BOOLEAN
                    /\ usage' \in 0..Quota /\ cached' \in BOOLEAN
                    /\ charged' \subseteq {"quota", "cost"}
                    /\ fulfilment' \in {"none", "unfulfilled", "fulfilled"}
                    /\ attempts' \in 1..MaxAttempts /\ fulfilled' \in Nat
                    /\ broke' \in BOOLEAN
  <1>4. /\ built \in BOOLEAN /\ key \in {"free", "held"}
        /\ mine \in BOOLEAN /\ entity \in BOOLEAN
        /\ usage \in 0..Quota /\ cached \in BOOLEAN
        /\ charged \subseteq {"quota", "cost"}
        /\ fulfilment \in {"none", "unfulfilled", "fulfilled"}
        /\ attempts \in 1..MaxAttempts /\ fulfilled \in Nat
        /\ broke \in BOOLEAN
    BY <1>3 DEF GatewayTypeOK
  <1>5. ASSUME UNCHANGED <<stores, attempt, entity, tally>>
        PROVE  Own
    BY <1>4, <1>5
  <1>6. ASSUME Build PROVE Own
    BY <1>4, <1>6 DEF Build
  <1>7. ASSUME RequestHook PROVE Own
    <2>1. ASSUME Authenticate \/ InsertKey \/ CheckFails PROVE Own
      BY <1>4, <2>1 DEF Authenticate, InsertKey, CheckFails
    <2>2. ASSUME CacheHit PROVE Own
      BY <1>4, <2>2 DEF CacheHit
    <2>. QED
      BY <1>5, <1>7, <2>1, <2>2, Zenon
      DEF RequestHook, NoRequestHook, Unauthorized, WithoutKey,
          DuplicateKey, WithinQuota, QuotaSpent, CacheMiss,
          RedisFails
  <1>8. ASSUME ServiceMethod PROVE Own
    <2>1. ASSUME Fulfil PROVE Own
      BY <1>4, <2>1 DEF Fulfil
    <2>2. ASSUME NothingToDo PROVE Own
      BY <1>4, <2>2 DEF NothingToDo
    <2>. QED
      BY <1>5, <1>8, <2>1, <2>2, Zenon
      DEF ServiceMethod, Dispatch, NoServiceResponse, ServiceFails
  <1>9. ASSUME Count PROVE Own
    BY <1>4, <1>9, CountedBelowQuota DEF Count
  <1>10. ASSUME ResponseHook PROVE Own
    BY <1>4, <1>9, <1>10
    DEF ResponseHook, NoResponseHook, KeepKey, ReleaseKey,
       ReleaseFails, MisreadResponse, Bill, NoCharge,
       StoreAnswer, NothingToStore, WriteLog, WriteFails, Break
  <1>11. ASSUME Finish PROVE Own
    BY <1>4, <1>11 DEF Finish
  <1>12. ASSUME Repeat PROVE Own
    <2>1. attempts' \in 1..MaxAttempts
      BY <1>4, <1>12, GatewayAssumption DEF Repeat
    <2>2. built' \in BOOLEAN
      BY <1>12 DEF Repeat, FreshAttempt
    <2>. QED BY <1>4, <1>12, <2>1, <2>2 DEF Repeat, FreshAttempt
  <1>13. ASSUME Redelivery PROVE Own
    BY <1>4, <1>13 DEF Redelivery, FreshAttempt
  <1>14. ASSUME Expire PROVE Own
    <2>1. usage' = usage \/ (usage > 0 /\ usage' = 0)
      BY <1>14 DEF Expire
    <2>2. usage' \in 0..Quota
      BY <1>4, <2>1, GatewayAssumption
    <2>3. cached' \in BOOLEAN
      BY <1>4, <1>14, Zenon DEF Expire
    <2>. QED BY <1>4, <1>14, <2>2, <2>3 DEF Expire
  <1>15. Own
    BY <1>6, <1>7, <1>8, <1>10, <1>11, <1>12, <1>13, <1>14
    DEF GatewayNext, Handle
  <1>. QED BY <1>1, <1>2, <1>15 DEF GatewayTypeOK

(* The fresh stores and the first attempt satisfy the invariant.           *)
LEMMA GatewayInitial == GatewayInit => GatewayInv
  <1> SUFFICES ASSUME GatewayInit PROVE GatewayInv
    OBVIOUS
  <1>1. TypeOK /\ Configured
    BY InitIInv DEF GatewayInit, IInv
  <1>2. config \in Configs
    <2>1. /\ LocalConfig \in Configs /\ DevConfig \in Configs
          /\ StageConfig \in Configs /\ ProdConfig \in Configs
      BY DEF Configs, LocalConfig, DevConfig, StageConfig, ProdConfig
    <2>. QED BY <2>1 DEF GatewayInit
  <1>3. 0 \in 0..Quota /\ 1 \in 1..MaxAttempts
    BY GatewayAssumption
  <1>4. GatewayTypeOK
    BY <1>1, <1>2, <1>3 DEF GatewayInit, GatewayTypeOK
  <1>5. /\ phase = "request" /\ next = 1 /\ running = NoResponse
        /\ response = NoResponse /\ cause = "none" /\ charged = {}
        /\ fulfilment = "none" /\ key = "free" /\ ~mine /\ ~entity
        /\ fulfilled = 0
    BY DEF GatewayInit, Init
  <1>6. Answered /\ BelowQuota /\ KeyOwned
    BY <1>1, <1>5, Positions DEF Answered, BelowQuota, KeyOwned
  <1>. QED BY <1>1, <1>4, <1>6 DEF GatewayInv

(* Every step keeps it.                                                    *)
LEMMA GatewayInductive ==
  ASSUME GatewayInv, [GatewayNext]_gatewayVars
  PROVE  GatewayInv'
  <1> DEFINE Quiet == UNCHANGED <<fixed, stores, attempt, entity,
                                  tally>>
  <1>0. Quiet => UNCHANGED <<call, key, usage, mine, charged, entity,
                             fulfilment, fulfilled, broke>>
    BY DEF fixed, stores, attempt, tally
  <1>5. Configured /\ broke \in BOOLEAN
    BY DEF GatewayInv, GatewayTypeOK
  <1>7. Configured'
    BY <1>5 DEF Configured, Start, Idem, Log
  <1> HIDE DEF Quiet
  <1> USE <1>5, <1>7
  <1>1. CASE UNCHANGED gatewayVars
    BY <1>1 DEF gatewayVars, vars, caller, history, fixed, stores, attempt,
       tally, Configured, GatewayInv, GatewayTypeOK, TypeOK, Sent, Answered,
       BelowQuota, KeyOwned
  <1>2. CASE RequestHook
    <2>1. ASSUME NoRequestHook PROVE GatewayParts'
      <3>1. PICK i \in {Start, Billing, Log} : Pass(i)
        BY <2>1 DEF NoRequestHook
      <3>2. Quiet
        BY <2>1 DEF NoRequestHook, Quiet
      <3>. QED BY <3>1, <3>2, <1>0, PassesOn, Positions
    <2>2. ASSUME Authenticate PROVE GatewayParts'
      <3>1. /\ Pass(Auth)
            /\ UNCHANGED <<call, key, usage, mine, charged, fulfilment,
                           fulfilled, broke>>
        BY <2>2 DEF Authenticate, fixed, stores, attempt,
                    tally
      <3>. QED BY <3>1, PassesOn, Positions
    <2>3. ASSUME WithoutKey PROVE GatewayParts'
      <3>1. ~call.keyed /\ Pass(Idem) /\ Quiet
        BY <2>3 DEF WithoutKey, Quiet
      <3>. QED BY <3>1, <1>0, PassesOn, Positions
    <2>4. ASSUME WithinQuota PROVE GatewayParts'
      <3>1. usage # Quota /\ Pass(Limit) /\ Quiet
        BY <2>4 DEF WithinQuota, Quiet
      <3>. QED BY <3>1, <1>0, PassesOn, Positions
    <2>5. ASSUME CacheMiss PROVE GatewayParts'
      <3>1. Pass(Cache) /\ Quiet
        BY <2>5 DEF CacheMiss, Quiet
      <3>. QED BY <3>1, <1>0, PassesOn, Positions
    <2>6. ASSUME Unauthorized \/ DuplicateKey \/ QuotaSpent
                 \/ RedisFails
          PROVE  GatewayParts'
      <3>1. PICK i \in {2, 3, 4, 6} :
              \E e \in Errors : RequestHookRaises(i, e)
        BY <2>6, Positions DEF Unauthorized, DuplicateKey,
           QuotaSpent, RedisFails, Refuse, Errors
      <3>2. Quiet
        BY <2>6 DEF Unauthorized, DuplicateKey, QuotaSpent,
           RedisFails, Quiet
      <3>. QED BY <3>1, <3>2, <1>0, Refuses, Positions
    <2>7. ASSUME CheckFails PROVE GatewayParts'
      <3>1. /\ RequestHookRaises(Idem, "crash")
            /\ key' \in {key, "held"} /\ call.keyed /\ broke' = TRUE
            /\ UNCHANGED <<call, usage, mine, entity, charged, fulfilment,
                           fulfilled>>
        BY <2>7 DEF CheckFails, Refuse, fixed, attempt
      <3>2. Idem <= Cache
        BY Positions
      <3>. QED BY <3>1, <3>2, Refuses
    <2>. QED
      BY <1>2, <2>1, <2>2, <2>3, <2>4, <2>5, <2>6, <2>7, InsertKeyKeeps,
         CacheHitKeeps, GatewayTypes
      DEF RequestHook, GatewayNext, Handle, GatewayInv, GatewayParts
  <1>3. CASE ServiceMethod
    <2>1. ASSUME Fulfil PROVE GatewayParts'
      BY <2>1, AnswerKeeps DEF Fulfil, fixed, stores
    <2>2. ASSUME NothingToDo PROVE GatewayParts'
      BY <2>2, AnswerKeeps
      DEF NothingToDo, fixed, stores, tally
    <2>3. ASSUME NoServiceResponse PROVE GatewayParts'
      <3>1. PICK r \in {Raw, NoResponse} : ServiceReturns(r)
        BY <2>3 DEF NoServiceResponse
      <3>2. call.method = "address" /\ Quiet
        BY <2>3 DEF NoServiceResponse, Quiet
      <3>. QED BY <3>1, <3>2, <1>0, AnswerKeeps, Different
    <2>. QED
      BY <1>3, <2>1, <2>2, <2>3, DispatchKeeps, ServiceFailsKeeps, GatewayTypes
      DEF ServiceMethod, GatewayNext, Handle, GatewayInv, GatewayParts
  <1>4. CASE ResponseHook
    <2>1. ASSUME NoResponseHook PROVE GatewayParts'
      <3>1. PICK i \in {Start, Auth} : End(i)
        BY <2>1 DEF NoResponseHook
      <3>2. Quiet
        BY <2>1 DEF NoResponseHook, Quiet
      <3>. QED BY <3>1, <3>2, <1>0, <1>5, ResponseHookKeeps, Positions
    <2>2. ASSUME KeepKey \/ ReleaseKey \/ ReleaseFails
          PROVE  GatewayParts'
      <3>1. /\ End(Idem) \/ Break(Idem)
            /\ UNCHANGED <<call, mine, entity, fulfilment, fulfilled, usage,
                           charged>>
            /\ broke' = broke \/ broke' = TRUE
            /\ \/ key' = key
               \/ key' = "free" /\ Releases
            /\ \/ broke' = TRUE
               \/ key' = "free"
               \/ ~Releases /\ ~Misread(Idem)
        BY <2>2 DEF KeepKey, ReleaseKey, ReleaseFails, Break,
                    fixed, stores, attempt, tally
      <3>2. broke' \in BOOLEAN /\ (broke => broke')
        BY <3>1, <1>5, StaysBroken
      <3>3. Idem # Limit
        BY Positions
      <3>. QED BY <3>1, <3>2, <3>3, ResponseHookKeeps
    <2>3. ASSUME MisreadResponse PROVE GatewayParts'
      <3>1. PICK i \in {Idem, Limit, Log} : Break(i)
        BY <2>3 DEF MisreadResponse
      <3>2. /\ broke' = TRUE
            /\ UNCHANGED <<call, mine, entity, fulfilment, fulfilled, usage,
                           charged, key>>
        BY <2>3 DEF MisreadResponse, Break, fixed, stores,
                    attempt
      <3>. QED BY <3>1, <3>2, <1>5, ResponseHookKeeps, Positions
    <2>4. ASSUME Count PROVE GatewayParts'
      <3>1. /\ End(Limit)
            /\ running # NoResponse /\ running # Raw
            /\ UNCHANGED <<call, mine, entity, fulfilment, fulfilled, key,
                           broke>>
        BY <2>4 DEF Count, Charges, Misread, fixed, tally
      <3>. QED BY <3>1, <1>5, ResponseHookKeeps, Positions
    <2>5. ASSUME Bill PROVE GatewayParts'
      <3>1. /\ End(Billing)
            /\ running # NoResponse /\ call.method # "address"
            /\ UNCHANGED <<call, mine, entity, fulfilment, fulfilled, key,
                           usage, broke>>
        BY <2>5 DEF Bill, Charges, Priced, fixed, stores,
                    tally
      <3>. QED BY <3>1, <1>5, ResponseHookKeeps, Positions
    <2>6. ASSUME NoCharge \/ StoreAnswer \/ NothingToStore
                 \/ WriteLog \/ WriteFails
          PROVE  GatewayParts'
      <3>1. PICK i \in {Limit, Billing, Cache, Log} :
                   End(i) \/ Break(i)
        BY <2>6 DEF NoCharge, StoreAnswer, NothingToStore,
                    WriteLog, WriteFails
      <3>2. /\ broke' = broke \/ broke' = TRUE
            /\ UNCHANGED <<call, mine, entity, fulfilment, fulfilled, usage,
                           charged, key>>
        BY <2>6
        DEF NoCharge, StoreAnswer, NothingToStore, WriteLog,
            WriteFails, Break, fixed, stores, attempt,
            tally
      <3>3. broke' \in BOOLEAN /\ (broke => broke')
        BY <3>2, <1>5, StaysBroken
      <3>. QED BY <3>1, <3>2, <3>3, ResponseHookKeeps, Positions
    <2>. QED
      BY <1>4, <2>1, <2>2, <2>3, <2>4, <2>5, <2>6, GatewayTypes
      DEF ResponseHook, GatewayNext, Handle, GatewayInv, GatewayParts
  <1>6. CASE Build \/ Finish \/ Repeat \/ Redelivery \/ Expire
    BY <1>6, FinishKeeps, AttemptKeeps, ExpireKeeps, GatewayTypes
    DEF GatewayNext, Handle, GatewayInv, GatewayParts
  <1>. QED BY <1>1, <1>2, <1>3, <1>4, <1>6 DEF GatewayNext, Handle

(* Hence it holds in every state of every behaviour.                       *)
LEMMA GatewayInvariance == GatewaySpec => []GatewayInv
  <1>1. GatewayInit => GatewayInv
    BY GatewayInitial
  <1>2. GatewayInv /\ [GatewayNext]_gatewayVars => GatewayInv'
    BY GatewayInductive
  <1>. QED BY <1>1, <1>2, PTL DEF GatewaySpec

(* Every variable of the gateway keeps its type, whatever the quota and    *)
(* however often calls are repeated and messages redelivered.              *)
THEOREM GatewayTypeCorrect == GatewaySpec => []GatewayTypeOK
  <1>1. GatewayInv => GatewayTypeOK
    BY DEF GatewayInv
  <1>. QED BY <1>1, GatewayInvariance, PTL

(* A client that repeats a call with its key is served once, whichever of  *)
(* the seven middlewares fails at whichever end of the pipeline.           *)
THEOREM ServedOncePerKey == GatewaySpec => []FulfilledOncePerKey
  <1>1. GatewayInv => FulfilledOncePerKey
    BY DEF GatewayInv, KeyOwned, GatewayTypeOK, FulfilledOncePerKey
  <1>. QED BY <1>1, GatewayInvariance, PTL

(* At rest, a key is held for a fulfilled call only, unless a statement    *)
(* for it or a response hook failed.                                       *)
THEOREM RefusedCallsFreeTheirKey == GatewaySpec => []HeldKeyMeansFulfilled
  <1>1. GatewayInv => HeldKeyMeansFulfilled
    BY DEF GatewayInv, KeyOwned, HeldKeyMeansFulfilled
  <1>. QED BY <1>1, GatewayInvariance, PTL

(* Nobody is charged for a call that a hook refused or the service failed. *)
THEOREM FailuresAreFree == GatewaySpec => []NothingChargedForFailures
  <1>1. GatewayInv => NothingChargedForFailures
    BY DEF GatewayInv, Answered, NothingChargedForFailures
  <1>. QED BY <1>1, GatewayInvariance, PTL

(* Every step of the gateway is a step of the pipeline, leaves it alone,   *)
(* or is the client's, who sends its call again: the hooks never reach     *)
(* into the variables of make_response.                                    *)
THEOREM GatewayIsAPipeline == GatewaySpec => [][Next \/ Repeat]_vars
  <1>1. GatewayInv /\ [GatewayNext]_gatewayVars => [Next \/ Repeat]_vars
    BY GatewaySteps DEF GatewayInv, gatewayVars
  <1>. QED BY <1>1, GatewayInvariance, PTL DEF GatewaySpec
================================================================================
