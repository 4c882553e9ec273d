# TLA+ models of the services gateway

The gateway (`src/sgateway`) is an asyncio program: a Sanic application that
takes HTTP requests, and messages of an AMQP queue, through a pipeline of
middlewares to service methods, which use external providers to get their work
done. Its state is small, but nearly all of it is shared by requests that
interleave at every `await`, or lives in PostgreSQL, Redis, the broker or a
provider and survives a restart. That is what these modules model.

Paths below are relative to `src/sgateway` unless they begin with `src/`.

## 1. Inventory

| Component | State it keeps | Operations | What is hard |
|---|---|---|---|
| Request pipeline (`services/request.py`, `services/views.py`) | the local variables of `make_response` and of its loop | request hooks, service call, response hooks in a `finally`, HTTP reply | every call may raise; two loops with their own variables; exceptions replace each other |
| Queue handler (`core/mq.py`) | the message being handled | build a request, handle, give the broker a verdict | retry or abandon by the kind of the exception; redelivery |
| Services and providers (`services/base`, `services/registry.py`, `services/strategies.py`) | `round_robin_calls` in the locals of a service, one set for a worker | `get_provider`, `failover_provider_call`, `select` | interleaved requests share the counters; providers fail in any order |
| Email, SMS, currency exchange, tax rates (`services/*`) | none | `send`, `rates`, `convert`, `taxes_for_sale` | six APIs, each read in its own way; answers lost, late or misread; some errors not wrapped |
| Docs (`services/docs`) | a generator and its connection | `html_to_pdf` | errors after the response has begun; a generator nobody reads |
| Authentication (`middlewares/authentication.py`, `core/helpers.py`) | `entity_id`, a property set on the class `ServiceRequest` | authenticate | shared by all requests of a worker |
| Idempotency keys (`middlewares/idempotency_key.py`) | table `idempotancy_request` | check and insert, release | two statements without a transaction; expiry; restarts |
| Rate limiting (`middlewares/rate_limiting.py`) | one Redis key for an entity and a service, one for an entity | look up, refuse, count | looked up before and counted after the request; background task; expiry |
| Domain registration (`services/domains`) | three tables, a message, what the provider keeps | create and submit an intention, update DNS | a workflow over provider, database and queue without a transaction; lost answers; restarts |
| Response cache (`middlewares/caching.py`) | one Redis key for a path and a query | look up, answer early, store | no entity in the key; look-up, call and store are separate; expiry |
| Billing, log (`middlewares/billing.py`, `logger.py`) | none | headers; log lines | run after failures, too; may fail themselves |
| Application, database, Redis, configuration (`core`, `config`) | pools, credentials | start, load, stop | files left by a command that was killed |
| Management commands (`src/management`) | files, databases | encrypt, decrypt, create, drop | they empty their destination before they can fill it |

How they interact. `request_handler` of the blueprint and
`GatewayMQHandler.handle` both build a `ServiceRequest` and call
`RequestHandler.make_response`. It runs the middlewares in the order of
`config/common.py` 34-42 (start time, authentication, idempotency key, rate
limiting, billing, cache, log), the service method, and the middlewares again in
the *same* order. Authentication leaves the entity on the class
`ServiceRequest`; idempotency keys, rate limiting, billing and the domains
service read it from there. Service methods reach providers through
`BaseService.get_provider` or `failover_provider_call`, which share the
counters of the `RoundRobinStrategy`. The domains service publishes a message
that comes back to itself through the queue handler.

What makes each part correct:

- *Pipeline.* The service runs behind all hooks that apply; a failure is never
  told as a success; every response hook runs; a retryable message goes back.
- *Providers.* A failover asks each suitable provider at most once, all of them
  until one succeeds, and none after that; round robin stays balanced.
- *Idempotency.* One key is fulfilled once in a window; a failed request gives
  its key back; a rejected duplicate does not. The first two have exceptions in
  the code, again named by the properties.
- *Rate limiting.* A client is refused when its own requests fill the quota,
  usage stays within the quota, the counts are the requests served. The code
  keeps each of these only up to a point, which the properties name.
- *Services.* Who is told "done" had it done; work is repeated only where an
  answer was lost or misread; every client is told something.
- *Cache.* Nobody gets another client's private answer, a stale one, or one
  older than what was told before.
- *Credentials.* A command that fails does not lose them.
- *All together.* A call with a key is fulfilled once, its key comes free if it
  was not, and nobody is charged for a failure.
- *Domains.* Who is told a domain is registered owns it, under the account the
  database knows, and gets its DNS records.

`PROJECT.json` lists the components with their status, and under `hazards` what
is hard to test, each at its line.

## 2. Modules and plan

| Module | Models | Runs |
|---|---|---|
| `RequestContract` | what the gateway promises for one request, abstractly | through `RequestPipeline` |
| `RequestPipeline` | `make_response`, its loops, both callers | `MCRequestPipeline` |
| `ProviderFailover` | providers, round robin, failover | `MCProviderFailover`, `MCEmailFailover` |
| `ServiceCalls` | the methods of five services and their providers; uses `ProviderFailover` | `MCServiceCalls` |
| `IdempotencyKey` | the idempotency middleware and its table | `MCIdempotencyKey`, `MCKeyRace` |
| `RateLimiting` | the rate limiting middleware and Redis | `MCRateLimiting`, `MCQuotaForever` |
| `ResponseCache` | the cache middleware and Redis | `MCResponseCache` |
| `Gateway` | the seven configured middlewares around one call; extends `RequestPipeline` | `MCGateway` |
| `DomainRegistration` | the domains service, its tables, message and provider | `MCDomainRegistration` |
| `Credentials` | the credentials commands and the loading of their file | `MCCredentials` |
| `RequestPipelineProofs`, `ProviderFailoverProofs`, `ServiceCallsProofs`, `IdempotencyKeyProofs`, `RateLimitingProofs`, `ResponseCacheProofs`, `DomainRegistrationProofs`, `CredentialsProofs` | theorems of the module named, and of `Gateway` in the first | checked by `tlapm` |

`MC<component>.tla` extends its component and defines the values of its
constants; the `.cfg` of a run names them. No module declares a `RECURSIVE`
operator, so each can be proved about.

Two modules are composed with others. `ServiceCalls` has an `INSTANCE` of
`ProviderFailover` and supplies what that leaves open, which answer of which API
is a success, a `False`, an error. `Gateway` extends `RequestPipeline`, fixes
its number of hooks to seven (`Configured`, part of `GatewayInit`) and supplies
what each hook does and when it raises. Their actions conjoin an action of the module
they use with what happens to their own state. Steps of their own are those
that the other module knows nothing of: `StartDomestic`, which selects without
counters, the rejections of arguments, and `Repeat`, the client who calls again.

The abstract specification is `RequestContract`, which `RequestPipeline`
implements.

Left for later, in this order:

1. Two abstract specifications: an atomic key store that `IdempotencyKey` would
   implement if SELECT and INSERT were one step, and a registration that
   `DomainRegistration` implements without faults.
2. `LazyProperty` with its lock and coroutines, of which the gateway uses plain
   values only.

## 3. How the modules correspond to the code

One action is what the program does between two awaits (or between two
statements, where a statement is itself an external step). `map` in
`PROJECT.json` gives the lines of every definition.

**RequestPipeline.** `phase` and `next` are the place in `make_response` and in
its loop; `running` and `response` are the two variables called
`service_response`, one local to `_run_gateway_middlewares` and one to
`make_response`; `error` is the exception in flight. `RequestHookReturns`,
`RequestHookRaises`, `SkipHook` are an iteration of the request phase;
`CallService`, `AnswerWithoutService`, `ServiceReturns`, `ServiceRaises` the
body of the `try`; `ResponseHookReturns`, `ResponseHookRaises`, `EndOutgoing`
the `finally`; `Reply` the caller. Responses are known by who made them, so a
property can say whose answer a caller got. A hook may return nothing, a
`ServiceResponse` or an object of another type (`RawBy`), a service the latter
two, and each may raise: nothing looks at the types of what hooks return but
the two assertions of `make_response`. The one behind the response phase
(`OldResponseChecked`) looks at the old response, so that an object that a
response hook puts in its place reaches the caller. A task that Sanic cancels raises at an await, a
"crash". `Redeliver` is the broker.

**ProviderFailover.** `calls` is `round_robin_calls`, `remaining` is
`available_providers`, `current` the provider awaited. `Start` instantiates the
suitable providers, selects one, counts it and issues the call without an
await between. `FailOver` is the `except` branch with the next iteration,
`FailLast` the end of the loop. A provider that fails may have done the work
(`performed`, a history variable). `FalsyOnError` are providers that return
what the API said of errors, as Sendgrid's does: `False` for an error
(`AnswerFalse`), `True` if the API names none (`Succeed` without the work); `Unconfigured` are those
whose constructor calls `require_config` for a setting that is missing.

**IdempotencyKey.** `rows` is the table, with the request that inserted each
row as a history field; `entity` is the property on the class. A request comes
with a key (`Arrive`) or without (`ArriveWithoutKey`: the middleware does
nothing, but the entity on the class is another). `Check` or `Reject` is the
SELECT, `Insert` the INSERT, `Fulfil` and `Fail` the rest of the pipeline,
`Release` the DELETE of the response phase, in the scope computed then.
`CheckFails` and `ReleaseFails` are statements that fail, having taken effect or
not. `Crash` ends the requests of the worker; the table stays. `crossed`
(history) are the requests during which another entity was authenticated,
`doubled` the keys inserted while a live row of them was there.

**RateLimiting.** `redis` holds usage and expiry of each key, `reader` the
entity a request read in the request phase, `setting` the SETEX commands nobody
awaits, `charging` the background tasks. `LookService` and `LookTotal` are
`number_left` for the two scopes with the refusal that follows; commands of
one connection are answered in order. `LookFails` is a connection that fails.
`RunIncr` is the end of a background task: Redis has run both INCRs, the first
only or none, and nobody looks at the result; a SETEX may never run. `payer`
and `when` (history) say who was charged for a request and when, `lost` whose
task failed, `crossed` during which requests another entity was authenticated;
`overlapped` is set when a request comes before the last one is served and
counted.

**ServiceCalls.** The variables of `ProviderFailover`, with the eight providers
of five services, and `missing` (one setting that the configuration lacks),
`told` (the client's answer), `stream` (the generator of a document), `accepted`
(APIs that did the work) and `doubtful` (history: those whose answer was lost,
misread or too late). `ApiAnswers` classifies what an API may answer; the six
`...Send`, `...Taxes`, `...Rates`, `...Pdf` functions are the bodies of the
providers: which classes become a success, a `False`, an error that
the provider raises or an exception it does not expect. "blank" is JSON of
another status than the success with an empty or no list of errors, which
Sendgrid's provider returns as `True`; `taken` (history) is the answer that was
taken for the result. `BadArguments`,
`BadAmount`, `BadBody`, `BadDate` are the rejections before a provider is
called, `BadDate` after the counter was increased. `Answer` is one answer of an
API with everything the provider, `call_method` and `failover_provider_call`
make of it up to the next await; `TimeOut` is the web server that answers the
client and cancels the task. Under Python 3.6, which the README of the repository
names, and 3.7 the cancellation is an `Exception`, and the failover goes on. `Verdict`
is the error handler.

**ResponseCache.** `redis` is the cached answer of each key with its expiry,
`world` the version of what the methods report, `answer` the response a request
is going to be told, `floor` (history) the newest version told for its question
when it came, `overlapped` (history) the keys missed while a call for them was
under way. `Hit`, `Miss`, `Serve`, `Store` are the stretches between awaits;
`Fail` is an exception or cancellation at any of them, after which Redis may
still execute the SETEX; `Forget` is an eviction.

**Credentials.** `raw` and `enc` are the files `<config>.cfg` and
`<config>.cfg.aes`, `cmd` the command between its opening of the destination and
its end, `loaded` what the gateway started with. `StartDecrypt` and
`StartEncrypt` open, and thereby empty, the destination; `FinishDecrypt`,
`FinishEncrypt` and `DecryptFails` end a command, `Kill` ends it before or
inside the write. `Load` is `load_config`, which every command runs too
(`CanRun`).

**Gateway.** The variables of `RequestPipeline` with `NumHooks = 7` in the order
of `config/common.py`, and for the hooks `key`, `usage`, `cached` (database and
Redis), `mine` (the extension on the request), `entity` (the class), `charged`
and `fulfilment`. Each hook of each phase is an action with the guard under
which the middleware takes that path, and each is one outcome of a hook of
`RequestPipeline`: `InsertKey`, `DuplicateKey`, `QuotaSpent`, `CacheHit`,
`ReleaseKey`, `Count`, `Bill`, `StoreAnswer`, `WriteFails` and so on. `Misread`
are hooks that read an attribute a raw response does not have. `Build` is
`build_service_request` of the queue handler. Keys do not expire here and one
call runs at a time: expiry and concurrency are in `IdempotencyKey` and
`RateLimiting`.

**DomainRegistration.** `offer`, `finished`, `account`, `purchase` are the
database; `pc` and `using` a submission in `DomainRegistrationWorkflow`;
`message` and `attempts` the DNS message; `opened`, `owner`, `ready`, `dns`
what the provider keeps. The actions from `Submit` to `Record` are the steps
of `execute`, each with the ways it fails; the constraints `uix_1`,
`already_purchased` and the unique `intention_id` are the guards of the
statements they protect. `Deliver` to `UpdateFails` are
`update_registered_dns`. `passed` is where the loop over the record types is:
the types whose PUT did not raise in this attempt. `MarkComplete` looks at that
only (`LoopEnded`), never at `dns`, which is the provider's; whether the one
means the other depends on what `handle_resp` raises for (`Raises`). The
constant `Faults` says what may go wrong in a run; `faulted` (history) is set by
the first of them that does.

## 4. The runs

Passing runs (distinct states in parentheses):

- `MCRequestPipeline` (69 780): four hooks, the first and the third webhook
  friendly, as the first four middlewares of the configuration; both sources;
  hooks and services that return what they should, nothing, or an object of
  another type; one redelivery. Four hooks are enough for two to answer, one to
  be skipped between them and one behind. Also checks that the pipeline implements
  `RequestContract`, fairness included: the contract knows nothing of hooks.
- `MCProviderFailover` (366 722, by symmetry): three requests; `send` by
  providers 1, 2 and 3, `bulk` by 2 and 3, `page` by 3 and 4, `void` by none;
  1 answers False as Sendgrid does, 4 is not configured; single calls and
  failovers; every order of answers. With three suitable providers one fails
  first, in between and last.
- `MCServiceCalls` (24 591): a request and its repetition for every one of the
  six methods, every setting that may be missing, every answer of every API,
  a time-out at every moment. Two requests are enough for a repetition to
  overlap with the failover that goes on behind a time-out; `send` has all its
  three providers.
- `MCIdempotencyKey` (621 941): a request, its retry and a request of another
  entity, which has a scope of its own, each with the one key or without; a TTL
  of two ticks, requests that take one tick, arrivals up to tick 1, one restart,
  fairness. Three requests are needed for one that takes the entity away from
  another while a third repeats it. A row that is inserted at tick 0 expires
  at tick 2, between the arrival of a retry and its SELECT or INSERT. Webhooks,
  whose scope has a path of its own, are left to the theorems.
- `MCRateLimiting` (410 894): three requests of two senders, two in flight, one
  of them waiting for an idempotency key; a quota of one for the service and in
  all, windows of 1 and 2 ticks, one tick, so that both quotas are met and one
  window expires before the other; fairness.
- `MCResponseCache` (1 495 007, by symmetry): three requests for a method with
  global answers and one with private ones, two queries, GET and not; a TTL of
  one tick, requests of one tick, three ticks, one change of the world. Three
  requests are needed for an answer to be stored, put over another and read.
- `MCGateway` (50 657): the configurations local, dev, stage and prod in debug
  mode; six kinds of methods, tokens good, bad and absent, with a key and
  without; three attempts of a client with a quota of two, or two deliveries of
  a message; every outcome of every hook.
- `MCDomainRegistration` (24 433): two intentions of two entities for one
  domain, three submissions, all five kinds of faults at every step, the five
  attempts of the code at the DNS update, fairness.
- `MCCredentials` (4 188): two passphrases, two edits; commands, deletions and
  kills in any order and number. The second edit is there to outdate the
  encrypted file twice.

Violations are disagreements between the code and what a comment or a docstring
of the repository says of it (`findings` quotes each):

| Run | Property | What happens |
|---|---|---|
| `MCEmailFailover` | `UntilOneSucceeds` | a provider returns False and the others are never asked |
| `MCKeyRace` | `TransferOnce` | two duplicates pass the SELECT before either INSERT |
| `MCQuotaForever` | `QuotaResets` | an INCR creates the key without an expiry |

The passing runs show where the border of each of these, and of others, is.

- `FailureStaysFailure` says that an object of the wrong type gets past
  `make_response` only from a response hook: the assertion meant for it looks at
  the response from before.
- `OncePerWindowUnlessDoubled` is what is left of `TransferOnce`: neither a
  restart, a lost statement, an expiry nor a failed release opens a second way
  in. It excuses keys that had two live rows (`doubled`) and keys that were
  released by somebody who had taken another scope (`Robbed`): the DELETE of a
  failed request is made in the scope of whoever was authenticated last, since
  `entity_id` is on the class, and may hit the row of a request still served.
- `FailureFreesKeyUnlessCrossed` is the other side: then the row of the failed
  request itself stays until the TTL. That happens only to requests during
  which another entity was authenticated (`crossed`).
- `NoFalseRefusal` says that a client is refused when its own requests that were
  charged to it within the window fill the quota. It excuses (`Unexcused`) the
  two ways of the code to refuse earlier: another entity came, during the
  request or during one charged to the client, so that the one's usage is read
  or counted for the other; or the key lost its expiry (`MCQuotaForever`).
  Lost SETEX commands, failed tasks, expiries and overlaps are no excuse.
- `ServedIsCounted` excuses the tasks that failed (`lost`), which nobody repeats:
  their requests are never counted.
- `WithinQuotaUnlessOverlapping` says that the race is the only way past the
  quota; concurrent requests do get past it, and a usage above the quota turns
  the limit off.
- `UntilOneAnswers` is what is left of `UntilOneSucceeds`: a failover that leaves
  the work undone has asked every suitable provider, or was ended by a provider
  that returns its errors, or was kept from asking any by the missing setting
  of one. With Sendgrid's `False` the client is told a permanent error
  (`Verdict`).
- `SentMeansAccepted` says that Sendgrid's answer without a named error is the
  only one of any API that is taken for a success wrongly.
- `CompleteHasRecords` says that the end of the update loop means what the code
  takes it for, over attempts, redeliveries, restarts and lost answers.
- `RecordsUnlessFaulted` says that no interleaving of submissions alone loses
  the DNS records. A restart between the finished flag and the publication of
  the message does: the next submission finds the flag and publishes nothing.
- `OnceUnlessDoubtful` says that work is done twice only where an answer was
  lost, misread or late; that does happen, as the APIs get no key of the call.
- `NoneOlderUnlessOverlapping` says that only two calls that miss one key
  together can put an older answer over a newer one.
- `TornOnlyByKilling` says that a wrong passphrase at worst leaves an empty
  file, not half of one.

The models have more behaviours that a reader of the code may not expect and
that have no run of their own:

- One missing setting of one provider fails a failover before the first call
  (`StartNotConfigured`, `NotConfigured`).
- A request that fails after the work was done frees its key, and the retry
  repeats the work (`Fail` of `IdempotencyKey`).
- A request is counted for the entity authenticated last (`Serve` of
  `RateLimiting`), and billed though its response says unfulfilled (`Bill`).
- A failover that timed out goes on behind the back of the client (`TimeOut`).
- `convert` and `html_to_pdf` let exceptions of the HTTP client through to the
  error handler (`Wrapped`); a date that `rates` rejects has already been
  counted by round robin (`BadDate`).
- `taxes_for_address` returns no `ServiceResponse`; the response hooks that
  read one raise, and a call with a key keeps it for a day (`MisreadResponse`).
- Outside the local configuration every message for a method that is no webhook
  is refused, since the request made of it has no token (`Unauthorized`). A
  message that names no method leaves `handle` before its `try` (`Build` has no
  step for it).
- A provider error abandons the DNS message for good (`UpdateFails`).
- A wrong passphrase empties the raw file, with which the gateway starts
  without credentials; a torn one stops the gateway and every command, the one
  that would repair it too (`CanRun`).

**Bounds.** `MaxDeliveries`, `MaxHandling`, `LastArrival`, `MaxCrashes`,
`MaxInFlight`, `MaxTime`, `MaxChanges`, `MaxAttempts` and `MaxEdits` bound the
environment only, and each is a guard of an environment action or of an
arrival. `MaxHandling < TTL` of `IdempotencyKey` is the assumption that a
request ends (Sanic's 60 s time-out) before its key expires (a day);
`ResponseCache` makes no such assumption.

**Assumptions about the APIs.** `ApiAnswers` has the classes of answers that the
providers tell apart; an API that answers with the success a provider looks for
has done the work.

**Deadlock** is not checked: every system here is done when its finitely many
requests are.

**Fairness.** Weak fairness of a handler's own steps: asyncio resumes a task
whose awaited call has ended, and every awaited call ends by an answer, an
error or a time-out (`Handle` of `Gateway`; `Answer` of `ServiceCalls`, whose
streams also end, with either of their connections or with the collector). In
`ProviderFailover` and `ServiceCalls` clients need not come. In
`IdempotencyKey` time passes. In `RateLimiting` every awaited command
and every background task ends, by an answer of Redis or by losing it; no SETEX
need ever run, nor any INCR. In `DomainRegistration` the queue delivers and the provider becomes ready
some day; submissions need not be made. Nothing is assumed of restarts, of
faults, of repetitions or of the broker's redelivery.

**Types.** `TypeOK` is checked in the runs of `DomainRegistration` and
`ServiceCalls` (which includes that of `ProviderFailover`), `GatewayTypeOK`
(which includes that of `RequestPipeline`) in that of `Gateway`. They are proved
for all nine components.

## 5. What is proved

`tlapm <module>.tla` checks every theorem of the eight proof modules to its last
leaf. The only assumptions are the types of the constants, named
`PipelineAssumption`, `ProviderAssumption`, `KeyAssumption`, `LimitAssumption`,
`CacheAssumption`, `DomainAssumption`, `CredentialsAssumption` and
`GatewayAssumption` (which TLC evaluates for the values of the runs), with no
other assumption in any theorem. Whose work a request is (`WorkAssumption`)
the theorems do not need.

**RequestPipelineProofs**, for any number of middlewares and any subset of
webhook friendly ones: `TypeCorrect`, `ServiceIsGuarded`, `ResponseHooksRun`,
`FailureIsReported`, `ProvenanceHolds`, `RetriesComeBack`, and
`PipelineKeepsContract`, the refinement of `RequestContract!Spec`. None of the
properties is inductive: that the service was behind all hooks depends on how
far the loop had come when it was called. `FailureIsReported` holds for hooks and
services that return objects of any type.
The invariant is `TypeOK /\ Flow /\ ServiceBehindAllHooks /\
EveryResponseHookRuns`, where `Flow` says, for every phase, which hooks have run
so far, that `running` is empty until a hook answers, and how `error` and
`cause` are related. `ProvenanceHolds` and `RetriesComeBack` need a second
layer. `Answers` says that the hooks that answered lie behind the loop and that
the variable which is current in a phase holds the answer of the first, or the
last, of them; so a hook that answers is always the largest so far. `ErrorKept`
says that nothing but a response hook that raises or answers comes between the
error of the service and the caller. The refinement uses the invariant to show
that a step that closes a request is one that the contract allows.

The same module proves theorems of **Gateway**, whose steps are those of a
pipeline of seven, for any quota and any number of attempts and deliveries: `GatewayTypeCorrect`,
`ServedOncePerKey`, `RefusedCallsFreeTheirKey`, `FailuresAreFree`, and
`GatewayIsAPipeline`, that every step is one of the pipeline's, leaves its
variables alone or is the client's. What the client gets once, and keeps, is
decided at both ends of the pipeline by different hooks, so the invariant ties
the state of the stores to the place of the call. `Answered` says what the
response variable of a phase tells of the attempt: before the log only the cache
answers, and nothing raises behind it, so that a fulfilled answer is always in
the hands of the response hooks; and an error of the request phase or the
service leaves them no response, or the raw one of `taxes_for_address`, which is
not priced. `KeyOwned` says that past its hook a call holds the key and inserted
it itself, that the key of a fulfilled call stays, and that any other is held
only up to the response hook of the key, unless something failed. `BelowQuota`,
which the type of `usage` needs, says that a call past the limit still has room
when it is counted. TLC found the three to hold in every state of `MCGateway`
before they were proved. One call at a time is what makes them true: with more,
`IdempotencyKey` and `RateLimiting` say what is left of them.

**ProviderFailoverProofs**, for any requests, providers and methods:
`TypeCorrect`, `CallsOncePerProvider`, `FailoverStops`, `RoundRobinIsFair`,
`FailoverTriesAll`. The invariant is `TypeOK /\ Progress`; `Progress` says that
the providers a request has called are those that left its `remaining` and
the current one, each once. `RoundRobinIsFair` needs no more than that the least
called of the offered providers is selected, and counts a selection from a part
of the providers in `narrowed`. `FailoverTriesAll` puts no assumption on the
providers: any may be unconfigured, and any may return its errors.

**ServiceCallsProofs**, for any number of requests and works and any settings:
`TypeCorrect`, `SuccessIsReal`, `RetryIsHonest`, `WorkIsDoneOnce`. `Readings`
says of every provider that the answer it takes for a success is the one that
says so and no other, but for Sendgrid's blank one. `Progress` says of every
request whose client has not been answered that all APIs that did its work are doubtful, and of an answered
one that all but the last are. `Alone` says that of the requests of one work at
most one is open or answered; it is inductive since a client repeats only what
was told otherwise, and a time-out is never taken back by a late answer. The
two give `WorkIsDoneOnce`: an API that did the work and was heard belongs to
the one answered request, and is its last.

**IdempotencyKeyProofs**, for any requests, keys, times and number of restarts:
`TypeCorrect`, `OnlyHolders`, `FailuresFreeKeys`, `FulfilledOnce`, for any
entities and webhooks. That a key is fulfilled once in a window
is not inductive: the second request is kept out by the row of the first, which
must still be there. So the invariant has `KeepsRow`, that whoever got past the
check and is served, or was, still has his row while it is live, unless it was
doubled or robbed; and `Apart`, that two such requests of a key are never within
one window, so that nobody of the same scope deletes the row. A request that no
other entity has crossed frees the scope it took, which gives
`FailuresFreeKeys`. `Times` turns `MaxHandling < TTL` into the fact that a
request that releases its key still holds it.

**RateLimitingProofs**, for any requests and senders, quotas and windows and any
number of requests at a time: `TypeCorrect`, `RefusedAtQuota`, `CountsAreTrue`,
`RaceIsTheOnlyWay`. `Counting` bounds the usage of every key by the requests
charged under it (`PaidUnder`) and, while the key has its expiry, by those
charged since its window began (`Since`). The first bound is `CountsAreTrue`.
The second gives `RefusedAtQuota`, together with `Honest`, that a request nobody
crossed reads its own entity and is charged to it. `ChargedOnce` says that a
request on its way to be counted has not been counted, so that every INCR is a
new request. `Single`, `Own` and `HasRoom` say that without an overlap one
request is there, everybody reads its entity, and it still has the room under
the quota that it saw when it was let past.

**ResponseCacheProofs**, for any requests, methods and queries, any TTL and any
handling time: `TypeCorrect`, `AnswersAreFresh`, `SharedIsGlobal`,
`AnswersDoNotGoBack`. What a client is told came from a cell that another
request filled; the invariant therefore says of every cell who made its answer,
for which key and when it expires (`Cells`), the same of an answer on its way
to a cell (`Made`), and, for the last theorem, that nobody was told a newer
answer (`StoresNewest`, `HoldsNewest`). That holds because without an overlap a
request that is to fill a key is alone (`Alone`) and finds it empty (`Emptied`).

**DomainRegistrationProofs**, for any intentions, entities, domains and
submissions, any number of attempts and every set of faults: `TypeCorrect`,
`FinishedOwns`, `RecordedAccountOwns`, `CreatedOnceAndScheduled`,
`CompleteIsSetUp`, `NothingIsTakenBack`. Who owns a domain is decided when it
is bought, two awaits before the database says so. `Place` says what a
submission knows at each step: at "purchase" the account it uses is the one of
the table, at "finish" and "record" the domain is its intention's. `PlaceStays`
shows that this survives whatever the others do, because of the action property
`Lasting`: accounts, sales, records, finished flags, purchases and messages are
never undone (`NothingIsTakenBack` states it of its own). `FinishSource` and
`SaleSource` name the only steps that finish and sell. `CompleteIsSetUp` needs
that every type in `passed` is in `dns`, through every attempt: a PUT that does
not raise was carried out, and records are never taken away.

**CredentialsProofs**, for any passphrases and any number of edits:
`TypeCorrect`, `NothingLostByFailing`, `OnlyKillingTears`. The strengthening
`InProgress` says that the file a command writes is empty or torn until the
command ends, so that it is the other one that holds the credentials;
`TornText` says that the encrypted file holds half a text only if a command was
killed.

Left to TLC: liveness (`UnfulfilledKeyComesFree`, `ServedIsCounted`,
`RecordsUnlessFaulted`, `SoldIsFinishedUnlessFaulted`, `EveryRequestTold`,
`EveryCallIsSettled`) and the fairness part of `ImplementsContract`, since TLAPS
does not reason about `ENABLED`.

## 6. What is not modelled

- Payloads, schemas, headers, log lines, formatting of replies: data no
  property depends on.
- What the broker library does with an exception it does not know: it is not in
  the repository.
- `LazyProperty` beyond plain values. The gateway gives it nothing to await, so
  its lock and its stored coroutines are never used.
- Providers that are mocks or not registered (`MockedProvider`,
  `JsonratesProvider`), and TaxJar, which is registered and never selected: AvaTax is the
  only provider of the domestic strategy that supports the country.
- Connection pools of PostgreSQL and Redis: no code holds a connection of one
  pool while it waits for another of the same.
- Several workers. Each has its own counters and its own `entity_id`; the table
  and Redis are shared, and more workers only add interleavings of the kind
  already modelled between requests of one.
- Registration of services, application start-up beyond the credentials, the
  `db` command, the central configuration (a stub), migrations, admin.
