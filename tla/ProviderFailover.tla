--------------------------- MODULE ProviderFailover --------------------------
(***************************************************************************)
(* How a service gets its work done by external providers: get_provider    *)
(* asks the strategy for one provider and calls it, failover_provider_call *)
(* tries the suitable providers one by one.  The requests of one worker    *)
(* process interleave at their awaits and share the counters of the        *)
(* RoundRobinStrategy, which live in the locals of the service.            *)
(*                                                                         *)
(* Everything between two awaits is one action: after a failed call the    *)
(* provider is removed, the next one is selected and its call is issued    *)
(* without the event loop running anything else.                           *)
(***************************************************************************)
EXTENDS Naturals, FiniteSets

CONSTANTS Requests,
          NumProviders,   \* providers are numbered in registration order
          Methods,        \* provider methods a service asks for
          Provides,       \* Provides[m]: providers that have the method m
          Unconfigured,   \* providers whose constructor misses its setting
          FalsyOnError,   \* providers that return what the API said of errors:
                          \* False to an error, True if it names none
          Kinds           \* ways the services of the run use providers

Providers == 1..NumProviders

ASSUME ProviderAssumption == /\ NumProviders \in Nat
                             /\ Provides \in [Methods -> SUBSET Providers]
                             /\ Unconfigured \subseteq Providers
                             /\ FalsyOnError \subseteq Providers
                             /\ Kinds \subseteq {"failover", "single"}

NoProvider == 0

VARIABLES
  calls,      \* round_robin_calls: selections of each provider so far
  pc,         \* "idle", "calling" or "done"
  kind,       \* failover_provider_call or get_provider + call_method
  method,     \* the provider method the request needs
  remaining,  \* available_providers of the request
  current,    \* the provider whose answer is awaited
  result,     \* what the caller in the service gets
  tried,      \* history: times the request called each provider
  performed,  \* history: providers that really did the work
  narrowed    \* history: selections each provider had no part in

request == <<pc, kind, method, remaining, current, result>>
vars == <<calls, request, tried, performed, narrowed>>

Results == {"none", "ok", "falsy", "failover_fail", "provider_error",
            "unavailable", "not_configured"}

(* _silent and the log lines of a call change nothing here.                *)
Init == /\ calls = [p \in Providers |-> 0]
        /\ pc = [r \in Requests |-> "idle"]
        /\ kind \in [Requests -> Kinds]
        /\ method \in [Requests -> Methods]
        /\ remaining = [r \in Requests |-> {}]
        /\ current = [r \in Requests |-> NoProvider]
        /\ result = [r \in Requests |-> "none"]
        /\ tried = [r \in Requests |-> [p \in Providers |-> 0]]
        /\ performed = [r \in Requests |-> {}]
        /\ narrowed = [p \in Providers |-> 0]

-----------------------------------------------------------------------------
(* ServiceRegistry.get_providers *)
Available(r) == Provides[method[r]]

(* RoundRobinStrategy.select: sorted() is stable, so the first of the      *)
(* least called providers is taken.                                        *)
MutantPrecedes(p, q) == p <= q
Precedes(p, q) == \/ calls[p] < calls[q]
                  \/ calls[p] = calls[q] /\ p <= q

IsSelected(p, S) == p \in S /\ \A q \in S : Precedes(p, q)

Counted(p) == [calls EXCEPT ![p] = @ + 1]

Passed(S) == [q \in Providers |-> IF q \in S THEN narrowed[q]
                                            ELSE narrowed[q] + 1]

(* The selected provider is counted and its call is issued.                *)
Issue(r, p, S) ==
  /\ calls' = Counted(p)
  /\ pc' = [pc EXCEPT ![r] = "calling"]
  /\ remaining' = [remaining EXCEPT ![r] = S]
  /\ current' = [current EXCEPT ![r] = p]
  /\ tried' = [tried EXCEPT ![r][p] = @ + 1]
  /\ narrowed' = Passed(S)

Return(r, value) ==
  /\ pc' = [pc EXCEPT ![r] = "done"]
  /\ result' = [result EXCEPT ![r] = value]

-----------------------------------------------------------------------------
(* No provider has the method: _get_available_providers raises.            *)
StartUnavailable(r) ==
  /\ pc[r] = "idle" /\ Available(r) = {}
  /\ Return(r, "unavailable")
  /\ UNCHANGED <<calls, kind, method, remaining, current, tried, performed,
                 narrowed>>

(* All suitable providers are instantiated before one is selected; one     *)
(* whose require_config fails raises ConfigurationError for all of them.   *)
StartNotConfigured(r) ==
  /\ pc[r] = "idle" /\ Available(r) \cap Unconfigured # {}
  /\ Return(r, "not_configured")
  /\ UNCHANGED <<calls, kind, method, remaining, current, tried, performed,
                 narrowed>>

Start(r, p) ==
  /\ pc[r] = "idle" /\ Available(r) \cap Unconfigured = {}
  /\ IsSelected(p, Available(r))
  /\ Issue(r, p, Available(r))
  /\ UNCHANGED <<kind, method, result, performed>>

Performs(r, did) == performed' = IF did
                      THEN [performed EXCEPT ![r] = @ \cup {current[r]}]
                      ELSE performed

MutantSucceed(r, did) ==
  /\ pc[r] = "calling" /\ (did \/ current[r] \in FalsyOnError)
  /\ Performs(r, did)
  /\ Issue(r, current[r], remaining[r])
  /\ UNCHANGED <<kind, method, result>>
Succeed(r, did) ==
  /\ pc[r] = "calling" /\ (did \/ current[r] \in FalsyOnError)
  /\ Performs(r, did)
  /\ Return(r, "ok")
  /\ UNCHANGED <<calls, kind, method, remaining, current, tried, narrowed>>

(* An API error reported by the return value is no exception: the loop of  *)
(* failover_provider_call ends, the service raises ServiceInternalError.   *)
AnswerFalse(r) ==
  /\ pc[r] = "calling" /\ current[r] \in FalsyOnError
  /\ Return(r, "falsy")
  /\ UNCHANGED <<calls, kind, method, remaining, current, tried, performed,
                 narrowed>>

(* The call raises: an error answer, a lost connection, a time-out or the  *)
(* cancellation of the request's task.  The provider may have done the     *)
(* work all the same.                                                      *)
MutantRest(r) == remaining[r]
Rest(r) == remaining[r] \ {current[r]}

FailSingle(r, did) ==
  /\ pc[r] = "calling" /\ kind[r] = "single"
  /\ Performs(r, did)
  /\ Return(r, "provider_error")
  /\ UNCHANGED <<calls, kind, method, remaining, current, tried, narrowed>>

MutantGivesUp(r) == Cardinality(Rest(r)) <= 1
GivesUp(r) == Rest(r) = {}

FailOver(r, did, p) ==
  /\ pc[r] = "calling" /\ kind[r] = "failover"
  /\ ~GivesUp(r)
  /\ Performs(r, did)
  /\ IsSelected(p, Rest(r))
  /\ Issue(r, p, Rest(r))
  /\ UNCHANGED <<kind, method, result>>

FailLast(r, did) ==
  /\ pc[r] = "calling" /\ kind[r] = "failover"
  /\ GivesUp(r)
  /\ Performs(r, did)
  /\ remaining' = [remaining EXCEPT ![r] = Rest(r)]
  /\ Return(r, "failover_fail")
  /\ UNCHANGED <<calls, kind, method, current, tried, narrowed>>

Begin(r) == \/ StartUnavailable(r)
            \/ StartNotConfigured(r)
            \/ \E p \in Providers : Start(r, p)
Answer(r) == \/ AnswerFalse(r)
             \/ \E did \in BOOLEAN : \/ Succeed(r, did)
                                     \/ FailSingle(r, did)
                                     \/ \E p \in Providers : FailOver(r, did, p)
                                     \/ FailLast(r, did)

Next == \E r \in Requests : Begin(r) \/ Answer(r)

Spec == Init /\ [][Next]_vars

-----------------------------------------------------------------------------
(* Properties *)

TypeOK ==
  /\ calls \in [Providers -> Nat]
  /\ pc \in [Requests -> {"idle", "calling", "done"}]
  /\ kind \in [Requests -> Kinds]
  /\ method \in [Requests -> Methods]
  /\ remaining \in [Requests -> SUBSET Providers]
  /\ current \in [Requests -> Providers \cup {NoProvider}]
  /\ result \in [Requests -> Results]
  /\ tried \in [Requests -> [Providers -> Nat]]
  /\ performed \in [Requests -> SUBSET Providers]
  /\ narrowed \in [Providers -> Nat]

(* Whatever fails in whatever order, one request calls one provider at     *)
(* most once, and only a provider that has the method: at-most-once is     *)
(* left to the providers by failover_provider_call (166-169), each of them *)
(* gets the work at most once from it.                                     *)
OncePerProvider ==
  \A r \in Requests, p \in Providers :
    tried[r][p] <= IF p \in Available(r) THEN 1 ELSE 0

(* README.md 170-171 of a failover call: "calling different Providers      *)
(* (sequentially) until one of them finally done without errors".  One     *)
(* that leaves the work undone has asked every provider of the method.     *)
UntilOneSucceeds ==
  \A r \in Requests :
    kind[r] = "failover" /\ pc[r] = "done" /\ performed[r] = {} =>
      \A p \in Available(r) : tried[r][p] = 1

(* What the code keeps of that promise.  A failover call that leaves the   *)
(* work undone has asked every provider of the method once, whatever was   *)
(* lost and whoever was asked by other requests meanwhile; or it was ended *)
(* by the answer of a provider that does not raise its errors, and only    *)
(* then; or a missing setting of one provider kept it from asking any.     *)
UntilOneAnswers ==
  \A r \in Requests :
    kind[r] = "failover" /\ pc[r] = "done" /\ performed[r] = {} =>
      \/ /\ result[r] = "failover_fail"
         /\ \A p \in Available(r) : tried[r][p] = 1
      \/ /\ result[r] \in {"falsy", "ok"}
         /\ current[r] \in FalsyOnError \cap Available(r)
      \/ /\ result[r] \in {"unavailable", "not_configured"}
         /\ Available(r) = {} \/ Available(r) \cap Unconfigured # {}
         /\ \A p \in Providers : tried[r][p] = 0

(* A failover call stops at the first success: all but the last provider   *)
(* it asked have failed, a successful one is the last, and who reports ok  *)
(* did the work, unless it is one that takes no error for a success.       *)
StopsAtSuccess ==
  \A r \in Requests :
    /\ result[r] = "ok" => current[r] \in performed[r] \cup FalsyOnError
    /\ pc[r] = "calling" => current[r] \notin performed[r]
    /\ pc[r] = "calling" => tried[r][current[r]] = 1

(* Round robin stays fair under any interleaving of failovers whose        *)
(* choices shrink: a provider is ahead of another by one selection at      *)
(* most, and by one for every selection the other had no part in.          *)
SpreadBounded ==
  \A p, q \in Providers : calls[p] <= calls[q] + 1 + narrowed[q]

=============================================================================
