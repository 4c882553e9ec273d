----------------------- MODULE ProviderFailoverProofs ------------------------
(***************************************************************************)
(* Theorems of ProviderFailover, for any number of requests, providers and *)
(* methods.  Progress is the inductive invariant behind them: it says of   *)
(* every request which providers it has called already and which it keeps  *)
(* in reserve.                                                             *)
(***************************************************************************)
EXTENDS ProviderFailover, TLAPS

(* The providers a request has called: those it gave up and the one whose  *)
(* answer it awaits.                                                       *)
Called(r) == (Available(r) \ remaining[r]) \cup {current[r]}

Idle(r) == /\ performed[r] = {} /\ result[r] = "none"
           /\ \A p \in Providers : tried[r][p] = 0

Calling(r) == /\ remaining[r] \subseteq Available(r)
              /\ current[r] \in remaining[r]
              /\ performed[r] \cap remaining[r] = {}
              /\ result[r] = "none"
              /\ \A p \in Providers :
                   tried[r][p] = IF p \in Called(r) THEN 1 ELSE 0

Done(r) == /\ result[r] = "ok" => current[r] \in performed[r] \cup FalsyOnError
           /\ \A p \in Providers :
                tried[r][p] <= IF p \in Available(r) THEN 1 ELSE 0

Progress == \A r \in Requests : /\ pc[r] = "idle"    => Idle(r)
                                /\ pc[r] = "calling" => Calling(r)
                                /\ pc[r] = "done"    => Done(r)

IInv == TypeOK /\ Progress

-----------------------------------------------------------------------------
(* Issue, the step that Start and FailOver share, keeps the types.         *)
LEMMA IssueType ==
  ASSUME TypeOK, NEW r \in Requests, NEW p \in Providers,
         NEW S \in SUBSET Providers, Issue(r, p, S)
  PROVE  /\ calls' \in [Providers -> Nat]
         /\ pc' \in [Requests -> {"idle", "calling", "done"}]
         /\ remaining' \in [Requests -> SUBSET Providers]
         /\ current' \in [Requests -> Providers \cup {NoProvider}]
         /\ tried' \in [Requests -> [Providers -> Nat]]
         /\ narrowed' \in [Providers -> Nat]
  BY DEF TypeOK, Issue, Counted, Passed, NoProvider

(* Only providers of the service have a method.                            *)
LEMMA AvailableType ==
  ASSUME TypeOK, NEW r \in Requests
  PROVE  Available(r) \subseteq Providers
  BY ProviderAssumption DEF TypeOK, Available

(* A request ends with one of the results of the code.                     *)
LEMMA ReturnType ==
  ASSUME TypeOK, NEW r \in Requests, NEW value \in Results, Return(r, value)
  PROVE  /\ pc' \in [Requests -> {"idle", "calling", "done"}]
         /\ result' \in [Requests -> Results]
  BY DEF TypeOK, Return

(* A call that raised leaves at most one more provider that did the work.  *)
LEMMA PerformsType ==
  ASSUME TypeOK, NEW r \in Requests, NEW did \in BOOLEAN,
         Performs(r, did), current[r] \in Providers
  PROVE  performed' \in [Requests -> SUBSET Providers]
  BY DEF TypeOK, Performs

(* Type correctness and Progress hold at the start.                        *)
LEMMA InitIInv == Init => IInv
  <1> SUFFICES ASSUME Init PROVE IInv
    OBVIOUS
  <1>1. TypeOK
    BY DEF Init, TypeOK, NoProvider, Results
  <1>2. Progress
    BY DEF Init, Progress, Idle
  <1>. QED BY <1>1, <1>2 DEF IInv

-----------------------------------------------------------------------------
(* What a request that stops, or issues a call, leaves of Progress.        *)

(* The other requests of the worker are not touched.                       *)
Frame(r) == \A q \in Requests \ {r} :
              /\ pc'[q] = pc[q] /\ method'[q] = method[q]
              /\ remaining'[q] = remaining[q] /\ current'[q] = current[q]
              /\ result'[q] = result[q]
              /\ tried'[q] = tried[q] /\ performed'[q] = performed[q]

(* Progress is a statement about one request at a time.                    *)
LEMMA ProgressFrame ==
  ASSUME Progress, NEW r \in Requests, Frame(r),
         /\ pc'[r] = "idle"    => Idle(r)'
         /\ pc'[r] = "calling" => Calling(r)'
         /\ pc'[r] = "done"    => Done(r)'
  PROVE  Progress'
  BY DEF Progress, Frame, Idle, Calling, Done, Called, Available

(* StartUnavailable and StartNotConfigured, whose request never called.    *)
LEMMA RefusedIInv ==
  ASSUME IInv, NEW r \in Requests,
         pc[r] = "idle", NEW value \in Results \ {"ok"}, Return(r, value),
         UNCHANGED <<calls, kind, method, remaining, current, tried, performed,
                     narrowed>>
  PROVE  IInv'
  <1>1. TypeOK'
    BY ReturnType DEF IInv, TypeOK
  <1>2. Frame(r)
    BY DEF IInv, TypeOK, Frame, Return
  <1>3. Idle(r)
    BY DEF IInv, Progress
  <1>4. pc'[r] = "done" /\ result'[r] = value
    BY DEF IInv, TypeOK, Return
  <1>5. Done(r)'
    BY <1>3, <1>4 DEF Idle, Done, Available
  <1>6. Progress'
    BY <1>2, <1>4, <1>5, ProgressFrame DEF IInv
  <1>. QED BY <1>1, <1>6 DEF IInv

(* The first call of a request.                                            *)
LEMMA StartIInv ==
  ASSUME IInv, NEW r \in Requests, NEW p \in Providers, Start(r, p)
  PROVE  IInv'
  <1>1. Available(r) \in SUBSET Providers
    BY AvailableType DEF IInv
  <1>2. TypeOK'
    BY <1>1, IssueType DEF IInv, TypeOK, Start
  <1>3. Frame(r)
    BY DEF IInv, TypeOK, Frame, Start, Issue
  <1>4. Idle(r)
    BY DEF IInv, Progress, Start
  <1>5. /\ pc'[r] = "calling" /\ method' = method /\ result' = result
        /\ performed' = performed
        /\ remaining'[r] = Available(r) /\ current'[r] = p
        /\ tried'[r] = [tried[r] EXCEPT ![p] = @ + 1]
        /\ p \in Available(r)
    BY DEF IInv, TypeOK, Start, Issue, IsSelected
  <1>6. Calling(r)'
    <2>1. Available(r)' = Available(r)
      BY <1>5 DEF Available
    <2>2. Called(r)' = {p}
      BY <1>5, <2>1 DEF Called
    <2>3. \A q \in Providers :
            tried'[r][q] = IF q \in Called(r)' THEN 1 ELSE 0
      BY <1>4, <1>5, <2>2 DEF Idle, IInv, TypeOK
    <2>. QED BY <1>4, <1>5, <2>1, <2>3 DEF Calling, Idle
  <1>7. Progress'
    BY <1>3, <1>5, <1>6, ProgressFrame DEF IInv
  <1>. QED BY <1>2, <1>7 DEF IInv

(* The end of a request that awaited a call: with any result, and with any *)
(* change to its own remaining providers and its own successes.            *)
LEMMA EndIInv ==
  ASSUME IInv, NEW r \in Requests,
         pc[r] = "calling", NEW value \in Results, Return(r, value),
         performed' \in [Requests -> SUBSET Providers],
         remaining' \in [Requests -> SUBSET Providers],
         \A q \in Requests \ {r} : /\ performed'[q] = performed[q]
                                   /\ remaining'[q] = remaining[q],
         value = "ok" => current[r] \in performed'[r] \cup FalsyOnError,
         UNCHANGED <<calls, kind, method, current, tried, narrowed>>
  PROVE  IInv'
  <1>1. TypeOK'
    BY ReturnType DEF IInv, TypeOK
  <1>2. Frame(r)
    BY DEF IInv, TypeOK, Frame, Return
  <1>3. Calling(r)
    BY DEF IInv, Progress
  <1>4. pc'[r] = "done" /\ result'[r] = value
    BY DEF IInv, TypeOK, Return
  <1>5. Done(r)'
    <2>1. Called(r) \subseteq Available(r)
      BY <1>3 DEF Calling, Called
    <2>. QED BY <1>3, <1>4, <2>1 DEF Calling, Done, Available
  <1>6. Progress'
    BY <1>2, <1>4, <1>5, ProgressFrame DEF IInv
  <1>. QED BY <1>1, <1>6 DEF IInv

(* A call that raised is followed by a call to a provider in reserve.      *)
LEMMA FailOverIInv ==
  ASSUME IInv, NEW r \in Requests, NEW did \in BOOLEAN, NEW p \in Providers,
         FailOver(r, did, p)
  PROVE  IInv'
  <1>1. Calling(r)
    BY DEF IInv, Progress, FailOver
  <1>2. /\ Available(r) \in SUBSET Providers
        /\ Rest(r) \in SUBSET Providers
        /\ current[r] \in Providers
    BY <1>1, AvailableType DEF IInv, Calling, Rest
  <1>3. TypeOK'
    BY <1>2, IssueType, PerformsType DEF IInv, TypeOK, FailOver
  <1>4. Frame(r)
    BY DEF IInv, TypeOK, Frame, FailOver, Issue, Performs
  <1>5. /\ pc'[r] = "calling" /\ method' = method /\ result' = result
        /\ remaining'[r] = Rest(r) /\ current'[r] = p
        /\ tried'[r] = [tried[r] EXCEPT ![p] = @ + 1]
        /\ p \in Rest(r)
    BY DEF IInv, TypeOK, FailOver, Issue, IsSelected
  <1>6. performed'[r] \subseteq performed[r] \cup {current[r]}
    BY DEF IInv, TypeOK, FailOver, Performs
  <1>7. Calling(r)'
    <2>1. Available(r)' = Available(r)
      BY <1>5 DEF Available
    <2>2. Called(r)' = Called(r) \cup {p} /\ p \notin Called(r)
      BY <1>1, <1>5, <2>1 DEF Called, Rest, Calling
    <2>3. \A q \in Providers :
            tried'[r][q] = IF q \in Called(r)' THEN 1 ELSE 0
      <3> SUFFICES ASSUME NEW q \in Providers
                   PROVE  tried'[r][q] = IF q \in Called(r)' THEN 1 ELSE 0
        OBVIOUS
      <3>1. tried[r] \in [Providers -> Nat]
        BY DEF IInv, TypeOK
      <3>2. tried[r][q] = IF q \in Called(r) THEN 1 ELSE 0
        BY <1>1 DEF Calling
      <3>3. CASE q = p
        BY <1>5, <2>2, <3>1, <3>2, <3>3
      <3>4. CASE q # p
        BY <1>5, <2>2, <3>1, <3>2, <3>4
      <3>. QED BY <3>3, <3>4
    <2>4. performed'[r] \cap remaining'[r] = {}
      BY <1>1, <1>5, <1>6 DEF Calling, Rest
    <2>5. remaining'[r] \subseteq Available(r)'
      BY <1>1, <1>5, <2>1 DEF Calling, Rest
    <2>. QED BY <1>1, <1>5, <2>3, <2>4, <2>5 DEF Calling
  <1>8. Progress'
    BY <1>4, <1>5, <1>7, ProgressFrame DEF IInv
  <1>. QED BY <1>3, <1>8 DEF IInv

(* Every step of every request keeps the invariant.                        *)
LEMMA NextIInv == IInv /\ [Next]_vars => IInv'
  <1> SUFFICES ASSUME IInv, [Next]_vars PROVE IInv'
    OBVIOUS
  <1>1. CASE UNCHANGED vars
    BY <1>1 DEF vars, request, IInv, TypeOK, Progress, Idle, Calling, Done,
                Called, Available
  <1>2. ASSUME NEW r \in Requests, Begin(r) PROVE IInv'
    <2>1. CASE StartUnavailable(r)
      BY <2>1, RefusedIInv DEF StartUnavailable, Results
    <2>2. CASE StartNotConfigured(r)
      BY <2>2, RefusedIInv DEF StartNotConfigured, Results
    <2>3. ASSUME NEW p \in Providers, Start(r, p) PROVE IInv'
      BY <2>3, StartIInv
    <2>. QED BY <1>2, <2>1, <2>2, <2>3 DEF Begin
  <1>3. ASSUME NEW r \in Requests, Answer(r) PROVE IInv'
    <2>1. TypeOK /\ pc[r] = "calling" /\ current[r] \in Providers
      <3>1. pc[r] = "calling"
        BY <1>3 DEF Answer, Succeed, AnswerFalse, FailSingle, FailOver, FailLast
      <3>. QED BY <3>1, AvailableType DEF IInv, Progress, Calling
    <2>2. ASSUME NEW did \in BOOLEAN, Succeed(r, did) PROVE IInv'
      <3>1. /\ performed' \in [Requests -> SUBSET Providers]
            /\ current[r] \in performed'[r] \cup FalsyOnError
            /\ \A q \in Requests \ {r} : performed'[q] = performed[q]
        BY <2>1, <2>2, PerformsType DEF TypeOK, Succeed, Performs
      <3>2. Return(r, "ok") /\ "ok" \in Results
        BY <2>2 DEF Succeed, Results
      <3>. QED BY <2>1, <2>2, <3>1, <3>2, EndIInv DEF TypeOK, Succeed
    <2>3. CASE AnswerFalse(r)
      <3>1. Return(r, "falsy") /\ "falsy" \in Results
        BY <2>3 DEF AnswerFalse, Results
      <3>. QED BY <2>1, <2>3, <3>1, EndIInv DEF TypeOK, AnswerFalse
    <2>4. ASSUME NEW did \in BOOLEAN, FailSingle(r, did) PROVE IInv'
      <3>1. /\ performed' \in [Requests -> SUBSET Providers]
            /\ \A q \in Requests \ {r} : performed'[q] = performed[q]
        BY <2>1, <2>4, PerformsType DEF TypeOK, FailSingle, Performs
      <3>2. Return(r, "provider_error") /\ "provider_error" \in Results
        BY <2>4 DEF FailSingle, Results
      <3>. QED BY <2>1, <2>4, <3>1, <3>2, EndIInv DEF TypeOK, FailSingle
    <2>5. ASSUME NEW did \in BOOLEAN, NEW p \in Providers, FailOver(r, did, p)
          PROVE  IInv'
      BY <2>5, FailOverIInv
    <2>6. ASSUME NEW did \in BOOLEAN, FailLast(r, did) PROVE IInv'
      <3>1. /\ performed' \in [Requests -> SUBSET Providers]
            /\ remaining' \in [Requests -> SUBSET Providers]
            /\ \A q \in Requests \ {r} : /\ performed'[q] = performed[q]
                                         /\ remaining'[q] = remaining[q]
        BY <2>1, <2>6, PerformsType DEF TypeOK, FailLast, Performs, Rest
      <3>2. Return(r, "failover_fail") /\ "failover_fail" \in Results
        BY <2>6 DEF FailLast, Results
      <3>. QED BY <2>1, <2>6, <3>1, <3>2, EndIInv DEF FailLast
    <2>. QED BY <1>3, <2>2, <2>3, <2>4, <2>5, <2>6 DEF Answer
  <1>. QED BY <1>1, <1>2, <1>3 DEF Next

-----------------------------------------------------------------------------
(* The strategy                                                            *)

(* Counting a least called provider keeps the spread towards those it was  *)
(* chosen among, and narrowed makes room for it towards the others.        *)
LEMMA IssueSpread ==
  ASSUME TypeOK, SpreadBounded,
         NEW r \in Requests, NEW p \in Providers, NEW S \in SUBSET Providers,
         IsSelected(p, S), Issue(r, p, S)
  PROVE  SpreadBounded'
  <1>1. /\ calls \in [Providers -> Nat] /\ narrowed \in [Providers -> Nat]
        /\ calls' = [calls EXCEPT ![p] = @ + 1]
        /\ narrowed' = [q \in Providers |-> IF q \in S THEN narrowed[q]
                                                       ELSE narrowed[q] + 1]
    BY DEF TypeOK, Issue, Counted, Passed
  <1>2. \A q \in Providers : calls[p] <= calls[q] + narrowed'[q]
    <2> SUFFICES ASSUME NEW q \in Providers
                 PROVE  calls[p] <= calls[q] + narrowed'[q]
      OBVIOUS
    <2>1. CASE q \in S
      BY <1>1, <2>1 DEF IsSelected, Precedes
    <2>2. CASE q \notin S
      BY <1>1, <2>2 DEF SpreadBounded
    <2>. QED BY <2>1, <2>2
  <1>3. \A q \in Providers : narrowed'[q] \in Nat /\ narrowed[q] <= narrowed'[q]
    BY <1>1
  <1>. QED BY <1>1, <1>2, <1>3 DEF SpreadBounded

(* The spread is kept by every step: only Start and FailOver count.        *)
LEMMA NextSpread == IInv /\ SpreadBounded /\ [Next]_vars => SpreadBounded'
  <1> SUFFICES ASSUME IInv, SpreadBounded, [Next]_vars PROVE SpreadBounded'
    OBVIOUS
  <1>1. CASE UNCHANGED <<calls, narrowed>>
    BY <1>1 DEF SpreadBounded
  <1>2. ASSUME NEW r \in Requests, NEW p \in Providers, Start(r, p)
        PROVE  SpreadBounded'
    BY <1>2, AvailableType, IssueSpread DEF IInv, Start
  <1>3. ASSUME NEW r \in Requests, NEW did \in BOOLEAN, NEW p \in Providers,
               FailOver(r, did, p)
        PROVE  SpreadBounded'
    <2>1. Rest(r) \in SUBSET Providers
      BY DEF IInv, TypeOK, Rest
    <2>. QED BY <1>3, <2>1, IssueSpread DEF IInv, FailOver
  <1>4. ASSUME NEW r \in Requests,
               \/ StartUnavailable(r) \/ StartNotConfigured(r)
               \/ AnswerFalse(r)
               \/ \E did \in BOOLEAN : \/ Succeed(r, did) \/ FailSingle(r, did)
                                       \/ FailLast(r, did)
        PROVE  UNCHANGED <<calls, narrowed>>
    BY <1>4 DEF StartUnavailable, StartNotConfigured, Succeed, AnswerFalse,
                FailSingle, FailLast
  <1>. QED BY <1>1, <1>2, <1>3, <1>4 DEF Next, Begin, Answer, vars

-----------------------------------------------------------------------------
(* Theorems                                                                *)

(* Progress holds in every reachable state.                                *)
THEOREM Invariance == Spec => []IInv
  BY InitIInv, NextIInv, PTL DEF Spec

(* The state of the service calls keeps its types for any number of        *)
(* requests, providers and methods.                                        *)
THEOREM TypeCorrect == Spec => []TypeOK
  <1>1. IInv => TypeOK
    BY DEF IInv
  <1>. QED BY <1>1, Invariance, PTL

(* failover_provider_call and get_provider call a provider at most once    *)
(* for a request, and only one that has the method.                        *)
THEOREM CallsOncePerProvider == Spec => []OncePerProvider
  <1>1. IInv => OncePerProvider
    <2> SUFFICES ASSUME IInv, NEW r \in Requests, NEW p \in Providers
                 PROVE  tried[r][p] <= IF p \in Available(r) THEN 1 ELSE 0
      BY DEF OncePerProvider
    <2>1. pc[r] \in {"idle", "calling", "done"}
      BY DEF IInv, TypeOK
    <2>2. CASE pc[r] = "idle"
      BY <2>2 DEF IInv, Progress, Idle
    <2>3. CASE pc[r] = "calling"
      BY <2>3 DEF IInv, Progress, Calling, Called
    <2>4. CASE pc[r] = "done"
      BY <2>4 DEF IInv, Progress, Done
    <2>. QED BY <2>1, <2>2, <2>3, <2>4
  <1>. QED BY <1>1, Invariance, PTL

(* The loop of failover_provider_call ends with the first success.         *)
THEOREM FailoverStops == Spec => []StopsAtSuccess
  <1>1. IInv => StopsAtSuccess
    <2> SUFFICES ASSUME IInv, NEW r \in Requests
                 PROVE  /\ result[r] = "ok" =>
                             current[r] \in performed[r] \cup FalsyOnError
                        /\ pc[r] = "calling" => /\ current[r] \notin performed[r]
                                                /\ tried[r][current[r]] = 1
      BY DEF StopsAtSuccess
    <2>1. pc[r] \in {"idle", "calling", "done"}
      BY DEF IInv, TypeOK
    <2>2. CASE pc[r] = "idle"
      BY <2>2 DEF IInv, Progress, Idle
    <2>3. CASE pc[r] = "calling"
      BY <2>3, AvailableType DEF IInv, Progress, Calling, Called
    <2>4. CASE pc[r] = "done"
      BY <2>4 DEF IInv, Progress, Done
    <2>. QED BY <2>1, <2>2, <2>3, <2>4
  <1>. QED BY <1>1, Invariance, PTL

(* RoundRobinStrategy keeps the counters together, however the requests of *)
(* a worker interleave: a step for every selection that had no free choice.*)
THEOREM RoundRobinIsFair == Spec => []SpreadBounded
  <1>1. Init => SpreadBounded
    BY DEF Init, SpreadBounded
  <1>. QED BY <1>1, NextSpread, Invariance, PTL DEF Spec

-----------------------------------------------------------------------------
(* How a failover ends without success                                     *)

Asked(r) == \A p \in Available(r) : tried[r][p] = 1

Undone(r) == kind[r] = "failover" /\ pc[r] = "done" /\ performed[r] = {}

Ended(r) == \/ result[r] = "failover_fail" /\ Asked(r)
            \/ /\ result[r] \in {"falsy", "ok"}
               /\ current[r] \in FalsyOnError \cap Available(r)
            \/ /\ result[r] \in {"unavailable", "not_configured"}
               /\ Available(r) = {} \/ Available(r) \cap Unconfigured # {}
               /\ \A p \in Providers : tried[r][p] = 0

(* Each way out of the loop, and each way not to enter it, leaves its mark *)
(* on what the request has tried: the others are not concerned.            *)
LEMMA NextUntilOneAnswers ==
  ASSUME IInv, UntilOneAnswers, [Next]_vars
  PROVE  UntilOneAnswers'
  <1> USE DEF Asked, Undone, Ended
  <1>1. CASE UNCHANGED vars
    BY <1>1 DEF vars, request, UntilOneAnswers, Available
  <1>2. ASSUME NEW r \in Requests, Begin(r) \/ Answer(r),
               Undone(r)' => Ended(r)'
        PROVE  UntilOneAnswers'
    <2>1. \A q \in Requests \ {r} :
            /\ kind'[q] = kind[q] /\ pc'[q] = pc[q] /\ method'[q] = method[q]
            /\ performed'[q] = performed[q] /\ tried'[q] = tried[q]
            /\ result'[q] = result[q] /\ current'[q] = current[q]
      BY <1>2 DEF IInv, TypeOK, Begin, Answer, StartUnavailable,
                  StartNotConfigured, Start, Succeed, AnswerFalse, FailSingle,
                  FailOver, FailLast, Issue, Return, Performs
    <2>2. \A q \in Requests \ {r} : Undone(q)' => Ended(q)'
      BY <2>1 DEF UntilOneAnswers, Available
    <2>. QED BY <1>2, <2>2 DEF UntilOneAnswers
  <1>3. ASSUME NEW r \in Requests, Begin(r) PROVE Undone(r)' => Ended(r)'
    <2>1. pc[r] = "idle" /\ Idle(r)
      BY <1>3 DEF Begin, StartUnavailable, StartNotConfigured, Start, IInv,
                  Progress
    <2>2. CASE StartUnavailable(r)
      BY <2>1, <2>2 DEF StartUnavailable, Return, Idle, Available, IInv, TypeOK
    <2>3. CASE StartNotConfigured(r)
      BY <2>1, <2>3 DEF StartNotConfigured, Return, Idle, Available, IInv, TypeOK
    <2>4. ASSUME NEW p \in Providers, Start(r, p) PROVE ~Undone(r)'
      BY <2>4 DEF IInv, TypeOK, Start, Issue
    <2>. QED BY <1>3, <2>2, <2>3, <2>4 DEF Begin
  <1>4. ASSUME NEW r \in Requests, Answer(r) PROVE Undone(r)' => Ended(r)'
    <2>1. Calling(r)
      BY <1>4 DEF Answer, Succeed, AnswerFalse, FailSingle, FailOver, FailLast,
                  IInv, Progress
    <2>2. current[r] \in Available(r)
      BY <2>1 DEF Calling
    <2>3. ASSUME NEW did \in BOOLEAN, Succeed(r, did), Undone(r)' PROVE Ended(r)'
      <3>1. ~did
        BY <2>3 DEF IInv, TypeOK, Succeed, Performs
      <3>. QED BY <2>2, <2>3, <3>1 DEF Succeed, Return, Available, IInv, TypeOK
    <2>4. CASE AnswerFalse(r)
      BY <2>2, <2>4 DEF AnswerFalse, Return, Available, IInv, TypeOK
    <2>5. ASSUME NEW did \in BOOLEAN, FailSingle(r, did) PROVE ~Undone(r)'
      BY <2>5 DEF FailSingle
    <2>6. ASSUME NEW did \in BOOLEAN, NEW p \in Providers, FailOver(r, did, p)
          PROVE  ~Undone(r)'
      BY <2>6 DEF IInv, TypeOK, FailOver, Issue
    <2>7. ASSUME NEW did \in BOOLEAN, FailLast(r, did) PROVE Ended(r)'
      <3>1. Rest(r) = {}
        BY <2>7 DEF FailLast, GivesUp
      <3>2. \A p \in Available(r) : p \in Providers /\ p \in Called(r)
        BY <2>1, <3>1, AvailableType DEF Calling, Called, Rest, IInv
      <3>3. \A p \in Available(r) : tried[r][p] = 1
        BY <2>1, <3>2 DEF Calling
      <3>. QED BY <2>7, <3>3 DEF FailLast, Return, Available, IInv, TypeOK
    <2>. QED BY <1>4, <2>3, <2>4, <2>5, <2>6, <2>7 DEF Answer
  <1>. QED BY <1>1, <1>2, <1>3, <1>4 DEF Next

(* A failover that leaves its work undone has asked every provider of the  *)
(* method once, or asked none for want of a provider or of a setting, or   *)
(* stopped at one that reports its errors by what it returns: whatever the *)
(* providers of a service, their settings and their manners.               *)
THEOREM FailoverTriesAll == Spec => []UntilOneAnswers
  <1>1. Init => UntilOneAnswers
    BY DEF Init, UntilOneAnswers
  <1>2. IInv /\ UntilOneAnswers /\ [Next]_vars => UntilOneAnswers'
    BY NextUntilOneAnswers
  <1>. QED BY <1>1, <1>2, Invariance, PTL DEF Spec
=============================================================================
