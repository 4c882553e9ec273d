-------------------------- MODULE ServiceCallsProofs --------------------------
(***************************************************************************)
(* The safety properties of ServiceCalls for any number of requests and    *)
(* works: any clients repeat what was not answered, in any overlap with    *)
(* attempts that go on behind their backs.                                 *)
(*                                                                         *)
(* Progress says what a request may rely on while a provider is asked and  *)
(* once it is over, request by request; Alone is the one fact about two    *)
(* requests, that of those for one work at most one is open or answered.   *)
(***************************************************************************)
EXTENDS ServiceCalls, FiniteSetTheorems, TLAPS

(* The providers asked so far: those removed, and the one being asked.     *)
Asked(r) == (Provides[method[r]] \ remaining[r]) \cup {current[r]}

Idle(r)    == /\ told[r] = "nothing" /\ result[r] = "none"
              /\ accepted[r] = {} /\ doubtful[r] = {}
              /\ \A p \in PF!Providers : tried[r][p] = 0
Calling(r) == /\ told[r] \in {"nothing", "timeout"} /\ result[r] = "none"
              /\ accepted[r] = doubtful[r]
              /\ remaining[r] \subseteq Provides[method[r]]
              /\ current[r] \in remaining[r] \ {TaxJar}
              /\ \A p \in PF!Providers :
                   tried[r][p] = IF p \in Asked(r) THEN 1 ELSE 0
Done(r)    == /\ told[r] # "nothing"
              /\ IF told[r] = "answered"
                   THEN /\ \/ current[r] \in accepted[r]
                           \/ current[r] = Sendgrid /\ taken[r] = "blank"
                        /\ accepted[r] \ doubtful[r] \subseteq {current[r]}
                   ELSE accepted[r] = doubtful[r]
              /\ told[r] = "retry" =>
                   \A p \in Provides[method[r]] : tried[r][p] = 1

ProgressOf(r) == /\ pc[r] = "idle"    => Idle(r)
                 /\ pc[r] = "calling" => Calling(r)
                 /\ pc[r] = "done"    => Done(r)
                 /\ kind[r] = KindOf(method[r])
Progress == \A r \in Requests : ProgressOf(r)

(* A request whose client still waits, or has what it wanted.              *)
Open(r) == pc[r] # "idle" /\ told[r] \in {"nothing", "answered"}
Alone == \A r, q \in Requests :
           r # q /\ WorkOf[r] = WorkOf[q] => ~(Open(r) /\ Open(q))

IInv == TypeOK /\ Progress /\ Alone

-----------------------------------------------------------------------------
(* Types                                                                   *)

(* Providers are the numbers up to eight, those of a method among them.    *)
LEMMA ProviderType ==
  /\ PF!Providers = {1, 2, 3, 4, 5, 6, 7, 8}
  /\ \A m \in Methods : Provides[m] \subseteq PF!Providers
  /\ Methods = {"send", "send_sms", "taxes_for_sale", "get_rates", "convert",
                "html_to_pdf"}
<1>1. PF!Providers = {1, 2, 3, 4, 5, 6, 7, 8}
  BY DEF PF!Providers
<1>2. Methods = {"send", "send_sms", "taxes_for_sale", "get_rates", "convert",
                 "html_to_pdf"}
  BY DEF Methods, Provides
<1>3. \A m \in Methods : Provides[m] \subseteq PF!Providers
  BY <1>1, <1>2 DEF Provides, Sendgrid, Postmark, Mailgun, Twillio, Avatax,
     TaxJar, FixerIo, Semilimes
<1> QED BY <1>1, <1>2, <1>3

(* The types of the variables, those of ProviderFailover spelled out.      *)
Typed == /\ calls \in [PF!Providers -> Nat]
         /\ pc \in [Requests -> {"idle", "calling", "done"}]
         /\ kind \in [Requests -> {"failover", "single"}]
         /\ method \in [Requests -> Methods]
         /\ remaining \in [Requests -> SUBSET PF!Providers]
         /\ current \in [Requests -> PF!Providers \cup {0}]
         /\ result \in [Requests -> PF!Results]
         /\ tried \in [Requests -> [PF!Providers -> Nat]]
         /\ performed \in [Requests -> SUBSET PF!Providers]
         /\ narrowed \in [PF!Providers -> Nat]
         /\ missing \in Settings
         /\ told \in [Requests -> Told]
         /\ stream \in [Requests -> Streams]
         /\ accepted \in [Requests -> SUBSET PF!Providers]
         /\ doubtful \in [Requests -> SUBSET PF!Providers]
         /\ taken \in [Requests -> Heard \cup {"nothing"}]

LEMMA Types == (TypeOK <=> Typed) /\ (TypeOK' <=> Typed')
BY DEF TypeOK, Typed, PF!TypeOK, PF!NoProvider

(* A verdict is something a client may be told.                            *)
LEMMA VerdictType ==
  \A res \in PF!Results, c \in BOOLEAN :
    Verdict(res, c) \in Told \ {"nothing", "timeout"}
BY DEF Verdict, Told

(* Nothing has happened when the first request comes.                      *)
LEMMA InitIInv == Init => IInv
<1> SUFFICES ASSUME Init PROVE IInv
  OBVIOUS
<1>1. TypeOK
  <2>1. tried \in [Requests -> [PF!Providers -> Nat]]
    BY DEF Init, PF!Init
  <2>2. Init => PF!Init
    BY DEF Init
  <2> QED BY <2>1, <2>2, Types DEF Typed, Init, PF!Init, PF!NoProvider, PF!Results, Told,
             Streams
<1>2. Progress
  BY DEF Init, PF!Init, Progress, ProgressOf, Idle
<1>3. Alone
  BY DEF Init, PF!Init, Alone, Open
<1> QED BY <1>1, <1>2, <1>3 DEF IInv

(* Selecting a provider and calling it keeps the types, ...                *)
LEMMA IssueType ==
  ASSUME TypeOK, NEW r \in Requests, NEW p \in PF!Providers,
         NEW S \in SUBSET PF!Providers, PF!Issue(r, p, S)
  PROVE  /\ calls' \in [PF!Providers -> Nat]
         /\ pc' \in [Requests -> {"idle", "calling", "done"}]
         /\ remaining' \in [Requests -> SUBSET PF!Providers]
         /\ current' \in [Requests -> PF!Providers \cup {0}]
         /\ tried' \in [Requests -> [PF!Providers -> Nat]]
         /\ narrowed' \in [PF!Providers -> Nat]
<1>1. calls' \in [PF!Providers -> Nat]
  BY Types DEF Typed, PF!Issue, PF!Counted
<1>2. tried' \in [Requests -> [PF!Providers -> Nat]]
  <2>1. tried[r] \in [PF!Providers -> Nat]
    BY Types DEF Typed
  <2>2. [tried[r] EXCEPT ![p] = @ + 1] \in [PF!Providers -> Nat]
    BY <2>1
  <2>3. tried' = [tried EXCEPT ![r] = [tried[r] EXCEPT ![p] = @ + 1]]
    BY DEF PF!Issue
  <2> QED BY <2>2, <2>3, Types DEF Typed
<1>3. narrowed' \in [PF!Providers -> Nat]
  BY Types DEF Typed, PF!Issue, PF!Passed
<1> QED BY <1>1, <1>2, <1>3, Types DEF Typed, PF!Issue

(* ... and so does what happens before a provider is asked.                *)
LEMMA BeginType ==
  ASSUME TypeOK, NEW r \in Requests, Begin(r)
  PROVE  TypeOK'
<1> USE Types DEF own, Typed
<1>1. CASE BadArguments(r) \/ BadAmount(r) \/ BadBody(r)
  BY <1>1 DEF BadArguments, BadAmount, BadBody, Reject, Told
<1>2. CASE NotConfigured(r)
  <2>1. result' \in [Requests -> PF!Results]
    BY <1>2 DEF NotConfigured, PF!Return, PF!Results
  <2>2. told' \in [Requests -> Told]
    BY <1>2, <2>1, VerdictType DEF NotConfigured, Tell
  <2> QED BY <1>2, <2>1, <2>2 DEF NotConfigured, PF!Return
<1>3. CASE Start(r)
  <2>1. PICK p \in PF!Providers : PF!Start(r, p)
    BY <1>3 DEF Start
  <2>2. PF!Issue(r, p, Provides[method[r]]) /\ Provides[method[r]] \subseteq PF!Providers
    BY <2>1, ProviderType DEF PF!Start, PF!Available
  <2> QED BY <1>3, <2>1, <2>2, IssueType DEF Start, PF!Start
<1>4. CASE StartDomestic(r)
  <2>1. tried' \in [Requests -> [PF!Providers -> Nat]]
    <3>1. Avatax \in PF!Providers
      BY ProviderType DEF Avatax
    <3>2. [tried[r] EXCEPT ![Avatax] = @ + 1] \in [PF!Providers -> Nat]
      BY <3>1
    <3>3. tried' = [tried EXCEPT ![r] = [tried[r] EXCEPT ![Avatax] = @ + 1]]
      BY <1>4 DEF StartDomestic
    <3> QED BY <3>2, <3>3
  <2>2. /\ remaining' \in [Requests -> SUBSET PF!Providers]
        /\ current' \in [Requests -> PF!Providers \cup {0}]
        /\ pc' \in [Requests -> {"idle", "calling", "done"}]
    BY <1>4, ProviderType DEF StartDomestic, Avatax
  <2> QED BY <1>4, <2>1, <2>2 DEF StartDomestic
<1>5. CASE BadDate(r)
  <2>1. /\ calls' \in [PF!Providers -> Nat]
        /\ narrowed' \in [PF!Providers -> Nat]
    BY <1>5, ProviderType DEF BadDate, PF!Counted, PF!Passed, FixerIo
  <2>2. result' \in [Requests -> PF!Results] /\ told' \in [Requests -> Told]
    BY <1>5 DEF BadDate, PF!Return, PF!Results, Told
  <2> QED BY <1>5, <2>1, <2>2 DEF BadDate, PF!Return
<1> QED BY <1>1, <1>2, <1>3, <1>4, <1>5 DEF Begin

(* The answer of an API, or its absence.                                   *)
LEMMA SettleType ==
  ASSUME TypeOK, NEW r \in Requests, current[r] \in PF!Providers,
         remaining[r] \subseteq PF!Providers,
         NEW x \in Heard, NEW did \in BOOLEAN, Settle(r, x, did),
         told' \in [Requests -> Told]
  PROVE  TypeOK'
<1>1. missing' \in Settings /\ stream' \in [Requests -> Streams]
  BY Types DEF Typed, Settle, Streams
<1>2. /\ accepted' \in [Requests -> SUBSET PF!Providers]
      /\ doubtful' \in [Requests -> SUBSET PF!Providers]
      /\ taken' \in [Requests -> Heard \cup {"nothing"}]
  BY Types DEF Typed, Settle
<1>3. ASSUME PF!Performs(r, did) PROVE performed' \in [Requests -> SUBSET PF!Providers]
  BY <1>3, Types DEF Typed, PF!Performs
<1>4. CASE PF!Succeed(r, did) \/ PF!AnswerFalse(r) \/ PF!FailSingle(r, did)
  <2>1. performed' \in [Requests -> SUBSET PF!Providers]
    <3>1. PF!Succeed(r, did) => performed' \in [Requests -> SUBSET PF!Providers]
      BY <1>3 DEF PF!Succeed
    <3>2. PF!AnswerFalse(r) => performed' \in [Requests -> SUBSET PF!Providers]
      BY Types DEF Typed, PF!AnswerFalse
    <3>3. PF!FailSingle(r, did) => performed' \in [Requests -> SUBSET PF!Providers]
      BY <1>3 DEF PF!FailSingle
    <3> QED BY <1>4, <3>1, <3>2, <3>3
  <2>2. /\ pc' \in [Requests -> {"idle", "calling", "done"}]
        /\ result' \in [Requests -> PF!Results]
    BY <1>4, Types DEF Typed, PF!Succeed, PF!AnswerFalse, PF!FailSingle, PF!Return,
       PF!Results
  <2> QED BY <1>1, <1>2, <1>4, <2>1, <2>2, Types DEF Typed, PF!Succeed, PF!AnswerFalse,
          PF!FailSingle
<1>5. ASSUME NEW p \in PF!Providers, PF!FailOver(r, did, p)
      PROVE  TypeOK'
  <2>1. PF!Issue(r, p, PF!Rest(r)) /\ PF!Rest(r) \subseteq PF!Providers
    BY <1>5 DEF PF!FailOver, PF!Rest
  <2> QED BY <1>1, <1>2, <1>3, <1>5, <2>1, IssueType, Types DEF Typed, PF!FailOver
<1>6. CASE PF!FailLast(r, did)
  <2>1. /\ pc' \in [Requests -> {"idle", "calling", "done"}]
        /\ result' \in [Requests -> PF!Results]
        /\ remaining' \in [Requests -> SUBSET PF!Providers]
    BY <1>6, Types DEF Typed, PF!FailLast, PF!Return, PF!Results, PF!Rest
  <2> QED BY <1>1, <1>2, <1>3, <1>6, <2>1, Types DEF Typed, PF!FailLast
<1> QED BY <1>4, <1>5, <1>6 DEF Settle

(* A document on its way.                                                  *)
LEMMA StreamType ==
  ASSUME TypeOK, NEW r \in Requests, Stream(r)
  PROVE  TypeOK'
<1>1. PICK from \in Streams, to \in Streams : Flow(r, from, to)
  BY DEF Stream, SendHeaders, EndStream, BreakStream, Drop, Collect, Streams
<1> QED BY <1>1, Types DEF Typed, Flow, providing

-----------------------------------------------------------------------------
(* Readings                                                                *)

(* Every provider takes the answer for a success that says that the work   *)
(* is done, and no other; Sendgrid one more.                               *)
LEMMA Readings ==
  ASSUME NEW p \in PF!Providers \ {TaxJar}, NEW x \in Heard
  PROVE  /\ Reading(p, x) \in {"true", "false", "error", "unexpected"}
         /\ Reading(p, x) = "true" <=> Confirms(p, x)
<1> USE DEF Reading, Reads, Heard, Confirms, Sendgrid, Postmark,
        Mailgun, Twillio, Avatax, TaxJar, FixerIo, Semilimes
<1>1. p \in {1, 2, 3, 4, 5, 7, 8}
  BY ProviderType
<1>2. CASE p = 1
  BY <1>2 DEF SendgridSend
<1>3. CASE p = 2
  BY <1>3 DEF PostmarkSend
<1>4. CASE p = 3
  BY <1>4 DEF MailgunSend
<1>5. CASE p = 4
  BY <1>5 DEF TwillioSend
<1>6. CASE p = 5
  BY <1>6 DEF AvataxTaxes
<1>7. CASE p = 7
  BY <1>7 DEF FixerRates
<1>8. CASE p = 8
  BY <1>8 DEF SemilimesPdf
<1> QED BY <1>1, <1>2, <1>3, <1>4, <1>5, <1>6, <1>7, <1>8

(* An API that accepts a call has done the work.                           *)
LEMMA AnswersType ==
  ASSUME NEW p, NEW a \in Answers(p)
  PROVE  /\ a[1] \in Heard /\ a[2] \in BOOLEAN
         /\ a[1] = "accepted" => a[2]
<1> USE DEF Heard
<1>1. CASE a = <<"accepted", TRUE>>
  BY <1>1
<1>2. CASE \E x \in {"unset", "refused", "garbled"} : a = <<x, FALSE>>
  BY <1>2
<1>3. CASE \E x \in {"odd", "blank", "unreadable", "silence"}, did \in BOOLEAN : a = <<x, did>>
  BY <1>3
<1> QED BY <1>1, <1>2, <1>3 DEF Answers, ApiAnswers

-----------------------------------------------------------------------------
(* One request at a time                                                   *)

Frame(r) == \A q \in Requests \ {r} :
              /\ pc'[q] = pc[q] /\ kind'[q] = kind[q] /\ method'[q] = method[q]
              /\ remaining'[q] = remaining[q] /\ current'[q] = current[q]
              /\ result'[q] = result[q] /\ tried'[q] = tried[q]
              /\ told'[q] = told[q] /\ accepted'[q] = accepted[q]
              /\ doubtful'[q] = doubtful[q] /\ taken'[q] = taken[q]

(* What one request does leaves the others where they are, ...             *)
LEMMA ProgressFrame ==
  ASSUME Progress, NEW r \in Requests, Frame(r), ProgressOf(r)'
  PROVE  Progress'
BY DEF Progress, ProgressOf, Frame, Idle, Calling, Done, Asked

(* ... and keeps the works apart unless it opens the request beside        *)
(* another open one.                                                       *)
LEMMA AloneFrame ==
  ASSUME Alone, NEW r \in Requests, Frame(r),
         Open(r)' => \A q \in Requests \ {r} : WorkOf[q] = WorkOf[r] => ~Open(q)
  PROVE  Alone'
<1> SUFFICES ASSUME NEW s \in Requests, NEW q \in Requests, s # q,
                    WorkOf[s] = WorkOf[q], Open(s)', Open(q)'
             PROVE  FALSE
  BY DEF Alone
<1>1. \A u \in Requests \ {r} : Open(u)' => Open(u)
  BY DEF Open, Frame
<1> QED BY <1>1 DEF Alone

(* Only "taxes_for_sale" knows TaxJar.                                     *)
LEMMA Untaxed ==
  /\ \A m \in Methods \ {"taxes_for_sale"} : TaxJar \notin Provides[m]
  /\ Provides["taxes_for_sale"] = {Avatax, TaxJar}
<1>1. Provides["taxes_for_sale"] = {Avatax, TaxJar}
  BY DEF Provides
<1>2. \A m \in Methods \ {"taxes_for_sale"} : TaxJar \notin Provides[m]
  BY ProviderType DEF Provides, Sendgrid, Postmark, Mailgun, Twillio, TaxJar,
     FixerIo, Semilimes
<1> QED BY <1>1, <1>2

(* A request is refused, or its first provider is asked.                   *)
LEMMA BeginStep ==
  ASSUME IInv, NEW r \in Requests, Begin(r)
  PROVE  Frame(r) /\ ProgressOf(r)' /\ MayBegin(r)
<1> USE DEF own
<1>1. Typed /\ ProgressOf(r)
  BY Types DEF IInv, Progress
<1>2. MayBegin(r) /\ pc[r] = "idle" /\ Idle(r) /\ kind' = kind /\ method' = method
  BY <1>1 DEF Begin, BadArguments, BadAmount, BadBody, Reject, NotConfigured, Start,
     StartDomestic, BadDate, MayBegin, ProgressOf, PF!Start
<1>3. CASE \E v \in {"permanent", "crash"} : Reject(r, v)
  <2>1. /\ Frame(r) /\ pc'[r] = "done" /\ told'[r] \in {"permanent", "crash"}
        /\ accepted' = accepted /\ doubtful' = doubtful
    BY <1>1, <1>3 DEF Reject, Frame, Typed
  <2> QED BY <1>1, <1>2, <2>1 DEF ProgressOf, Done, Idle
<1>4. CASE NotConfigured(r)
  <2>1. /\ Frame(r) /\ pc'[r] = "done" /\ told'[r] = "permanent"
        /\ accepted' = accepted /\ doubtful' = doubtful
    BY <1>1, <1>2, <1>4 DEF NotConfigured, PF!Return, Tell, Verdict, Frame, Idle,
       Typed
  <2> QED BY <1>1, <1>2, <2>1 DEF ProgressOf, Done, Idle
<1>5. CASE BadDate(r)
  <2>1. /\ Frame(r) /\ pc'[r] = "done" /\ told'[r] = "permanent"
        /\ accepted' = accepted /\ doubtful' = doubtful
    BY <1>1, <1>5 DEF BadDate, PF!Return, Frame, Typed
  <2> QED BY <1>1, <1>2, <2>1 DEF ProgressOf, Done, Idle
<1>6. ASSUME NEW p \in Provides[method[r]] \ {TaxJar},
             /\ pc' = [pc EXCEPT ![r] = "calling"]
             /\ remaining' = [remaining EXCEPT ![r] = Provides[method[r]]]
             /\ current' = [current EXCEPT ![r] = p]
             /\ tried' = [tried EXCEPT ![r][p] = @ + 1]
             /\ UNCHANGED <<result, told, accepted, doubtful, taken>>
      PROVE  Frame(r) /\ ProgressOf(r)'
  <2>1. Frame(r)
    BY <1>1, <1>2, <1>6 DEF Frame, Typed
  <2>2. /\ pc'[r] = "calling" /\ remaining'[r] = Provides[method[r]]
        /\ current'[r] = p
    BY <1>1, <1>6 DEF Typed
  <2>3. \A q \in PF!Providers : tried'[r][q] = IF q = p THEN 1 ELSE 0
    <3>1. tried'[r] = [tried[r] EXCEPT ![p] = @ + 1] /\ tried[r] \in [PF!Providers -> Nat]
      BY <1>1, <1>6 DEF Typed
    <3> QED BY <1>2, <3>1 DEF Idle
  <2>4. Asked(r)' = {p}
    BY <1>2, <2>2 DEF Asked
  <2>5. Calling(r)'
    BY <1>2, <1>6, <2>2, <2>3, <2>4 DEF Calling, Idle
  <2> QED BY <1>1, <1>2, <2>1, <2>2, <2>5 DEF ProgressOf
<1>7. CASE Start(r)
  <2>1. PICK p \in PF!Providers : PF!Start(r, p)
    BY <1>7 DEF Start
  <2>2. p \in Provides[method[r]] \ {TaxJar}
    BY <1>1, <1>7, <2>1, Untaxed DEF Start, PF!Start, PF!IsSelected, PF!Available, Typed
  <2> QED BY <1>6, <1>7, <2>1, <2>2 DEF Start, PF!Start, PF!Issue, PF!Available
<1>8. CASE StartDomestic(r)
  <2>1. Avatax \in Provides[method[r]] \ {TaxJar}
    BY <1>8, Untaxed DEF StartDomestic, Avatax, TaxJar
  <2> QED BY <1>6, <1>8, <2>1 DEF StartDomestic
<1> QED BY <1>2, <1>3, <1>4, <1>5, <1>7, <1>8 DEF Begin, BadArguments, BadAmount, BadBody

(* The ways an answer leaves a request: done with a success, done with the *)
(* failure of one provider or of the last one, or asking the next one.     *)
Ends(r, res)  == /\ pc'[r] = "done" /\ result'[r] = res
                 /\ current'[r] = current[r] /\ tried'[r] = tried[r]
Continues(r, p) == /\ pc'[r] = "calling" /\ result'[r] = result[r]
                   /\ p \in PF!Rest(r) /\ kind[r] = "failover"
                   /\ remaining'[r] = PF!Rest(r) /\ current'[r] = p
                   /\ tried'[r] = [tried[r] EXCEPT ![p] = @ + 1]

LEMMA SettleWays ==
  ASSUME Typed, NEW r \in Requests, NEW x, NEW did \in BOOLEAN, Settle(r, x, did)
  PROVE  /\ kind' = kind /\ method' = method
         /\ \A q \in Requests \ {r} :
              /\ pc'[q] = pc[q] /\ remaining'[q] = remaining[q]
              /\ current'[q] = current[q] /\ result'[q] = result[q]
              /\ tried'[q] = tried[q]
         /\ IF Reading(current[r], x) = "true"
              THEN Ends(r, "ok")
              ELSE \/ Ends(r, "falsy") \/ Ends(r, "provider_error")
                   \/ \E p \in PF!Providers : Continues(r, p)
                   \/ Ends(r, "failover_fail") /\ PF!Rest(r) = {}
<1> DEFINE Others == \A q \in Requests \ {r} :
                       /\ pc'[q] = pc[q] /\ remaining'[q] = remaining[q]
                       /\ current'[q] = current[q] /\ result'[q] = result[q]
                       /\ tried'[q] = tried[q]
           Kept == kind' = kind /\ method' = method
<1>1. ASSUME PF!Succeed(r, did) PROVE Kept /\ Others /\ Ends(r, "ok")
  BY <1>1 DEF PF!Succeed, PF!Return, Ends, Typed
<1>2. ASSUME PF!AnswerFalse(r) PROVE Kept /\ Others /\ Ends(r, "falsy")
  BY <1>2 DEF PF!AnswerFalse, PF!Return, Ends, Typed
<1>3. ASSUME PF!FailSingle(r, did) PROVE Kept /\ Others /\ Ends(r, "provider_error")
  BY <1>3 DEF PF!FailSingle, PF!Return, Ends, Typed
<1>4. ASSUME NEW p \in PF!Providers, PF!FailOver(r, did, p)
      PROVE  Kept /\ Others /\ Continues(r, p)
  BY <1>4 DEF PF!FailOver, PF!Issue, PF!IsSelected, Continues, Typed
<1>5. ASSUME PF!FailLast(r, did)
      PROVE  Kept /\ Others /\ Ends(r, "failover_fail") /\ PF!Rest(r) = {}
  BY <1>5 DEF PF!FailLast, PF!GivesUp, PF!Return, Ends, Typed
<1> QED BY <1>1, <1>2, <1>3, <1>4, <1>5 DEF Settle

(* An answer is settled for the request and told to its client.            *)
LEMMA SettleStep ==
  ASSUME IInv, NEW r \in Requests, pc[r] = "calling",
         NEW x \in Heard, NEW did \in BOOLEAN, x = "accepted" => did,
         Settle(r, x, did),
         NEW t \in Told, told' = [told EXCEPT ![r] = t],
         t = "answered" <=> told[r] = "nothing" /\ Confirms(current[r], x),
         t = "retry" => result'[r] = "failover_fail",
         result'[r] = "none" => t \in {"nothing", "timeout"},
         result'[r] # "none" => t # "nothing",
         told[r] = "timeout" => t = "timeout"
  PROVE  Frame(r) /\ ProgressOf(r)' /\ (Open(r)' => Open(r))
<1>1. Typed /\ Calling(r) /\ kind[r] = KindOf(method[r])
  BY Types DEF IInv, Progress, ProgressOf
<1>2. current[r] \in PF!Providers \ {TaxJar} /\ current[r] \in Provides[method[r]]
  BY <1>1, ProviderType DEF Calling, Typed
<1>3. Reading(current[r], x) = "true" <=> Confirms(current[r], x)
  BY <1>2, Readings
<1>4. /\ told'[r] = t
      /\ \A q \in Requests \ {r} : /\ told'[q] = told[q] /\ accepted'[q] = accepted[q]
                                   /\ doubtful'[q] = doubtful[q]
                                   /\ taken'[q] = taken[q]
  BY <1>1 DEF Settle, Typed
<1>5. Frame(r)
  BY <1>1, <1>4, SettleWays DEF Frame
<1>6. Open(r)' => Open(r)
  BY <1>1, <1>4 DEF Open, Calling
<1>7. /\ accepted'[r] = IF did THEN accepted[r] \cup {current[r]} ELSE accepted[r]
      /\ doubtful'[r] = IF did /\ t # "answered"
                          THEN doubtful[r] \cup {current[r]} ELSE doubtful[r]
  BY <1>1 DEF Settle, Typed, Calling
<1>8. t # "answered" => accepted'[r] = doubtful'[r]
  BY <1>1, <1>7 DEF Calling
<1>9. t = "answered" => /\ \/ current[r] \in accepted'[r]
                           \/ current[r] = Sendgrid /\ taken'[r] = "blank"
                        /\ accepted'[r] \ doubtful'[r] \subseteq {current[r]}
  <2>1. t = "answered" => Confirms(current[r], x) /\ result'[r] = "ok"
    BY <1>1, <1>3, SettleWays DEF Ends
  <2>2. result'[r] = "ok" => taken'[r] = x
    BY <1>1 DEF Settle, Typed
  <2> QED BY <1>1, <1>7, <2>1, <2>2 DEF Calling, Confirms
<1>10. kind'[r] = KindOf(method'[r])
  BY <1>1, SettleWays
<1>11. CASE \E res \in {"ok", "falsy", "provider_error"} : Ends(r, res)
  <2>1. t # "retry" /\ t # "nothing" /\ pc'[r] = "done" /\ current'[r] = current[r]
    BY <1>11 DEF Ends
  <2> QED BY <1>4, <1>5, <1>6, <1>8, <1>9, <1>10, <2>1 DEF ProgressOf, Done
<1>12. CASE Ends(r, "failover_fail") /\ PF!Rest(r) = {}
  <2>1. \A p \in Provides[method[r]] : p \in Asked(r)
    BY <1>12 DEF PF!Rest, Asked
  <2>2. \A p \in Provides[method'[r]] : tried'[r][p] = 1
    <3>1. method'[r] = method[r] /\ Provides[method[r]] \subseteq PF!Providers
      BY <1>1, ProviderType, SettleWays DEF Typed
    <3>2. tried'[r] = tried[r]
      BY <1>12 DEF Ends
    <3> QED BY <1>1, <2>1, <3>1, <3>2 DEF Calling
  <2>3. t # "nothing" /\ pc'[r] = "done" /\ current'[r] = current[r]
    BY <1>12 DEF Ends
  <2> QED BY <1>4, <1>5, <1>6, <1>8, <1>9, <1>10, <2>2, <2>3 DEF ProgressOf, Done
<1>13. ASSUME NEW p \in PF!Providers, Continues(r, p)
       PROVE  ProgressOf(r)'
  <2>1. method'[r] = method[r] /\ method[r] \in Methods
    BY <1>1, SettleWays DEF Typed
  <2>2. /\ remaining'[r] \subseteq Provides[method[r]] /\ current'[r] = p
        /\ p \in remaining'[r] /\ p \notin Asked(r) /\ p # TaxJar
    <3>1. method[r] # "taxes_for_sale"
      BY <1>1, <1>13 DEF Continues, KindOf
    <3> QED BY <1>1, <1>13, <2>1, <3>1, Untaxed DEF Continues, PF!Rest, Calling, Asked
  <2>3. \A q \in PF!Providers :
          tried'[r][q] = IF q \in Asked(r) \cup {p} THEN 1 ELSE 0
    <3>1. tried'[r] = [tried[r] EXCEPT ![p] = @ + 1] /\ tried[r] \in [PF!Providers -> Nat]
      BY <1>1, <1>13 DEF Continues, Typed
    <3> QED BY <1>1, <2>2, <3>1 DEF Calling
  <2>4. Asked(r)' = Asked(r) \cup {p}
    BY <1>1, <1>2, <1>13, <2>1, <2>2 DEF Asked, Continues, PF!Rest, Calling
  <2>5. result'[r] = "none" /\ t \in {"nothing", "timeout"}
    BY <1>1, <1>13 DEF Continues, Calling
  <2>6. Calling(r)'
    BY <1>4, <1>8, <2>1, <2>2, <2>3, <2>4, <2>5 DEF Calling
  <2> QED BY <1>10, <1>13, <2>6 DEF ProgressOf, Continues
<1> QED BY <1>3, <1>5, <1>6, <1>11, <1>12, <1>13, <1>1, SettleWays

(* An API answers, and the client may hear of it.                          *)
LEMMA AnswerStep ==
  ASSUME IInv, NEW r \in Requests, Answer(r)
  PROVE  TypeOK' /\ Frame(r) /\ ProgressOf(r)' /\ (Open(r)' => Open(r))
<1>1. Typed /\ TypeOK /\ pc[r] = "calling" /\ Calling(r)
  BY Types DEF IInv, Progress, ProgressOf, Answer
<1>2. current[r] \in PF!Providers \ {TaxJar} /\ remaining[r] \subseteq PF!Providers
  BY <1>1, ProviderType DEF Calling, Typed
<1>3. PICK a \in Answers(current[r]) :
        /\ Settle(r, a[1], a[2])
        /\ Tell(r, Reading(current[r], a[1]) = "unexpected" /\ ~Wrapped(method[r]))
  BY DEF Answer
<1> DEFINE crashed == Reading(current[r], a[1]) = "unexpected" /\ ~Wrapped(method[r])
           t == IF told[r] = "nothing" /\ result'[r] # "none"
                  THEN Verdict(result'[r], crashed) ELSE told[r]
<1>4. a[1] \in Heard /\ a[2] \in BOOLEAN /\ (a[1] = "accepted" => a[2])
  BY AnswersType
<1>5. Reading(current[r], a[1]) = "true" <=> Confirms(current[r], a[1])
  BY <1>2, <1>4, Readings
<1>6. /\ result'[r] \in {"none", "ok", "falsy", "provider_error", "failover_fail"}
      /\ result'[r] = "ok" <=> Confirms(current[r], a[1])
  <2>1. result[r] = "none"
    BY <1>1 DEF Calling
  <2>2. IF Confirms(current[r], a[1])
          THEN Ends(r, "ok")
          ELSE \/ Ends(r, "falsy") \/ Ends(r, "provider_error")
               \/ \E p \in PF!Providers : Continues(r, p)
               \/ Ends(r, "failover_fail") /\ PF!Rest(r) = {}
    BY <1>1, <1>3, <1>4, <1>5, SettleWays
  <2> QED BY <2>1, <2>2 DEF Ends, Continues
<1>7. /\ told[r] = "nothing" \/ told[r] = "timeout"
      /\ Verdict("ok", crashed) = "answered"
      /\ Verdict("failover_fail", crashed) = "retry"
      /\ \A res \in {"falsy", "provider_error"} :
            Verdict(res, crashed) \in {"permanent", "crash"}
  BY <1>1 DEF Verdict, Calling
<1>8. /\ t \in Told
      /\ t = "answered" <=> told[r] = "nothing" /\ Confirms(current[r], a[1])
      /\ t = "retry" => result'[r] = "failover_fail"
      /\ result'[r] = "none" => t \in {"nothing", "timeout"}
      /\ result'[r] # "none" => t # "nothing"
      /\ told[r] = "timeout" => t = "timeout"
  BY <1>6, <1>7 DEF Told
<1>9. told' = [told EXCEPT ![r] = t]
  <2>1. told = [told EXCEPT ![r] = told[r]]
    BY <1>1 DEF Typed
  <2> QED BY <1>3, <2>1 DEF Tell
<1>10. told' \in [Requests -> Told]
  BY <1>1, <1>8, <1>9 DEF Typed
<1> HIDE DEF t
<1> QED BY <1>1, <1>2, <1>3, <1>4, <1>8, <1>9, <1>10, SettleStep, SettleType

(* The web server answers in its place and cancels the call.               *)
LEMMA TimeOutStep ==
  ASSUME IInv, NEW r \in Requests, TimeOut(r)
  PROVE  TypeOK' /\ Frame(r) /\ ProgressOf(r)' /\ (Open(r)' => Open(r))
<1>1. Typed /\ TypeOK /\ pc[r] = "calling" /\ Calling(r)
  BY Types DEF IInv, Progress, ProgressOf, TimeOut
<1>2. current[r] \in PF!Providers \ {TaxJar} /\ remaining[r] \subseteq PF!Providers
  BY <1>1, ProviderType DEF Calling, Typed
<1>3. PICK did \in BOOLEAN : Settle(r, "cancelled", did)
  BY DEF TimeOut
<1>4. told' = [told EXCEPT ![r] = "timeout"] /\ "timeout" \in Told
  BY DEF TimeOut, Told
<1>5. told' \in [Requests -> Told]
  BY <1>1, <1>4 DEF Typed
<1>6. "cancelled" \in Heard /\ ~Confirms(current[r], "cancelled")
  BY DEF Heard, Confirms
<1>7. TypeOK'
  BY <1>1, <1>2, <1>3, <1>5, <1>6, SettleType
<1> DEFINE x == "cancelled"
           t == "timeout"
<1>8. /\ x \in Heard /\ (x = "accepted" => did) /\ t \in Told
      /\ t = "answered" <=> told[r] = "nothing" /\ Confirms(current[r], x)
      /\ t = "retry" => result'[r] = "failover_fail"
      /\ result'[r] = "none" => t \in {"nothing", "timeout"}
      /\ result'[r] # "none" => t # "nothing"
      /\ told[r] = "timeout" => t = "timeout"
  BY <1>4, <1>6
<1>9. Settle(r, x, did) /\ told' = [told EXCEPT ![r] = t]
  BY <1>3, <1>4
<1> HIDE DEF x, t
<1> QED BY <1>1, <1>7, <1>8, <1>9, SettleStep

(* Documents are not what the requests are about.                          *)
LEMMA StreamStep ==
  ASSUME IInv, NEW r \in Requests, Stream(r)
  PROVE  Progress' /\ Alone'
<1>1. UNCHANGED <<pc, kind, method, remaining, current, result, tried, told,
                  accepted, doubtful, taken>>
  BY DEF Stream, SendHeaders, EndStream, BreakStream, Drop, Collect, Flow, providing
<1> QED BY <1>1 DEF IInv, Progress, ProgressOf, Idle, Calling, Done, Asked, Alone, Open

(* Every step keeps the invariant.                                         *)
LEMMA NextIInv == IInv /\ [Next]_vars => IInv'
<1> SUFFICES ASSUME IInv, [Next]_vars PROVE IInv'
  OBVIOUS
<1>1. ASSUME NEW r \in Requests, Begin(r) PROVE IInv'
  <2>1. \A q \in Requests \ {r} : WorkOf[q] = WorkOf[r] => ~Open(q)
    BY <1>1, BeginStep DEF MayBegin, Open
  <2> QED BY <1>1, <2>1, BeginStep, BeginType, ProgressFrame, AloneFrame DEF IInv
<1>2. ASSUME NEW r \in Requests, Answer(r) \/ TimeOut(r) PROVE IInv'
  <2>1. TypeOK' /\ Frame(r) /\ ProgressOf(r)' /\ (Open(r)' => Open(r))
    BY <1>2, AnswerStep, TimeOutStep
  <2>2. Open(r) => \A q \in Requests \ {r} : WorkOf[q] = WorkOf[r] => ~Open(q)
    BY DEF IInv, Alone
  <2> QED BY <2>1, <2>2, ProgressFrame, AloneFrame DEF IInv
<1>3. ASSUME NEW r \in Requests, Stream(r) PROVE IInv'
  BY <1>3, StreamStep, StreamType DEF IInv
<1>4. CASE UNCHANGED vars
  <2>1. TypeOK'
    BY <1>4, Types DEF vars, providing, own, Typed, IInv
  <2> QED BY <1>4, <2>1 DEF vars, providing, own, IInv, Progress, ProgressOf, Idle,
          Calling, Done, Asked, Alone, Open
<1> QED BY <1>1, <1>2, <1>3, <1>4 DEF Next

LEMMA Invariance == Spec => []IInv
BY InitIInv, NextIInv, PTL DEF Spec

-----------------------------------------------------------------------------
(* The requests, the clients, the APIs and the documents keep their types. *)
THEOREM TypeCorrect == Spec => []TypeOK
<1>1. IInv => TypeOK
  BY DEF IInv
<1> QED BY <1>1, Invariance, PTL

(* The success a service returns is the one of the provider it asked last, *)
(* and that one did accept the call, whatever the answers that came before *)
(* it; but for one answer of Sendgrid, which no other provider shares.     *)
THEOREM SuccessIsReal == Spec => []SentMeansAccepted
<1>1. IInv => SentMeansAccepted
  <2> SUFFICES ASSUME IInv, NEW r \in Requests, told[r] = "answered"
               PROVE  \/ current[r] \in accepted[r]
                      \/ current[r] = Sendgrid /\ taken[r] = "blank"
    BY DEF SentMeansAccepted
  <2>1. pc[r] \in {"idle", "calling", "done"} /\ ProgressOf(r)
    BY Types DEF IInv, Typed, Progress
  <2> QED BY <2>1 DEF ProgressOf, Idle, Calling, Done
<1> QED BY <1>1, Invariance, PTL

(* FailoverFail, which alone has client_retry, means that every suitable   *)
(* provider was asked and that none is known to have done the work.        *)
THEOREM RetryIsHonest == Spec => []RetryAfterAllFailed
<1>1. IInv => RetryAfterAllFailed
  <2> SUFFICES ASSUME IInv, NEW r \in Requests, told[r] = "retry"
               PROVE  /\ \A p \in Provides[method[r]] : tried[r][p] = 1
                      /\ accepted[r] = doubtful[r]
    BY DEF RetryAfterAllFailed
  <2>1. pc[r] \in {"idle", "calling", "done"} /\ ProgressOf(r)
    BY Types DEF IInv, Typed, Progress
  <2> QED BY <2>1 DEF ProgressOf, Idle, Calling, Done
<1> QED BY <1>1, Invariance, PTL

(* For every number of repetitions of a work and every overlap of them, at *)
(* most one API did it and was heard.                                      *)
THEOREM WorkIsDoneOnce == Spec => []OnceUnlessDoubtful
<1>1. IInv => OnceUnlessDoubtful
  <2> SUFFICES ASSUME IInv, NEW w \in Works
               PROVE  LET attempts == {r \in Requests : WorkOf[r] = w}
                          clear == {done \in attempts \X PF!Providers :
                                      done[2] \in accepted[done[1]] \ doubtful[done[1]]}
                      IN Cardinality(clear) <= 1
    BY DEF OnceUnlessDoubtful
  <2> DEFINE attempts == {r \in Requests : WorkOf[r] = w}
             clear == {done \in attempts \X PF!Providers :
                         done[2] \in accepted[done[1]] \ doubtful[done[1]]}
  <2>1. ASSUME NEW c \in clear
        PROVE  /\ c[1] \in Requests /\ WorkOf[c[1]] = w /\ c = <<c[1], c[2]>>
               /\ Open(c[1]) /\ c[2] = current[c[1]]
    <3>1. c[1] \in Requests /\ WorkOf[c[1]] = w /\ c = <<c[1], c[2]>>
      OBVIOUS
    <3>2. pc[c[1]] \in {"idle", "calling", "done"} /\ ProgressOf(c[1])
      BY <3>1, Types DEF IInv, Typed, Progress
    <3>3. c[2] \in accepted[c[1]] \ doubtful[c[1]]
      OBVIOUS
    <3> QED BY <3>1, <3>2, <3>3 DEF ProgressOf, Idle, Calling, Done, Open
  <2>2. ASSUME NEW c \in clear, NEW d \in clear PROVE c = d
    <3>1. c[1] = d[1]
      BY <2>1 DEF IInv, Alone
    <3>2. c[2] = d[2]
      BY <2>1, <3>1
    <3> QED BY <2>1, <3>1, <3>2
  <2>3. clear = {} => Cardinality(clear) = 0
    BY FS_EmptySet
  <2>4. ASSUME clear # {} PROVE Cardinality(clear) = 1
    <3>1. PICK c \in clear : TRUE
      BY <2>4
    <3>2. clear = {c}
      BY <2>2, <3>1
    <3> QED BY <3>2, FS_Singleton
  <2> HIDE DEF clear
  <2>5. Cardinality(clear) <= 1
    BY <2>3, <2>4
  <2> QED BY <2>5 DEF clear
<1> QED BY <1>1, Invariance, PTL
=============================================================================
