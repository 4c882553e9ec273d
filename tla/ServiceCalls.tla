----------------------------- MODULE ServiceCalls -----------------------------
(***************************************************************************)
(* One call of a service method, from its arguments to what the client is  *)
(* told: email, SMS, tax rates, currency exchange and documents, each with *)
(* the providers it uses and the way those read the answers of their APIs. *)
(* How providers are selected and tried is ProviderFailover; this module   *)
(* decides which of its steps an answer makes.                             *)
(*                                                                         *)
(* A client that was not answered may send the same work again.  A request *)
(* that times out is cancelled, which raises in the awaited call; Python   *)
(* 3.6 and 3.7 make CancelledError an Exception, so that a failover takes  *)
(* it for a failed provider and goes on behind the back of the client.     *)
(***************************************************************************)
EXTENDS Naturals, FiniteSets

CONSTANTS Requests,
          Works,      \* what clients want done, each by one or more requests
          WorkOf      \* the work a request asks for

ASSUME WorkAssumption == WorkOf \in [Requests -> Works]

Sendgrid  == 1
Postmark  == 2
Mailgun   == 3
Twillio   == 4
Avatax    == 5
TaxJar    == 6
FixerIo   == 7
Semilimes == 8

Provides == [send           |-> {Sendgrid, Postmark, Mailgun},
             send_sms       |-> {Twillio},
             taxes_for_sale |-> {Avatax, TaxJar},
             get_rates      |-> {FixerIo},
             convert        |-> {FixerIo},
             html_to_pdf    |-> {Semilimes}]
Methods == DOMAIN Provides

VARIABLES
  calls, pc, kind, method, remaining, current, result, tried, performed,
  narrowed,  \* the variables of ProviderFailover
  missing,   \* a setting the configuration lacks, if any
  told,      \* what the client got for its request
  stream,    \* the generator of a document and the response it feeds
  accepted,  \* APIs that did the work of the request
  doubtful,  \* history: those of them whose answer did not reach the client
  taken      \* history: the answer that was taken for a success

PF == INSTANCE ProviderFailover WITH
        NumProviders <- 8, Unconfigured <- {}, FalsyOnError <- {Sendgrid},
        Kinds <- {"failover", "single"}

providing == <<calls, pc, kind, method, remaining, current, result, tried,
               performed, narrowed>>
own == <<missing, told, stream, accepted, doubtful, taken>>
vars == <<providing, own>>

(* Settings read by a constructor, and settings read when the API is called. *)
AtInit == {Sendgrid, Mailgun, Twillio}
AtCall == {Postmark, Mailgun, Twillio, Avatax}
Complete == <<"nothing">>
Settings == {Complete} \cup {"init"} \X AtInit \cup {"call"} \X AtCall

KindOf(m) == IF m \in {"send", "send_sms"} THEN "failover" ELSE "single"

Init == /\ PF!Init
        /\ \A r \in Requests : kind[r] = KindOf(method[r])
        /\ \A r, q \in Requests : WorkOf[r] = WorkOf[q] => method[r] = method[q]
        /\ missing \in Settings
        /\ told = [r \in Requests |-> "nothing"]
        /\ stream = [r \in Requests |-> "none"]
        /\ accepted = [r \in Requests |-> {}]
        /\ doubtful = [r \in Requests |-> {}]
        /\ taken = [r \in Requests |-> "nothing"]

-----------------------------------------------------------------------------
(* What the answers of the APIs mean *)

(* "accepted" is the success each provider looks for (202, an id, a code,  *)
(* a list of rates, status 200), "odd" JSON without it, "unreadable" no    *)
(* JSON; "refused" and "garbled" are error answers, in JSON and not;       *)
(* "blank" is JSON of another status than the success with an empty list   *)
(* of errors; "silence" is a lost connection or a time-out of the HTTP     *)
(* client.  An API that answered oddly, blankly or not at all may have     *)
(* done the work.                                                          *)
ApiAnswers == {<<"accepted", TRUE>>, <<"refused", FALSE>>, <<"garbled", FALSE>>}
                \cup {"odd", "blank", "unreadable", "silence"} \X BOOLEAN
Answers(p) == IF missing = <<"call", p>> THEN {<<"unset", FALSE>>}
                                         ELSE ApiAnswers

(* What each provider makes of an answer: its success, False, an error it  *)
(* raises itself, or an exception that it does not expect: a KeyError, a   *)
(* ValueError, one of the HTTP client.                                     *)
SendgridSend == [accepted |-> "true", refused |-> "false", odd |-> "unexpected",
                 blank |-> "true", unreadable |-> "error", garbled |-> "error"]
PostmarkSend == [accepted |-> "true", refused |-> "error", odd |-> "unexpected",
                 blank |-> "unexpected", unreadable |-> "error",
                 garbled |-> "error"]
MailgunSend  == [accepted |-> "true", refused |-> "error", odd |-> "error",
                 blank |-> "error", unreadable |-> "error", garbled |-> "error"]
TwillioSend  == [accepted |-> "true", refused |-> "error", odd |-> "unexpected",
                 blank |-> "unexpected", unreadable |-> "error",
                 garbled |-> "error"]
AvataxTaxes  == [accepted |-> "true", refused |-> "error", odd |-> "error",
                 blank |-> "error", unreadable |-> "unexpected",
                 garbled |-> "unexpected"]
FixerRates   == [accepted |-> "true", refused |-> "error", odd |-> "unexpected",
                 blank |-> "error", unreadable |-> "error", garbled |-> "error"]
(* It looks at the status only; what follows is the document.              *)
SemilimesPdf == [accepted |-> "true", refused |-> "error", odd |-> "error",
                 blank |-> "error", unreadable |-> "error", garbled |-> "error"]
(* TaxJar, whose answers nobody parses yet, supports no country.           *)
Reads(p) == CASE p = Sendgrid -> SendgridSend
              [] p = Postmark -> PostmarkSend
              [] p = Mailgun  -> MailgunSend
              [] p = Twillio  -> TwillioSend
              [] p = Avatax   -> AvataxTaxes
              [] p = FixerIo  -> FixerRates
              [] p = Semilimes -> SemilimesPdf

MutantReadingStatus(p, x) ==
  CASE x \in {"silence", "cancelled"} -> "unexpected"
    [] x = "unset" -> "error"
    [] x = "odd"   -> "true"
    [] OTHER       -> Reads(p)[x]
MutantReadingField(p, x) ==
  CASE x \in {"silence", "cancelled"} -> "unexpected"
    [] x = "unset" \/ (x = "accepted" /\ p = Mailgun) -> "error"
    [] OTHER       -> Reads(p)[x]
Reading(p, x) == CASE x \in {"silence", "cancelled"} -> "unexpected"
                   [] x = "unset" -> "error"
                   [] OTHER       -> Reads(p)[x]

(* What a client may take for the confirmation of its work: the success,   *)
(* and errors that Sendgrid reports and does not name.                     *)
Confirms(p, x) == x = "accepted" \/ (p = Sendgrid /\ x = "blank")

(* BaseServiceProvider.call_method makes them ProviderError; convert and   *)
(* html_to_pdf are called directly.                                        *)
Wrapped(m) == m \notin {"convert", "html_to_pdf"}

MutantVerdict(res, crashed) ==
  CASE res = "ok" -> "answered"
    [] res \in {"falsy", "failover_fail"} -> "retry"
    [] res = "provider_error" /\ crashed -> "crash"
    [] OTHER -> "permanent"
MutantVerdictRaw(res, crashed) == res
Verdict(res, crashed) ==
  CASE res = "ok" -> "answered"
    [] res = "failover_fail" -> "retry"
    [] res = "provider_error" /\ crashed -> "crash"
    [] OTHER -> "permanent"

MutantTell(r, crashed) ==
  told' = IF told[r] = "nothing" /\ result'[r] = "ok"
            THEN [told EXCEPT ![r] = "answered"] ELSE told
(* A client whose request timed out has got its answer already.            *)
Tell(r, crashed) ==
  told' = IF told[r] = "nothing" /\ result'[r] # "none"
            THEN [told EXCEPT ![r] = Verdict(result'[r], crashed)] ELSE told

-----------------------------------------------------------------------------
(* From the arguments to the call of a provider *)

(* A client repeats its work when an earlier request for it was told       *)
(* anything but the answer.                                                *)
MayBegin(r) ==
  /\ pc[r] = "idle"
  /\ \A q \in Requests \ {r} :
       WorkOf[q] = WorkOf[r] /\ pc[q] # "idle"
         => told[q] \notin {"nothing", "answered"}

(* Arguments that fail the schema, are no JSON or no query of convert.     *)
Reject(r, verdict) ==
  /\ MayBegin(r)
  /\ pc' = [pc EXCEPT ![r] = "done"]
  /\ told' = [told EXCEPT ![r] = verdict]
  /\ UNCHANGED <<calls, kind, method, remaining, current, result, tried,
                 performed, narrowed, missing, stream, accepted, doubtful,
                 taken>>

BadArguments(r) == Reject(r, "permanent")

(* Decimal raises InvalidOperation, which is neither of the exceptions     *)
(* that convert expects of it; premailer raises on a body it cannot parse. *)
BadAmount(r) == method[r] = "convert" /\ Reject(r, "crash")
BadBody(r) == method[r] = "send" /\ Reject(r, "crash")

(* The constructor of one suitable provider misses its setting.            *)
NotConfigured(r) ==
  /\ MayBegin(r)
  /\ \E p \in Provides[method[r]] : missing = <<"init", p>>
  /\ PF!Return(r, "not_configured")
  /\ Tell(r, FALSE)
  /\ UNCHANGED <<calls, kind, method, remaining, current, tried, performed,
                 narrowed, missing, stream, accepted, doubtful, taken>>

Configured(r) == \A p \in Provides[method[r]] : missing # <<"init", p>>

Start(r) ==
  /\ MayBegin(r) /\ Configured(r) /\ method[r] # "taxes_for_sale"
  /\ \E p \in PF!Providers : PF!Start(r, p)
  /\ UNCHANGED own

(* DomesticSaleStrategy: only AvaTax supports the country, and no          *)
(* counter takes part.                                                     *)
StartDomestic(r) ==
  /\ MayBegin(r) /\ method[r] = "taxes_for_sale"
  /\ pc' = [pc EXCEPT ![r] = "calling"]
  /\ remaining' = [remaining EXCEPT ![r] = Provides[method[r]]]
  /\ current' = [current EXCEPT ![r] = Avatax]
  /\ tried' = [tried EXCEPT ![r][Avatax] = @ + 1]
  /\ UNCHANGED <<calls, kind, method, result, performed, narrowed, own>>

(* rates selects its provider before it looks at the date.                 *)
BadDate(r) ==
  /\ MayBegin(r) /\ method[r] = "get_rates"
  /\ calls' = PF!Counted(FixerIo)
  /\ narrowed' = PF!Passed({FixerIo})
  /\ PF!Return(r, "none")
  /\ told' = [told EXCEPT ![r] = "permanent"]
  /\ UNCHANGED <<kind, method, remaining, current, tried, performed, missing,
                 stream, accepted, doubtful, taken>>

-----------------------------------------------------------------------------
(* From the answer of the API to the answer of the gateway *)

(* What the provider makes of an answer, what the service makes of that.   *)
Settle(r, x, did) ==
  LET reading == Reading(current[r], x)
      unread == did /\ (~Confirms(current[r], x) \/ told[r] # "nothing") IN
  /\ \/ reading = "true"  /\ PF!Succeed(r, did)
     \/ reading = "false" /\ PF!AnswerFalse(r)
     \/ /\ reading \in {"error", "unexpected"}
        /\ \/ PF!FailSingle(r, did)
           \/ \E p \in PF!Providers : PF!FailOver(r, did, p)
           \/ PF!FailLast(r, did)
  /\ accepted' = IF did THEN [accepted EXCEPT ![r] = @ \cup {current[r]}]
                        ELSE accepted
  /\ doubtful' = IF unread THEN [doubtful EXCEPT ![r] = @ \cup {current[r]}]
                           ELSE doubtful
  /\ taken' = IF result'[r] = "ok" THEN [taken EXCEPT ![r] = x] ELSE taken
  /\ stream' = IF method[r] = "html_to_pdf" /\ result'[r] = "ok"
                 THEN [stream EXCEPT ![r] = "drawn"] ELSE stream
  /\ UNCHANGED missing

Answer(r) ==
  /\ pc[r] = "calling"
  /\ \E a \in Answers(current[r]) :
       /\ Settle(r, a[1], a[2])
       /\ Tell(r, /\ Reading(current[r], a[1]) = "unexpected"
                   /\ ~Wrapped(method[r]))

(* The web server gives up the request: it answers the client and cancels  *)
(* the task, once.                                                         *)
TimeOut(r) ==
  /\ pc[r] = "calling" /\ told[r] = "nothing"
  /\ \E did \in BOOLEAN : Settle(r, "cancelled", did)
  /\ told' = [told EXCEPT ![r] = "timeout"]

-----------------------------------------------------------------------------
(* A document: the content type was drawn from the generator, the chunks   *)
(* are drawn while the response is written.                                *)

Flow(r, from, to) ==
  /\ stream[r] = from /\ stream' = [stream EXCEPT ![r] = to]
  /\ UNCHANGED <<providing, missing, told, accepted, doubtful, taken>>

SendHeaders(r) == Flow(r, "drawn", "sent")
EndStream(r)   == Flow(r, "sent", "complete")
BreakStream(r) == Flow(r, "sent", "broken")

(* A response hook raised, or the call came by the queue: nobody reads the *)
(* generator, which holds its connection until it is collected.            *)
Drop(r)        == Flow(r, "drawn", "dropped")
Collect(r)     == Flow(r, "dropped", "collected")

Begin(r) == \/ BadArguments(r) \/ BadAmount(r) \/ BadBody(r) \/ NotConfigured(r)
            \/ Start(r) \/ StartDomestic(r) \/ BadDate(r)
Stream(r) == \/ SendHeaders(r) \/ EndStream(r) \/ BreakStream(r)
             \/ Drop(r) \/ Collect(r)

Next == \E r \in Requests : Begin(r) \/ Answer(r) \/ TimeOut(r) \/ Stream(r)

(* A call of an API ends by an answer or by the time-out of the HTTP       *)
(* client; a stream ends with either of its connections; the collector     *)
(* finds what nobody refers to.                                            *)
Spec == Init /\ [][Next]_vars
FairSpec == Spec /\ \A r \in Requests : WF_vars(Answer(r)) /\ WF_vars(Stream(r))

-----------------------------------------------------------------------------
(* Properties *)

Told == {"nothing", "answered", "retry", "permanent", "crash", "timeout"}
Heard == {"accepted", "refused", "garbled", "odd", "blank", "unreadable",
          "silence", "unset", "cancelled"}
Streams == {"none", "drawn", "sent", "complete", "broken", "dropped",
            "collected"}

TypeOK == /\ PF!TypeOK
          /\ missing \in Settings
          /\ told \in [Requests -> Told]
          /\ stream \in [Requests -> Streams]
          /\ accepted \in [Requests -> SUBSET PF!Providers]
          /\ doubtful \in [Requests -> SUBSET PF!Providers]
          /\ taken \in [Requests -> Heard \cup {"nothing"}]

(* A client is told "sent", or gets taxes, rates or the start of a         *)
(* document, only if the API asked last really accepted the call; there is *)
(* one answer that is no success and is taken for one, Sendgrid's other    *)
(* status than 202 with no errors in its JSON, and no other provider and   *)
(* no other answer, misread or late, gets that far.                        *)
SentMeansAccepted ==
  \A r \in Requests :
    told[r] = "answered" => \/ current[r] \in accepted[r]
                            \/ current[r] = Sendgrid /\ taken[r] = "blank"

(* However often a client repeats work that was not answered, and however  *)
(* the attempts overlap, the work is done at most once by APIs whose       *)
(* answer reached the client: every further time is an API whose answer    *)
(* was lost, not understood, or came after the client had timed out.       *)
OnceUnlessDoubtful ==
  \A w \in Works :
    LET attempts == {r \in Requests : WorkOf[r] = w}
        clear == {done \in attempts \X PF!Providers :
                    done[2] \in accepted[done[1]] \ doubtful[done[1]]} IN
    Cardinality(clear) <= 1

(* A retry is suggested only after every suitable provider was asked once  *)
(* and none of them confirmed the work.                                    *)
RetryAfterAllFailed ==
  \A r \in Requests :
    told[r] = "retry" => /\ \A p \in Provides[method[r]] : tried[r][p] = 1
                         /\ accepted[r] = doubtful[r]

(* Every request that began is told how it ended, and its task ends.       *)
EveryRequestTold ==
  \A r \in Requests :
    pc[r] # "idle" ~> pc[r] = "done" /\ told[r] # "nothing"

=============================================================================
