-------------------------- MODULE DomainRegistration -------------------------
(***************************************************************************)
(* The domains service: an intention to register a domain is created, then *)
(* submitted.  DomainRegistrationWorkflow.execute takes it through the     *)
(* provider and the database, one awaited call after the other and each    *)
(* statement its own transaction, and publishes a message; the message     *)
(* comes back through GatewayMQHandler to update_registered_dns, which     *)
(* sets up the DNS records when the provider is ready for them.            *)
(*                                                                         *)
(* The provider (GoDaddy) is external: it sells a domain once, opens a     *)
(* subaccount whenever asked to, and refuses DNS records until it is ready.*)
(***************************************************************************)
EXTENDS Naturals, FiniteSets

CONSTANTS Intentions, DomainOf, EntityOf,
          Submissions, IntentionOf,   \* requests to submit an intention
          Attempts,                   \* attempts of step_setup_dns
          Faults                      \* what may go wrong in this run

Domains == {DomainOf[i] : i \in Intentions}
Entities == {EntityOf[i] : i \in Intentions}
FaultKinds == {"refused",   \* the provider answers with an error
               "lost",      \* it did what was asked, the answer is lost
               "database",  \* a statement fails, done or not
               "queue",     \* mq_channel.publish raises
               "crash"}     \* the worker is restarted

ASSUME DomainAssumption == /\ "none" \notin Intentions
                           /\ IntentionOf \in [Submissions -> Intentions]
                           /\ Attempts \in Nat \ {0}
                           /\ Faults \subseteq FaultKinds

NoAccount == 0
Nobody == [intention |-> "none", account |-> NoAccount]
RecordTypes == {"A", "CNAME"}

VARIABLES
  offer,       \* "none", "checked" or "created": the row of an intention
  finished,    \* domain_register_intention.finished
  account,     \* domain_registrant_account: subaccount of an entity
  purchase,    \* domain_purchase: "none", "bought" or "complete"
  pc,          \* where the handling of a submission is
  using,       \* provider_account of the workflow
  answer,      \* "none", "created", "not_modified" or "error"
  message,     \* "none", "queued", "handling", "acked" or "abandoned"
  attempts,    \* attempts step_setup_dns has left
  passed,      \* record types whose PUT did not raise in this attempt
  opened,      \* provider: subaccounts opened for an entity
  owner,       \* provider: who bought a domain, for which subaccount
  ready,       \* provider: the domain takes DNS records
  dns,         \* provider: record types that are set up
  faulted      \* history: something has gone wrong

database == <<offer, finished, account, purchase>>
workflow == <<pc, using, answer>>
queue    == <<message, attempts, passed>>
provider == <<opened, owner, ready, dns>>
vars == <<database, workflow, queue, provider, faulted>>

Init == /\ offer = [i \in Intentions |-> "none"]
        /\ finished = [i \in Intentions |-> FALSE]
        /\ account = [e \in Entities |-> NoAccount]
        /\ purchase = [i \in Intentions |-> "none"]
        /\ pc = [s \in Submissions |-> "new"]
        /\ using = [s \in Submissions |-> NoAccount]
        /\ answer = [s \in Submissions |-> "none"]
        /\ message = [i \in Intentions |-> "none"]
        /\ attempts = [i \in Intentions |-> 0]
        /\ passed = [i \in Intentions |-> {}]
        /\ opened = [e \in Entities |-> 0]
        /\ owner = [d \in Domains |-> Nobody]
        /\ ready = [d \in Domains |-> FALSE]
        /\ dns = [d \in Domains |-> {}]
        /\ faulted = FALSE

Fault(kinds) == Faults \cap kinds # {} /\ faulted' = TRUE

Domain(s) == DomainOf[IntentionOf[s]]
Entity(s) == EntityOf[IntentionOf[s]]

Goto(s, step) == pc' = [pc EXCEPT ![s] = step] /\ UNCHANGED answer
Answer(s, a) == /\ pc' = [pc EXCEPT ![s] = "done"]
                /\ answer' = [answer EXCEPT ![s] = a]

-----------------------------------------------------------------------------
(* create_registration_intention *)

(* DomainRegistrantStrategy.select: the domain is available when asked.    *)
CheckAvailable(i) ==
  /\ offer[i] = "none"
  /\ owner[DomainOf[i]] = Nobody
  /\ offer' = [offer EXCEPT ![i] = "checked"]
  /\ UNCHANGED <<finished, account, purchase, workflow, queue, provider,
                 faulted>>

CreateIntention(i) ==
  /\ offer[i] = "checked"
  /\ offer' = [offer EXCEPT ![i] = "created"]
  /\ UNCHANGED <<finished, account, purchase, workflow, queue, provider,
                 faulted>>

-----------------------------------------------------------------------------
(* submit_registration_intention *)

(* The intention is read once; a finished one is not touched again.        *)
AlreadyProcessed(i) == finished[i]

Submit(s) ==
  /\ pc[s] = "new" /\ offer[IntentionOf[s]] = "created"
  /\ IF AlreadyProcessed(IntentionOf[s])
       THEN Answer(s, "not_modified")
       ELSE Goto(s, "validate")
  /\ UNCHANGED <<database, using, queue, provider, faulted>>

(* The intention or the account cannot be read.                            *)
LookupFails(s) ==
  /\ pc[s] \in {"new", "account"} /\ Fault({"database"})
  /\ offer[IntentionOf[s]] = "created"
  /\ Answer(s, "error")
  /\ UNCHANGED <<database, using, queue, provider>>

(* step_validate_data; bad data of the client ends here as well.           *)
Validate(s) ==
  /\ pc[s] = "validate"
  /\ Goto(s, "account")
  /\ UNCHANGED <<database, using, queue, provider, faulted>>

ValidateFails(s) ==
  /\ pc[s] = "validate" /\ Fault({"refused"})
  /\ Answer(s, "error")
  /\ UNCHANGED <<database, using, queue, provider>>

(* step_collect_provider_account: look up, create, insert.                 *)
AccountFound(s) == account[Entity(s)] # NoAccount

FindAccount(s) ==
  /\ pc[s] = "account"
  /\ IF AccountFound(s)
       THEN /\ using' = [using EXCEPT ![s] = account[Entity(s)]]
            /\ Goto(s, "purchase")
       ELSE /\ Goto(s, "create")
            /\ UNCHANGED using
  /\ UNCHANGED <<database, queue, provider, faulted>>

OpenAccount(s) == opened' = [opened EXCEPT ![Entity(s)] = @ + 1]

CreateAccount(s) ==
  /\ pc[s] = "create"
  /\ OpenAccount(s)
  /\ using' = [using EXCEPT ![s] = opened[Entity(s)] + 1]
  /\ Goto(s, "insert")
  /\ UNCHANGED <<database, queue, owner, ready, dns, faulted>>

CreateAccountFails(s) ==
  /\ pc[s] = "create"
  /\ \/ Fault({"refused"}) /\ UNCHANGED opened
     \/ Fault({"lost"}) /\ OpenAccount(s)
  /\ Answer(s, "error")
  /\ UNCHANGED <<database, using, queue, owner, ready, dns>>

(* uix_1: one row for an entity and a provider.                            *)
MutantAccountFree(s) == TRUE
AccountFree(s) == account[Entity(s)] = NoAccount

StoreAccount(s) == account' = [account EXCEPT ![Entity(s)] = using[s]]

InsertAccount(s) ==
  /\ pc[s] = "insert"
  /\ IF AccountFree(s)
       THEN StoreAccount(s) /\ Goto(s, "purchase")
       ELSE Answer(s, "error") /\ UNCHANGED account
  /\ UNCHANGED <<offer, finished, purchase, using, queue, provider, faulted>>

InsertAccountFails(s) ==
  /\ pc[s] = "insert" /\ Fault({"database"})
  /\ Answer(s, "error")
  /\ UNCHANGED account \/ (AccountFree(s) /\ StoreAccount(s))
  /\ UNCHANGED <<offer, finished, purchase, using, queue, provider>>

-----------------------------------------------------------------------------
(* step_purchase_domain and step_schedule_dns_update *)

Sell(s) == owner' = [owner EXCEPT ![Domain(s)] =
                       [intention |-> IntentionOf[s], account |-> using[s]]]

Purchase(s) ==
  /\ pc[s] = "purchase" /\ owner[Domain(s)] = Nobody
  /\ Sell(s)
  /\ Goto(s, "finish")
  /\ UNCHANGED <<database, using, queue, opened, ready, dns, faulted>>

(* The provider refuses a domain that is taken, also by this intention.    *)
MutantPurchaseFails(s) ==
  /\ pc[s] = "purchase"
  /\ owner[Domain(s)] # Nobody /\ UNCHANGED owner
  /\ Goto(s, "finish")
  /\ UNCHANGED <<database, using, queue, opened, ready, dns, faulted>>
PurchaseFails(s) ==
  /\ pc[s] = "purchase"
  /\ \/ owner[Domain(s)] # Nobody /\ UNCHANGED <<owner, faulted>>
     \/ Fault({"refused"}) /\ UNCHANGED owner
     \/ Fault({"lost"}) /\ owner[Domain(s)] = Nobody /\ Sell(s)
  /\ Answer(s, "error")
  /\ UNCHANGED <<database, using, queue, opened, ready, dns>>

(* already_purchased: one finished intention for a domain.                 *)
MutantNoneFinished(i) == \A j \in Intentions \ {i} :
                           DomainOf[j] = DomainOf[i] => offer[j] # "created"
NoneFinished(i) == \A j \in Intentions \ {i} :
                     DomainOf[j] = DomainOf[i] => ~finished[j]

SetFinished(s) == finished' = [finished EXCEPT ![IntentionOf[s]] = TRUE]

Finish(s) ==
  /\ pc[s] = "finish"
  /\ IF NoneFinished(IntentionOf[s])
       THEN SetFinished(s) /\ Goto(s, "record")
       ELSE Answer(s, "error") /\ UNCHANGED finished
  /\ UNCHANGED <<offer, account, purchase, using, queue, provider, faulted>>

FinishFails(s) ==
  /\ pc[s] = "finish" /\ Fault({"database"})
  /\ Answer(s, "error")
  /\ UNCHANGED finished \/ (NoneFinished(IntentionOf[s]) /\ SetFinished(s))
  /\ UNCHANGED <<offer, account, purchase, using, queue, provider>>

RecordPurchase(s) == purchase' = [purchase EXCEPT ![IntentionOf[s]] = "bought"]

(* Nothing awaits between the INSERT of the purchase and the publication.  *)
MutantRecord(s) ==
  /\ pc[s] = "record" /\ purchase[IntentionOf[s]] = "none"
  /\ RecordPurchase(s)
  /\ Answer(s, "created")
  /\ UNCHANGED <<offer, finished, account, using, queue, provider, faulted>>
Record(s) ==
  /\ pc[s] = "record" /\ purchase[IntentionOf[s]] = "none"
  /\ RecordPurchase(s)
  /\ message' = [message EXCEPT ![IntentionOf[s]] = "queued"]
  /\ Answer(s, "created")
  /\ UNCHANGED <<offer, finished, account, using, attempts, passed, provider,
                 faulted>>

RecordFails(s) ==
  /\ pc[s] = "record"
  /\ \/ purchase[IntentionOf[s]] # "none" /\ UNCHANGED <<purchase, faulted>>
     \/ Fault({"database"}) /\ UNCHANGED purchase
     \/ Fault({"database", "queue"}) /\ RecordPurchase(s)
  /\ Answer(s, "error")
  /\ UNCHANGED <<offer, finished, account, using, queue, provider>>

-----------------------------------------------------------------------------
(* update_registered_dns, called by GatewayMQHandler.handle *)

MutantFreshAttempts == Attempts + 1
FreshAttempts == Attempts

Deliver(i) ==
  /\ message[i] = "queued"
  /\ message' = [message EXCEPT ![i] = "handling"]
  /\ attempts' = [attempts EXCEPT ![i] = FreshAttempts]
  /\ UNCHANGED <<passed, database, workflow, provider, faulted>>

Attempting(i) == message[i] = "handling" /\ attempts[i] > 0

Settle(i, verdict) == /\ message' = [message EXCEPT ![i] = verdict]
                      /\ attempts' = [attempts EXCEPT ![i] = 0]
                      /\ passed' = [passed EXCEPT ![i] = {}]

(* One attempt: a PUT for each record type, one after the other, which the *)
(* provider carries out for a domain that is ready and answers 404 to for  *)
(* any other.                                                              *)
LoopEnded(i) == passed[i] = RecordTypes
NextType(i) == IF "A" \in passed[i] THEN "CNAME" ELSE "A"

Put(i) == dns' = [dns EXCEPT ![DomainOf[i]] =
                    IF ready[DomainOf[i]] THEN @ \cup {NextType(i)} ELSE @]

(* handle_resp raises for a 404, as DomainIsNotAvailableYet, ...           *)
MutantRaises(i) == ~ready[DomainOf[i]] /\ attempts[i] > 1
Raises(i) == ~ready[DomainOf[i]]

SetRecord(i) ==
  /\ Attempting(i) /\ ~LoopEnded(i)
  /\ ~Raises(i)
  /\ Put(i)
  /\ passed' = [passed EXCEPT ![i] = @ \cup {NextType(i)}]
  /\ UNCHANGED <<message, attempts, database, workflow, opened, owner, ready,
                 faulted>>

(* ... and step_setup_dns tries all types again.  After the last attempt   *)
(* the error has client_retry and the message is requeued.                 *)
MutantLastAttempt(i) == Settle(i, "abandoned")
LastAttempt(i) == Settle(i, "queued")

NotAvailableYet(i) ==
  /\ Attempting(i) /\ ~LoopEnded(i)
  /\ Raises(i)
  /\ IF attempts[i] > 1
       THEN /\ attempts' = [attempts EXCEPT ![i] = @ - 1]
            /\ passed' = [passed EXCEPT ![i] = {}]
            /\ UNCHANGED message
       ELSE LastAttempt(i)
  /\ UNCHANGED <<database, workflow, provider, faulted>>

(* The purchase is marked when the loop came to its end without an error,  *)
(* nobody asks the provider what it has.                                   *)
MarkPurchase(i) ==
  purchase' = [purchase EXCEPT ![i] = IF @ = "none" THEN @ ELSE "complete"]

MarkComplete(i) ==
  /\ Attempting(i) /\ LoopEnded(i)
  /\ MarkPurchase(i)
  /\ Settle(i, "acked")
  /\ UNCHANGED <<offer, finished, account, workflow, provider, faulted>>

(* Any other error has no client_retry, the message is abandoned, some of  *)
(* the records may be set.                                                 *)
UpdateFails(i) ==
  /\ message[i] = "handling"
  /\ \/ /\ Fault({"refused", "database"})
        /\ UNCHANGED <<dns, purchase>>
     \/ /\ Fault({"lost"}) /\ ~LoopEnded(i)
        /\ Put(i)
        /\ UNCHANGED purchase
     \/ /\ Fault({"database"}) /\ LoopEnded(i)
        /\ MarkPurchase(i)
        /\ UNCHANGED dns
  /\ Settle(i, "abandoned")
  /\ UNCHANGED <<offer, finished, account, workflow, opened, owner, ready>>

-----------------------------------------------------------------------------
(* Environment *)

ProviderReady(d) ==
  /\ owner[d] # Nobody /\ ~ready[d]
  /\ ready' = [ready EXCEPT ![d] = TRUE]
  /\ UNCHANGED <<database, workflow, queue, opened, owner, dns, faulted>>

(* A restart ends the requests; the broker keeps what was not settled.     *)
Crash ==
  /\ Fault({"crash"})
  /\ \/ \E s \in Submissions : pc[s] \notin {"new", "done"}
     \/ \E i \in Intentions : message[i] = "handling"
  /\ pc' = [s \in Submissions |-> IF pc[s] = "new" THEN "new" ELSE "done"]
  /\ answer' = [s \in Submissions |->
       IF pc[s] \in {"new", "done"} THEN answer[s] ELSE "error"]
  /\ message' = [i \in Intentions |->
       IF message[i] = "handling" THEN "queued" ELSE message[i]]
  /\ attempts' = [i \in Intentions |-> 0]
  /\ passed' = [i \in Intentions |-> {}]
  /\ UNCHANGED <<database, using, provider>>

Work(s) == \/ Submit(s) \/ Validate(s) \/ FindAccount(s) \/ CreateAccount(s)
           \/ InsertAccount(s) \/ Purchase(s) \/ PurchaseFails(s) \/ Finish(s)
           \/ Record(s) \/ RecordFails(s) \/ ValidateFails(s)
           \/ LookupFails(s) \/ CreateAccountFails(s) \/ InsertAccountFails(s)
           \/ FinishFails(s)
Update(i) == \/ Deliver(i) \/ SetRecord(i) \/ MarkComplete(i)
             \/ NotAvailableYet(i) \/ UpdateFails(i)

Next == \/ \E i \in Intentions : CheckAvailable(i) \/ CreateIntention(i)
        \/ \E s \in Submissions : Work(s)
        \/ \E i \in Intentions : Update(i)
        \/ \E d \in Domains : ProviderReady(d)
        \/ Crash

Spec == Init /\ [][Next]_vars

(* A request that was begun goes on, the queue delivers, and a domain that *)
(* was bought becomes available for updates.                               *)
FairSpec == /\ Spec
            /\ \A s \in Submissions : WF_vars(pc[s] # "new" /\ Work(s))
            /\ \A i \in Intentions : WF_vars(Update(i))
            /\ \A d \in Domains : WF_vars(ProviderReady(d))

-----------------------------------------------------------------------------
(* Properties *)

TypeOK ==
  /\ offer \in [Intentions -> {"none", "checked", "created"}]
  /\ finished \in [Intentions -> BOOLEAN]
  /\ account \in [Entities -> Nat]
  /\ purchase \in [Intentions -> {"none", "bought", "complete"}]
  /\ pc \in [Submissions -> {"new", "validate", "account", "create", "insert",
                             "purchase", "finish", "record", "done"}]
  /\ using \in [Submissions -> Nat]
  /\ answer \in [Submissions -> {"none", "created", "not_modified", "error"}]
  /\ message \in [Intentions -> {"none", "queued", "handling", "acked",
                                 "abandoned"}]
  /\ attempts \in [Intentions -> 0..Attempts]
  /\ passed \in [Intentions -> SUBSET RecordTypes]
  /\ opened \in [Entities -> Nat]
  /\ owner \in [Domains -> {Nobody} \cup [intention : Intentions,
                                         account : Nat]]
  /\ ready \in [Domains -> BOOLEAN]
  /\ dns \in [Domains -> SUBSET RecordTypes]
  /\ faulted \in BOOLEAN

(* An intention is finished only if the provider sold the domain to this   *)
(* very intention: races of submissions, of intentions for one domain,     *)
(* lost answers and crashes never mark somebody else's purchase.           *)
FinishedIsOwned ==
  \A i \in Intentions :
    finished[i] => owner[DomainOf[i]].intention = i

(* The domain belongs to the subaccount the database knows for the entity, *)
(* the one update_registered_dns will use, even when two submissions       *)
(* opened a subaccount each.                                               *)
OwnedByRecordedAccount ==
  \A i \in Intentions :
    owner[DomainOf[i]].intention = i =>
      /\ owner[DomainOf[i]].account = account[EntityOf[i]]
      /\ account[EntityOf[i]] # NoAccount

(* A client that reads "created" has a domain that is bought, recorded and *)
(* scheduled for its DNS records; of all submissions of an intention one   *)
(* at most is told so.                                                     *)
CreatedIsScheduled ==
  \A s \in Submissions : answer[s] = "created" =>
    LET i == IntentionOf[s] IN
      /\ finished[i] /\ purchase[i] # "none" /\ message[i] # "none"
      /\ \A q \in Submissions \ {s} :
           IntentionOf[q] = i => answer[q] # "created"

(* post_registration_complete is set only when every record is set up at   *)
(* the provider: the end of the loop in update_dns_records means so, over  *)
(* attempts that failed half way and messages that came back.              *)
CompleteHasRecords ==
  \A i \in Intentions :
    purchase[i] = "complete" => dns[DomainOf[i]] = RecordTypes

(* "Validates registration data and if all fine then do: creates           *)
(* subaccount, purchase a domain, setup DNS" (service.py 325-328): a       *)
(* finished registration gets its DNS records, however many submissions    *)
(* race for the domain and however late the provider is ready for the      *)
(* records, as long as nothing goes wrong.                                 *)
RecordsUnlessFaulted ==
  \A i \in Intentions : finished[i] ~> (purchase[i] = "complete" \/ faulted)

(* A domain the provider sold ends up recorded as the finished intention,  *)
(* unless something went wrong in between.                                 *)
SoldIsFinishedUnlessFaulted ==
  \A i \in Intentions :
    (owner[DomainOf[i]].intention = i) ~> (finished[i] \/ faulted)
=============================================================================
