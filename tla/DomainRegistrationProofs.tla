----------------------- MODULE DomainRegistrationProofs -----------------------
(***************************************************************************)
(* The safety properties of DomainRegistration for any intentions, domains *)
(* and entities, any submissions, any number of attempts at the DNS        *)
(* records, and with every kind of fault.                                  *)
(*                                                                         *)
(* Who owns a domain is decided when it is bought, long before the         *)
(* database says so.  Place therefore says, for every step of the          *)
(* workflow, what the steps before it have established at the provider and *)
(* in the database, and Lasting that no other submission, message or       *)
(* restart undoes it meanwhile.                                            *)
(***************************************************************************)
EXTENDS DomainRegistration, TLAPS

Sold(i) == owner[DomainOf[i]].intention = i

(* What a submission can rely on at a step of the workflow.                *)
PlaceOf(s) == /\ pc[s] = "insert" => using[s] # NoAccount
              /\ pc[s] = "purchase" => /\ using[s] = account[Entity(s)]
                                       /\ using[s] # NoAccount
              /\ pc[s] \in {"finish", "record"} => Sold(IntentionOf[s])
              /\ pc[s] = "record" => finished[IntentionOf[s]]
Place == \A s \in Submissions : PlaceOf(s)

Ownership == Place /\ FinishedIsOwned /\ OwnedByRecordedAccount

(* What a handler got past in its loop, the provider has.                  *)
PassedIsSet == \A i \in Intentions : passed[i] \subseteq dns[DomainOf[i]]

Inv == /\ TypeOK /\ Ownership /\ CreatedIsScheduled
       /\ PassedIsSet /\ CompleteHasRecords

(* What was sold, recorded or set up stays so.                             *)
Lasting == /\ \A e \in Entities : account[e] # NoAccount => account'[e] = account[e]
           /\ \A d \in Domains : owner[d] # Nobody => owner'[d] = owner[d]
           /\ \A d \in Domains : dns[d] \subseteq dns'[d]
           /\ \A i \in Intentions : /\ finished[i] => finished'[i]
                                    /\ purchase[i] # "none" => purchase'[i] # "none"
                                    /\ message[i] # "none" => message'[i] # "none"

USE DomainAssumption

(* Whose domain and entity a submission is about.                          *)
LEMMA Typing ==
  /\ \A s \in Submissions : /\ IntentionOf[s] \in Intentions
                            /\ Domain(s) \in Domains /\ Entity(s) \in Entities
  /\ \A i \in Intentions : DomainOf[i] \in Domains /\ EntityOf[i] \in Entities
  /\ NoAccount \in Nat
  /\ \A i \in Intentions, n \in Nat : [intention |-> i, account |-> n] # Nobody
BY DEF Domains, Entities, Domain, Entity, NoAccount, Nobody

(* Initially nothing is offered, sold or recorded.                         *)
LEMMA InitInv == Init => Inv
<1> SUFFICES ASSUME Init PROVE Inv
  OBVIOUS
<1> USE Typing DEF Init
<1>1. TypeOK
  <2>1. owner \in [Domains -> {Nobody} \cup [intention : Intentions, account : Nat]]
    OBVIOUS
  <2>2. attempts \in [Intentions -> 0..Attempts]
    OBVIOUS
  <2>3. account \in [Entities -> Nat] /\ using \in [Submissions -> Nat]
    OBVIOUS
  <2>4. dns \in [Domains -> SUBSET RecordTypes]
    OBVIOUS
  <2>5. passed \in [Intentions -> SUBSET RecordTypes]
    OBVIOUS
  <2> QED BY <2>1, <2>2, <2>3, <2>4, <2>5 DEF TypeOK
<1>2. Ownership
  BY DEF Ownership, Place, PlaceOf, FinishedIsOwned, OwnedByRecordedAccount, Nobody
<1>3. CreatedIsScheduled /\ PassedIsSet /\ CompleteHasRecords
  BY DEF CreatedIsScheduled, PassedIsSet, CompleteHasRecords
<1> QED BY <1>1, <1>2, <1>3 DEF Inv

-----------------------------------------------------------------------------
(* Every step keeps the types.                                             *)
LEMMA TypeStep == TypeOK /\ [Next]_vars => TypeOK'
<1> SUFFICES ASSUME TypeOK, [Next]_vars PROVE TypeOK'
  OBVIOUS
<1> DEFINE Flow == /\ pc' \in [Submissions -> {"new", "validate", "account", "create",
                                             "insert", "purchase", "finish",
                                             "record", "done"}]
                   /\ answer' \in [Submissions -> {"none", "created",
                                                 "not_modified", "error"}]
<1> USE Typing DEF TypeOK, database, workflow, queue, provider, Goto, Answer, Fault
<1>1. ASSUME NEW i \in Intentions, CheckAvailable(i) \/ CreateIntention(i)
      PROVE  TypeOK'
  BY <1>1 DEF CheckAvailable, CreateIntention
<1>2. ASSUME NEW s \in Submissions,
             Submit(s) \/ LookupFails(s) \/ Validate(s) \/ ValidateFails(s)
      PROVE  TypeOK'
  BY <1>2 DEF Submit, LookupFails, Validate, ValidateFails
<1>3. ASSUME NEW s \in Submissions, FindAccount(s) PROVE TypeOK'
  <2>1. using' \in [Submissions -> Nat]
    BY <1>3 DEF FindAccount
  <2>2. Flow
    BY <1>3 DEF FindAccount
  <2> QED BY <1>3, <2>1, <2>2 DEF FindAccount
<1>4. ASSUME NEW s \in Submissions, CreateAccount(s) \/ CreateAccountFails(s)
      PROVE  TypeOK'
  <2>1. opened' \in [Entities -> Nat]
    BY <1>4 DEF CreateAccount, CreateAccountFails, OpenAccount
  <2>2. using' \in [Submissions -> Nat]
    BY <1>4 DEF CreateAccount, CreateAccountFails
  <2>3. Flow /\ faulted' \in BOOLEAN
    BY <1>4 DEF CreateAccount, CreateAccountFails
  <2> QED BY <1>4, <2>1, <2>2, <2>3 DEF CreateAccount, CreateAccountFails
<1>5. ASSUME NEW s \in Submissions, InsertAccount(s) \/ InsertAccountFails(s)
      PROVE  TypeOK'
  <2>1. account' \in [Entities -> Nat]
    BY <1>5 DEF InsertAccount, InsertAccountFails, StoreAccount
  <2>2. Flow /\ faulted' \in BOOLEAN
    BY <1>5 DEF InsertAccount, InsertAccountFails
  <2> QED BY <1>5, <2>1, <2>2 DEF InsertAccount, InsertAccountFails
<1>6. ASSUME NEW s \in Submissions, Purchase(s) \/ PurchaseFails(s)
      PROVE  TypeOK'
  <2>1. owner' \in [Domains -> {Nobody} \cup [intention : Intentions, account : Nat]]
    BY <1>6 DEF Purchase, PurchaseFails, Sell
  <2>2. Flow /\ faulted' \in BOOLEAN
    BY <1>6 DEF Purchase, PurchaseFails
  <2> QED BY <1>6, <2>1, <2>2 DEF Purchase, PurchaseFails
<1>7. ASSUME NEW s \in Submissions, Finish(s) \/ FinishFails(s)
      PROVE  TypeOK'
  BY <1>7 DEF Finish, FinishFails, SetFinished
<1>8. ASSUME NEW s \in Submissions, Record(s) \/ RecordFails(s)
      PROVE  TypeOK'
  <2>1. purchase' \in [Intentions -> {"none", "bought", "complete"}]
    BY <1>8 DEF Record, RecordFails, RecordPurchase
  <2>2. message' \in [Intentions -> {"none", "queued", "handling", "acked",
                                     "abandoned"}]
    BY <1>8 DEF Record, RecordFails
  <2>3. Flow /\ faulted' \in BOOLEAN
    BY <1>8 DEF Record, RecordFails
  <2> QED BY <1>8, <2>1, <2>2, <2>3 DEF Record, RecordFails
<1>9. ASSUME NEW i \in Intentions, Deliver(i) PROVE TypeOK'
  BY <1>9 DEF Deliver, FreshAttempts
<1>10. ASSUME NEW i \in Intentions, SetRecord(i) PROVE TypeOK'
  <2>1. NextType(i) \in RecordTypes
    BY DEF NextType, RecordTypes
  <2>2. dns' \in [Domains -> SUBSET RecordTypes]
    BY <1>10, <2>1 DEF SetRecord, Put
  <2>3. passed' \in [Intentions -> SUBSET RecordTypes]
    BY <1>10, <2>1 DEF SetRecord
  <2> QED BY <1>10, <2>2, <2>3 DEF SetRecord
<1>11. ASSUME NEW i \in Intentions, MarkComplete(i) PROVE TypeOK'
  BY <1>11 DEF MarkComplete, MarkPurchase, Settle
<1>12. ASSUME NEW i \in Intentions, NotAvailableYet(i) PROVE TypeOK'
  <2>1. CASE attempts[i] > 1
    <3>1. attempts[i] - 1 \in 0..Attempts
      BY <2>1
    <3> QED BY <1>12, <2>1, <3>1 DEF NotAvailableYet
  <2>2. CASE ~(attempts[i] > 1)
    BY <1>12, <2>2 DEF NotAvailableYet, LastAttempt, Settle
  <2> QED BY <2>1, <2>2
<1>13. ASSUME NEW i \in Intentions, UpdateFails(i) PROVE TypeOK'
  <2>1. /\ purchase' \in [Intentions -> {"none", "bought", "complete"}]
        /\ faulted' \in BOOLEAN
    BY <1>13 DEF UpdateFails, MarkPurchase
  <2>2. dns' \in [Domains -> SUBSET RecordTypes]
    <3>1. NextType(i) \in RecordTypes
      BY DEF NextType, RecordTypes
    <3>2. CASE Put(i)
      BY <3>1, <3>2 DEF Put
    <3>3. CASE UNCHANGED dns
      BY <3>3
    <3> QED BY <1>13, <3>2, <3>3 DEF UpdateFails
  <2>3. /\ message' \in [Intentions -> {"none", "queued", "handling", "acked",
                                        "abandoned"}]
        /\ attempts' \in [Intentions -> 0..Attempts]
        /\ passed' \in [Intentions -> SUBSET RecordTypes]
    BY <1>13 DEF UpdateFails, Settle
  <2> QED BY <1>13, <2>1, <2>2, <2>3 DEF UpdateFails
<1>14. ASSUME NEW d \in Domains, ProviderReady(d) PROVE TypeOK'
  BY <1>14 DEF ProviderReady
<1>15. CASE Crash
  BY <1>15 DEF Crash
<1>16. CASE UNCHANGED vars
  BY <1>16 DEF vars
<1> QED
  BY <1>1, <1>2, <1>3, <1>4, <1>5, <1>6, <1>7, <1>8, <1>9, <1>10, <1>11, <1>12,
     <1>13, <1>14, <1>15, <1>16 DEF Next, Work, Update

(* No step takes back what was sold, recorded or set up.                   *)
LEMMA LastingStep == TypeOK /\ [Next]_vars => Lasting
<1> SUFFICES ASSUME TypeOK, [Next]_vars PROVE Lasting
  OBVIOUS
<1> USE Typing DEF TypeOK, Lasting, database, workflow, queue, provider, Fault
<1>1. ASSUME NEW i \in Intentions, CheckAvailable(i) \/ CreateIntention(i)
      PROVE  Lasting
  BY <1>1 DEF CheckAvailable, CreateIntention
<1>2. ASSUME NEW s \in Submissions,
             \/ Submit(s) \/ LookupFails(s) \/ Validate(s) \/ ValidateFails(s)
             \/ FindAccount(s) \/ CreateAccount(s) \/ CreateAccountFails(s)
      PROVE  Lasting
  BY <1>2 DEF Submit, LookupFails, Validate, ValidateFails, FindAccount,
     CreateAccount, CreateAccountFails
<1>3. ASSUME NEW s \in Submissions, InsertAccount(s) \/ InsertAccountFails(s)
      PROVE  Lasting
  BY <1>3 DEF InsertAccount, InsertAccountFails, StoreAccount, AccountFree
<1>4. ASSUME NEW s \in Submissions, Purchase(s) \/ PurchaseFails(s)
      PROVE  Lasting
  BY <1>4 DEF Purchase, PurchaseFails, Sell
<1>5. ASSUME NEW s \in Submissions, Finish(s) \/ FinishFails(s)
      PROVE  Lasting
  BY <1>5 DEF Finish, FinishFails, SetFinished
<1>6. ASSUME NEW s \in Submissions, Record(s) \/ RecordFails(s)
      PROVE  Lasting
  BY <1>6 DEF Record, RecordFails, RecordPurchase
<1>7. ASSUME NEW i \in Intentions, Deliver(i) \/ NotAvailableYet(i)
      PROVE  Lasting
  BY <1>7 DEF Deliver, NotAvailableYet, LastAttempt, Settle
<1>8. ASSUME NEW i \in Intentions, SetRecord(i) PROVE Lasting
  BY <1>8 DEF SetRecord, Put
<1>9. ASSUME NEW i \in Intentions, MarkComplete(i) PROVE Lasting
  BY <1>9 DEF MarkComplete, MarkPurchase, Settle
<1>10. ASSUME NEW i \in Intentions, UpdateFails(i) PROVE Lasting
  BY <1>10 DEF UpdateFails, Put, MarkPurchase, Settle
<1>11. ASSUME NEW d \in Domains, ProviderReady(d) PROVE Lasting
  BY <1>11 DEF ProviderReady
<1>12. CASE Crash
  BY <1>12 DEF Crash
<1>13. CASE UNCHANGED vars
  BY <1>13 DEF vars
<1> QED
  BY <1>1, <1>2, <1>3, <1>4, <1>5, <1>6, <1>7, <1>8, <1>9, <1>10, <1>11, <1>12,
     <1>13 DEF Next, Work, Update

-----------------------------------------------------------------------------
(* Who changes what *)

(* The finished flag and the purchases of the database, the sales of the   *)
(* provider and the answers of the service have one author each.           *)
LEMMA Authors ==
  ASSUME TypeOK, [Next]_vars
  PROVE  /\ finished' = finished \/ \E s \in Submissions : Finish(s) \/ FinishFails(s)
         /\ owner' = owner \/ \E s \in Submissions : Purchase(s) \/ PurchaseFails(s)
         /\ \A s \in Submissions :
              answer'[s] = "created" => answer[s] = "created" \/ Record(s)
         /\ \A i \in Intentions :
              purchase'[i] = "complete" =>
                purchase[i] = "complete" \/ MarkComplete(i) \/ UpdateFails(i)
<1> USE Typing DEF database, workflow, queue, provider, Goto, Answer, Settle
<1>1. ASSUME NEW s \in Submissions, Work(s) PROVE
         /\ finished' = finished \/ Finish(s) \/ FinishFails(s)
         /\ owner' = owner \/ Purchase(s) \/ PurchaseFails(s)
         /\ UNCHANGED answer \/ Record(s) \/ \E a \in {"not_modified", "error"} : Answer(s, a)
         /\ UNCHANGED purchase \/ RecordPurchase(s)
  BY <1>1 DEF Work, Submit, LookupFails, Validate, ValidateFails, FindAccount,
     CreateAccount, CreateAccountFails, InsertAccount, InsertAccountFails,
     Purchase, PurchaseFails, Finish, FinishFails, Record, RecordFails
<1>2. ASSUME NEW i \in Intentions, Update(i) PROVE
         /\ UNCHANGED <<finished, owner, answer>>
         /\ UNCHANGED purchase \/ MarkComplete(i) \/ UpdateFails(i)
  BY <1>2 DEF Update, Deliver, SetRecord, MarkComplete, NotAvailableYet, UpdateFails
<1>3. CASE \E s \in Submissions : Work(s)
  <2>1. PICK s \in Submissions : Work(s)
    BY <1>3
  <2>2. \A q \in Submissions :
          answer'[q] = "created" => answer[q] = "created" \/ Record(q)
    <3>1. CASE Record(s)
      BY <3>1 DEF Record, TypeOK
    <3>2. CASE ~Record(s)
      BY <3>2, <2>1, <1>1 DEF TypeOK
    <3> QED BY <3>1, <3>2
  <2>3. \A i \in Intentions : purchase'[i] = "complete" => purchase[i] = "complete"
    BY <2>1, <1>1 DEF RecordPurchase, TypeOK
  <2> QED BY <2>1, <2>2, <2>3, <1>1
<1>4. CASE \E i \in Intentions : Update(i)
  <2>1. PICK i \in Intentions : Update(i)
    BY <1>4
  <2>2. \A j \in Intentions : purchase'[j] = "complete" =>
          purchase[j] = "complete" \/ MarkComplete(j) \/ UpdateFails(j)
    <3>1. CASE MarkComplete(i) \/ UpdateFails(i)
      BY <3>1 DEF MarkComplete, UpdateFails, MarkPurchase, TypeOK
    <3>2. CASE UNCHANGED purchase
      BY <3>2
    <3> QED BY <3>1, <3>2, <2>1, <1>2
  <2> QED BY <2>1, <2>2, <1>2
<1>5. CASE \/ \E i \in Intentions : CheckAvailable(i) \/ CreateIntention(i)
           \/ \E d \in Domains : ProviderReady(d)
           \/ UNCHANGED vars
  BY <1>5 DEF CheckAvailable, CreateIntention, ProviderReady, vars
<1>6. CASE Crash
  BY <1>6 DEF Crash
<1> QED BY <1>3, <1>4, <1>5, <1>6 DEF Next

(* The finished flag is set for an intention the provider sold to.         *)
LEMMA FinishSource ==
  ASSUME TypeOK, Place, [Next]_vars, NEW i \in Intentions, finished'[i], ~finished[i]
  PROVE  Sold(i)
<1>1. PICK s \in Submissions : Finish(s) \/ FinishFails(s)
  BY Authors
<1>2. IntentionOf[s] = i /\ pc[s] = "finish"
  BY <1>1, Typing DEF Finish, FinishFails, SetFinished, TypeOK
<1> QED BY <1>2 DEF Place, PlaceOf

(* A domain is sold for the subaccount the database knows.                 *)
LEMMA SaleSource ==
  ASSUME TypeOK, Place, [Next]_vars, NEW i \in Intentions, Sold(i)', ~Sold(i)
  PROVE  /\ account' = account /\ account[EntityOf[i]] # NoAccount
         /\ owner'[DomainOf[i]].account = account[EntityOf[i]]
<1>1. PICK s \in Submissions : Purchase(s) \/ PurchaseFails(s)
  BY Authors DEF Sold
<1>2. /\ account' = account /\ pc[s] = "purchase" /\ Sell(s)
      /\ owner[Domain(s)] = Nobody
  BY <1>1, Typing DEF Purchase, PurchaseFails, TypeOK, database, Sold
<1>3. IntentionOf[s] = i
  BY <1>2, Typing DEF Sell, Sold, TypeOK, Domain
<1> QED BY <1>2, <1>3, Typing DEF Place, PlaceOf, Sell, TypeOK, Domain, Entity

-----------------------------------------------------------------------------
(* What a submission relies on stays true while others work.               *)
LEMMA PlaceStays ==
  ASSUME TypeOK, Lasting, NEW s \in Submissions, PlaceOf(s),
         pc'[s] = pc[s], using'[s] = using[s]
  PROVE  PlaceOf(s)'
<1>1. Sold(IntentionOf[s]) => Sold(IntentionOf[s])'
  BY Typing DEF Lasting, Sold, Nobody
<1> QED BY <1>1, Typing DEF PlaceOf, Lasting

(* Each step of the workflow leaves what the next one relies on.           *)
LEMMA PlaceStep ==
  ASSUME TypeOK, Place, Lasting, [Next]_vars
  PROVE  Place'
<1> USE Typing DEF TypeOK, database, workflow, queue, provider, Goto, Answer, Fault
<1> DEFINE Still(s) == pc'[s] = pc[s] /\ using'[s] = using[s]
           Over(s)  == pc'[s] \in {"new", "done", "validate", "account", "create"}
<1>1. ASSUME NEW s \in Submissions, Still(s) \/ Over(s)
      PROVE  PlaceOf(s)'
  <2>1. CASE Still(s)
    BY <2>1, PlaceStays DEF Place
  <2>2. CASE Over(s)
    BY <2>2 DEF PlaceOf
  <2> QED BY <1>1, <2>1, <2>2
<1>2. CASE \E q \in Submissions : Work(q)
  <2>1. PICK q \in Submissions : Work(q)
    BY <1>2
  <2>2. ASSUME NEW s \in Submissions \ {q} PROVE Still(s)
    BY <2>1 DEF Work, Submit, LookupFails, Validate, ValidateFails, FindAccount,
       CreateAccount, CreateAccountFails, InsertAccount, InsertAccountFails,
       Purchase, PurchaseFails, Finish, FinishFails, Record, RecordFails
  <2>3. ASSUME \/ Submit(q) \/ LookupFails(q) \/ Validate(q) \/ ValidateFails(q)
               \/ CreateAccountFails(q) \/ InsertAccountFails(q)
               \/ PurchaseFails(q) \/ FinishFails(q) \/ Record(q) \/ RecordFails(q)
        PROVE  Over(q)
    BY <2>3 DEF Submit, LookupFails, Validate, ValidateFails, CreateAccountFails,
       InsertAccountFails, PurchaseFails, FinishFails, Record, RecordFails
  <2>4. ASSUME FindAccount(q) PROVE PlaceOf(q)'
    BY <2>4 DEF FindAccount, AccountFound, PlaceOf, Entity
  <2>5. ASSUME CreateAccount(q) PROVE PlaceOf(q)'
    <3>1. pc'[q] = "insert" /\ using'[q] = opened[Entity(q)] + 1
      BY <2>5 DEF CreateAccount
    <3> QED BY <3>1 DEF PlaceOf, NoAccount
  <2>6. ASSUME InsertAccount(q) PROVE PlaceOf(q)'
    <3>1. CASE AccountFree(q)
      <4>1. account'[Entity(q)] = using[q] /\ using' = using /\ pc'[q] = "purchase"
        BY <2>6, <3>1 DEF InsertAccount, StoreAccount
      <4>2. using[q] # NoAccount
        BY <2>6 DEF InsertAccount, Place, PlaceOf
      <4> QED BY <4>1, <4>2 DEF PlaceOf, Entity
    <3>2. CASE ~AccountFree(q)
      BY <2>6, <3>2 DEF InsertAccount, PlaceOf
    <3> QED BY <3>1, <3>2
  <2>7. ASSUME Purchase(q) PROVE PlaceOf(q)'
    <3>1. pc'[q] = "finish" /\ owner'[DomainOf[IntentionOf[q]]].intention = IntentionOf[q]
      BY <2>7 DEF Purchase, Sell, Domain
    <3> QED BY <3>1 DEF PlaceOf, Sold
  <2>8. ASSUME Finish(q) PROVE PlaceOf(q)'
    <3>1. CASE NoneFinished(IntentionOf[q])
      <4>1. finished'[IntentionOf[q]] /\ owner' = owner /\ pc'[q] = "record"
        BY <2>8, <3>1 DEF Finish, SetFinished
      <4>2. Sold(IntentionOf[q])
        BY <2>8 DEF Finish, Place, PlaceOf
      <4> QED BY <4>1, <4>2 DEF PlaceOf, Sold
    <3>2. CASE ~NoneFinished(IntentionOf[q])
      BY <2>8, <3>2 DEF Finish, PlaceOf
    <3> QED BY <3>1, <3>2
  <2>9. PlaceOf(q)'
    BY <1>1, <2>1, <2>3, <2>4, <2>5, <2>6, <2>7, <2>8 DEF Work
  <2> QED BY <1>1, <2>2, <2>9 DEF Place
<1>3. CASE Crash
  BY <1>1, <1>3 DEF Crash, Place
<1>4. CASE \/ \E i \in Intentions : CheckAvailable(i) \/ CreateIntention(i) \/ Update(i)
           \/ \E d \in Domains : ProviderReady(d)
           \/ UNCHANGED vars
  <2>1. UNCHANGED <<pc, using>>
    BY <1>4 DEF CheckAvailable, CreateIntention, Update, Deliver, SetRecord,
       MarkComplete, NotAvailableYet, UpdateFails, ProviderReady, vars
  <2> QED BY <1>1, <2>1 DEF Place
<1> QED BY <1>2, <1>3, <1>4 DEF Next

(* No race of submissions marks the purchase of another intention, or      *)
(* leaves a domain with a subaccount the database does not know.           *)
LEMMA OwnershipStep == TypeOK /\ Ownership /\ [Next]_vars => Ownership'
<1> SUFFICES ASSUME TypeOK, Ownership, [Next]_vars PROVE Ownership'
  OBVIOUS
<1> USE DEF Ownership
<1>1. Lasting
  BY LastingStep
<1>2. Place'
  BY <1>1, PlaceStep
<1>3. \A i \in Intentions : Sold(i) => owner'[DomainOf[i]] = owner[DomainOf[i]]
  BY <1>1, Typing DEF Lasting, Sold, Nobody
<1>4. ASSUME NEW i \in Intentions, finished'[i] PROVE Sold(i)'
  <2>1. Sold(i)
    BY <1>4, FinishSource DEF FinishedIsOwned, Sold
  <2> QED BY <2>1, <1>3 DEF Sold
<1>5. ASSUME NEW i \in Intentions, Sold(i)'
      PROVE  /\ owner'[DomainOf[i]].account = account'[EntityOf[i]]
             /\ account'[EntityOf[i]] # NoAccount
  <2>1. CASE Sold(i)
    BY <2>1, <1>1, <1>3, Typing DEF OwnedByRecordedAccount, Sold, Lasting
  <2>2. CASE ~Sold(i)
    BY <2>2, <1>5, SaleSource
  <2> QED BY <2>1, <2>2
<1> QED BY <1>2, <1>4, <1>5 DEF FinishedIsOwned, OwnedByRecordedAccount, Sold

(* Of the submissions of an intention the first to record the purchase     *)
(* alone says "created".                                                   *)
LEMMA CreatedStep ==
  TypeOK /\ Place /\ CreatedIsScheduled /\ [Next]_vars => CreatedIsScheduled'
<1> SUFFICES ASSUME TypeOK, Place, CreatedIsScheduled, [Next]_vars,
                    NEW s \in Submissions, answer'[s] = "created"
             PROVE  /\ finished'[IntentionOf[s]] /\ purchase'[IntentionOf[s]] # "none"
                    /\ message'[IntentionOf[s]] # "none"
                    /\ \A q \in Submissions \ {s} :
                         IntentionOf[q] = IntentionOf[s] => answer'[q] # "created"
  BY DEF CreatedIsScheduled
<1>1. Lasting
  BY LastingStep
<1>2. ASSUME NEW q \in Submissions, Record(q)
      PROVE  /\ finished'[IntentionOf[q]] /\ purchase'[IntentionOf[q]] # "none"
             /\ message'[IntentionOf[q]] # "none"
             /\ purchase[IntentionOf[q]] = "none"
             /\ \A r \in Submissions \ {q} : answer'[r] = answer[r]
  BY <1>2, Typing DEF Record, RecordPurchase, Answer, TypeOK, Place, PlaceOf
<1>3. ASSUME NEW q \in Submissions, answer[q] = "created"
      PROVE  /\ finished'[IntentionOf[q]] /\ purchase'[IntentionOf[q]] # "none"
             /\ message'[IntentionOf[q]] # "none"
             /\ purchase[IntentionOf[q]] # "none"
  BY <1>1, <1>3, Typing DEF CreatedIsScheduled, Lasting
<1>4. \A q \in Submissions :
        answer'[q] = "created" => answer[q] = "created" \/ Record(q)
  BY Authors
<1>5. ASSUME NEW q \in Submissions \ {s}, IntentionOf[q] = IntentionOf[s],
             answer'[q] = "created"
      PROVE  FALSE
  <2>1. CASE answer[s] = "created" /\ answer[q] = "created"
    BY <2>1, <1>5 DEF CreatedIsScheduled
  <2>2. CASE Record(s)
    BY <2>2, <1>2, <1>3, <1>4, <1>5
  <2>3. CASE Record(q)
    BY <2>3, <1>2, <1>3, <1>4, <1>5
  <2> QED BY <1>4, <1>5, <2>1, <2>2, <2>3
<1> QED BY <1>2, <1>3, <1>4, <1>5

(* A handler gets past a record type only when the provider has taken it,  *)
(* and an attempt or a handling begun anew has got past none.              *)
LEMMA PassedStep == TypeOK /\ PassedIsSet /\ [Next]_vars => PassedIsSet'
<1> SUFFICES ASSUME TypeOK, PassedIsSet, [Next]_vars, NEW i \in Intentions
             PROVE  passed'[i] \subseteq dns'[DomainOf[i]]
  BY DEF PassedIsSet
<1> USE Typing DEF database, workflow, queue, provider
<1>1. dns[DomainOf[i]] \subseteq dns'[DomainOf[i]]
  BY LastingStep DEF Lasting
<1>2. ASSUME passed'[i] \in {passed[i], {}}
      PROVE  passed'[i] \subseteq dns'[DomainOf[i]]
  BY <1>1, <1>2 DEF PassedIsSet
<1>3. ASSUME NEW j \in Intentions, SetRecord(j)
      PROVE  passed'[i] \subseteq dns'[DomainOf[i]]
  <2>1. CASE j # i
    BY <1>2, <1>3, <2>1 DEF SetRecord, TypeOK
  <2>2. CASE j = i
    <3>1. passed'[i] = passed[i] \cup {NextType(i)}
      BY <1>3, <2>2 DEF SetRecord, TypeOK
    <3>2. NextType(i) \in dns'[DomainOf[i]]
      BY <1>3, <2>2 DEF SetRecord, Raises, Put, TypeOK
    <3> QED BY <1>1, <3>1, <3>2 DEF PassedIsSet
  <2> QED BY <2>1, <2>2
<1>4. ASSUME NEW j \in Intentions,
             MarkComplete(j) \/ NotAvailableYet(j) \/ UpdateFails(j)
      PROVE  passed'[i] \subseteq dns'[DomainOf[i]]
  BY <1>2, <1>4 DEF MarkComplete, NotAvailableYet, UpdateFails, LastAttempt, Settle,
     TypeOK
<1>5. CASE Crash
  BY <1>2, <1>5 DEF Crash
<1>6. CASE UNCHANGED passed
  BY <1>2, <1>6
<1>7. ASSUME NEW s \in Submissions, Work(s) PROVE UNCHANGED passed
  BY <1>7 DEF Work, Submit, LookupFails, Validate, ValidateFails, FindAccount,
     CreateAccount, CreateAccountFails, InsertAccount, InsertAccountFails,
     Purchase, PurchaseFails, Finish, FinishFails, Record, RecordFails
<1> QED
  BY <1>3, <1>4, <1>5, <1>6, <1>7 DEF Next, Update, CheckAvailable, CreateIntention,
     Deliver, ProviderReady, vars

(* A purchase is complete when the handler got past every record type,     *)
(* which the provider then has, and none is removed.                       *)
LEMMA CompleteStep ==
  TypeOK /\ PassedIsSet /\ CompleteHasRecords /\ [Next]_vars => CompleteHasRecords'
<1> SUFFICES ASSUME TypeOK, PassedIsSet, CompleteHasRecords, [Next]_vars,
                    NEW i \in Intentions, purchase'[i] = "complete"
             PROVE  dns'[DomainOf[i]] = RecordTypes
  BY DEF CompleteHasRecords
<1>1. Lasting /\ TypeOK'
  BY LastingStep, TypeStep
<1>2. ASSUME purchase[i] # "complete"
      PROVE  dns[DomainOf[i]] = RecordTypes
  <2>1. MarkComplete(i) \/ UpdateFails(i)
    BY <1>2, Authors
  <2>2. LoopEnded(i)
    BY <1>2, <2>1 DEF MarkComplete, UpdateFails
  <2>3. dns[DomainOf[i]] \in SUBSET RecordTypes
    BY Typing DEF TypeOK
  <2> QED BY <2>2, <2>3 DEF LoopEnded, PassedIsSet
<1>3. dns[DomainOf[i]] = RecordTypes
  BY <1>2 DEF CompleteHasRecords
<1>4. dns[DomainOf[i]] \subseteq dns'[DomainOf[i]]
  BY <1>1, Typing DEF Lasting
<1>5. dns'[DomainOf[i]] \in SUBSET RecordTypes
  <2>1. dns' \in [Domains -> SUBSET RecordTypes]
    BY <1>1 DEF TypeOK
  <2> QED BY <2>1, Typing
<1> QED BY <1>3, <1>4, <1>5

-----------------------------------------------------------------------------
(* The invariant, and that nothing is taken back.                          *)
LEMMA Invariance == Spec => []Inv
<1>1. Inv /\ [Next]_vars => Inv'
  BY TypeStep, OwnershipStep, CreatedStep, PassedStep, CompleteStep DEF Inv, Ownership
<1> QED BY InitInv, <1>1, PTL DEF Spec

(* The rows, the workflow and the provider keep their types: no submission *)
(* leaves the steps of DomainRegistrationWorkflow.                         *)
THEOREM TypeCorrect == Spec => []TypeOK
<1>1. Inv => TypeOK
  BY DEF Inv
<1> QED BY <1>1, Invariance, PTL

(* step_purchase_domain: a finished intention is the one the provider sold *)
(* the domain to, whatever other submissions and faults do.                *)
THEOREM FinishedOwns == Spec => []FinishedIsOwned
<1>1. Inv => FinishedIsOwned
  BY DEF Inv, Ownership
<1> QED BY <1>1, Invariance, PTL

(* step_collect_provider_account: the subaccount that bought the domain is *)
(* the one the database knows for the registrant, who may have been given  *)
(* several.                                                                *)
THEOREM RecordedAccountOwns == Spec => []OwnedByRecordedAccount
<1>1. Inv => OwnedByRecordedAccount
  BY DEF Inv, Ownership
<1> QED BY <1>1, Invariance, PTL

(* submit_registration_intention: "created" is said once for an intention, *)
(* and only when its DNS update is on the queue.                           *)
THEOREM CreatedOnceAndScheduled == Spec => []CreatedIsScheduled
<1>1. Inv => CreatedIsScheduled
  BY DEF Inv
<1> QED BY <1>1, Invariance, PTL

(* update_registered_dns: a handler whose loop ended without an exception  *)
(* marks the purchase complete, and the provider then has every record,    *)
(* also when attempts failed half way and messages came back.              *)
THEOREM CompleteIsSetUp == Spec => []CompleteHasRecords
<1>1. Inv => CompleteHasRecords
  BY DEF Inv
<1> QED BY <1>1, Invariance, PTL

(* Subaccounts, sales, records, finished intentions, purchases and         *)
(* messages are never undone: retries, other submissions and restarts only *)
(* add to them.                                                            *)
THEOREM NothingIsTakenBack == Spec => [][Lasting]_vars
<1>1. Inv => TypeOK
  BY DEF Inv
<1>2. TypeOK /\ [Next]_vars => [Lasting]_vars
  BY LastingStep
<1> QED BY <1>1, <1>2, Invariance, PTL DEF Spec
=============================================================================
