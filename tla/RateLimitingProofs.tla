--------------------------- MODULE RateLimitingProofs -------------------------
(***************************************************************************)
(* The safety properties of RateLimiting for any requests and senders, any *)
(* quotas and windows, any number of requests at a time.                   *)
(*                                                                         *)
(* Three strengthenings.  A usage with an expiry is at most the number of  *)
(* requests charged to the entity within the window that ends there; who   *)
(* was not crossed by another entity reads and charges his own; and        *)
(* without an overlap, whoever was let past a quota still finds room under *)
(* it, because nobody else counts for his entity.                          *)
(***************************************************************************)
EXTENDS RateLimiting, FiniteSetTheorems, TLAPS

(* A request past authentication has an entity to read, and an outcome     *)
(* exactly when it is done.                                                *)
Course == \A r \in Requests :
            /\ pc[r] # "new" => entity \in Entities
            /\ pc[r] \in {"service", "total", "serving"} => reader[r] \in Entities
            /\ pc[r] = "done" <=> outcome[r] # "none"

(* A request is counted when it was served, and once.                      *)
Countable(r) == \/ outcome[r] = "fulfilled"
                \/ outcome[r] = "unfulfilled" /\ ~OnlyFulfilled
Unpaid(r) == \A s \in Scopes : payer[r][s] = NoEntity
ChargedOnce == /\ \A c \in charging : Unpaid(c.by) /\ Countable(c.by)
               /\ \A c, d \in charging : c.by = d.by => c = d
               /\ \A r \in Requests : ~Countable(r) => Unpaid(r)

(* The requests charged under a key, and those since its window began.     *)
PaidUnder(k) == {q \in Requests : payer[q][k[2]] = k[1]}
Since(k) == {q \in PaidUnder(k) : redis[k].exp <= when[q] + Window[k[2]]}

Sound(k) == /\ IsFiniteSet(PaidUnder(k))
            /\ redis[k].val <= Cardinality(PaidUnder(k))
            /\ redis[k].ttl = "missing" => redis[k] = Missing
            /\ redis[k].ttl = "set" =>
                 /\ now < redis[k].exp /\ redis[k].exp <= now + Window[k[2]]
                 /\ redis[k].val <= Cardinality(Since(k))
Counting == \A k \in Keys : Sound(k)

(* Who was not crossed reads his own entity and is charged to it.          *)
HonestOne(r) ==
  r \notin crossed =>
    /\ r \in InProgress => entity = EntityOf[r]
    /\ pc[r] \in {"service", "total", "serving"} => reader[r] = EntityOf[r]
    /\ \A c \in charging : c.by = r => c.who = EntityOf[r]
    /\ \A s \in Scopes : payer[r][s] \in {NoEntity, EntityOf[r]}
Honest == \A r \in Requests : HonestOne(r)

(* Without an overlap there is one request, its entity is the one that     *)
(* everybody reads, and it has room where it was let past.                 *)
Single == ~overlapped => \A q, r \in Busy : q = r
Own == ~overlapped =>
         /\ \A r \in Busy : /\ entity = EntityOf[r]
                            /\ pc[r] \in {"service", "total", "serving"}
                                 => reader[r] = entity
         /\ \A c \in charging : c.who = entity
Room(s) == Quota[s] >= 0 => redis[<<entity, s>>].val < Quota[s]
HasRoom == ~overlapped =>
             /\ \A r \in Requests :
                  /\ pc[r] \in {"total", "serving"} => Room("service")
                  /\ pc[r] = "serving" => Room("total")
             /\ charging # {} => Room("service") /\ Room("total")

Usage == TypeOK /\ Course
Counts == ChargedOnce /\ Counting
Limits == Single /\ Own /\ HasRoom /\ WithinQuotaUnlessOverlapping
Inv == Usage /\ Counts /\ Honest /\ Limits

USE LimitAssumption

-----------------------------------------------------------------------------
(* Lemmas about the data *)

(* The keys of an entity, and the cells that the commands make.            *)
LEMMA Typing ==
  /\ \A e \in Entities, s \in Scopes : <<e, s>> \in Keys
  /\ \A k \in Keys : k[1] \in Entities /\ k[2] \in Scopes /\ k = <<k[1], k[2]>>
  /\ \A r \in Requests : EntityOf[r] \in Entities
  /\ Missing \in Cells /\ Missing.val = 0
  /\ \A t \in Nat : Expiring(0, t) \in Cells /\ Expiring(0, t).val = 0
<1>1. Missing \in Cells /\ Missing.val = 0
  BY DEF Missing, Cells
<1>2. ASSUME NEW t \in Nat PROVE Expiring(0, t) \in Cells /\ Expiring(0, t).val = 0
  BY DEF Expiring, Cells
<1>3. \A r \in Requests : EntityOf[r] \in Entities
  BY DEF Entities
<1> QED BY <1>1, <1>2, <1>3 DEF Keys

(* INCR adds one to the usage and keeps an expiry; a key that is missing   *)
(* it creates without one.                                                 *)
LEMMA IncrAddsOne ==
  ASSUME NEW cell \in Cells
  PROVE  /\ Incremented(cell) \in Cells /\ Incremented(cell).val = cell.val + 1
         /\ cell = Missing => Incremented(cell).ttl = "none"
         /\ cell # Missing => /\ Incremented(cell).ttl = cell.ttl
                              /\ Incremented(cell).exp = cell.exp
<1>1. CASE cell = Missing
  BY <1>1 DEF Incremented, Lasting, Missing, Cells
<1>2. CASE cell # Missing
  BY <1>2 DEF Incremented, Cells
<1> QED BY <1>1, <1>2

-----------------------------------------------------------------------------
(* Initially nobody has come and nothing is stored.                        *)
LEMMA InitInv == Init => Inv
<1> SUFFICES ASSUME Init PROVE Inv
  OBVIOUS
<1> USE Typing DEF Init
<1>1. TypeOK
  <2>1. redis \in [Keys -> Cells]
    OBVIOUS
  <2>2. now \in 0..MaxTime /\ setting = {} /\ charging = {}
    OBVIOUS
  <2>3. /\ payer \in [Requests -> [Scopes -> Entities \cup {NoEntity}]]
        /\ when \in [Requests -> 0..MaxTime]
    OBVIOUS
  <2> QED BY <2>1, <2>2, <2>3 DEF TypeOK
<1>2. Course
  BY DEF Course
<1>3. ChargedOnce
  BY DEF ChargedOnce, Unpaid
<1>4. Counting
  <2> SUFFICES ASSUME NEW k \in Keys PROVE Sound(k)
    BY DEF Counting
  <2>1. PaidUnder(k) = {}
    BY DEF PaidUnder
  <2> QED BY <2>1, FS_EmptySet DEF Sound, Missing
<1>5. Single /\ Own /\ HasRoom /\ Honest
  BY DEF Single, Own, HasRoom, Honest, HonestOne, Busy, InProgress
<1>6. WithinQuotaUnlessOverlapping
  BY DEF WithinQuotaUnlessOverlapping, UsageWithinQuota
<1> QED
  BY <1>1, <1>2, <1>3, <1>4, <1>5, <1>6 DEF Inv, Usage, Counts, Limits

-----------------------------------------------------------------------------
(* Every step keeps the types and the course of a request.                 *)
LEMMA UsageStep == Usage /\ [Next]_vars => Usage'
<1> SUFFICES ASSUME Usage, [Next]_vars PROVE Usage'
  OBVIOUS
<1> USE Typing DEF Usage, request, charges
<1>1. ASSUME NEW r \in Requests, Arrive(r) PROVE Usage'
  <2> USE <1>1 DEF Arrive
  <2>1. TypeOK'
    BY DEF TypeOK, InProgress
  <2>2. Course'
    BY DEF Course, TypeOK
  <2> QED BY <2>1, <2>2
<1>2. ASSUME NEW r \in Requests, Resume(r) PROVE Usage'
  <2> USE <1>2 DEF Resume, ReadEntity
  <2>1. TypeOK'
    BY DEF TypeOK
  <2>2. Course'
    BY DEF Course, TypeOK
  <2> QED BY <2>1, <2>2
<1>3. ASSUME NEW r \in Requests, NEW s \in Scopes,
             NEW onward \in {"total", "serving"}, Look(r, s, onward)
      PROVE  Usage'
  <2> USE <1>3 DEF Look
  <2>1. reader[r] \in Entities /\ <<reader[r], s>> \in Keys
    BY DEF Course, Scopes
  <2>2. TypeOK'
    <3>1. setting' \subseteq [by : Requests, key : Keys]
      BY <2>1 DEF TypeOK
    <3>2. /\ pc' \in [Requests -> {"new", "waiting", "service", "total",
                                   "serving", "done"}]
          /\ outcome' \in [Requests -> Scopes \cup {"none", "fulfilled",
                                                    "unfulfilled", "error"}]
      BY DEF TypeOK
    <3> QED BY <3>1, <3>2 DEF TypeOK
  <2>3. Course'
    BY DEF Course, TypeOK, Scopes
  <2> QED BY <2>2, <2>3
<1>4. ASSUME NEW r \in Requests, NEW how \in {"fulfilled", "unfulfilled", "error"},
             Serve(r, how)
      PROVE  Usage'
  <2> USE <1>4 DEF Serve
  <2>1. entity \in Entities
    BY DEF Course
  <2>2. TypeOK'
    <3>1. charging' \subseteq [by : Requests, who : Entities]
      BY <2>1 DEF TypeOK
    <3>2. /\ pc' \in [Requests -> {"new", "waiting", "service", "total",
                                   "serving", "done"}]
          /\ outcome' \in [Requests -> Scopes \cup {"none", "fulfilled",
                                                    "unfulfilled", "error"}]
      BY DEF TypeOK
    <3> QED BY <3>1, <3>2 DEF TypeOK
  <2>3. Course'
    BY DEF Course, TypeOK
  <2> QED BY <2>2, <2>3
<1>5. ASSUME NEW r \in Requests, LookFails(r) PROVE Usage'
  <2> USE <1>5 DEF LookFails
  <2>1. TypeOK'
    BY DEF TypeOK
  <2>2. Course'
    BY DEF Course, TypeOK, Scopes
  <2> QED BY <2>1, <2>2
<1>6. ASSUME NEW c \in setting, RunSetex(c) PROVE Usage'
  <2> USE <1>6 DEF RunSetex
  <2>1. c \in [by : Requests, key : Keys]
    BY DEF TypeOK
  <2>2. now + Window[c.key[2]] \in Nat
    BY <2>1 DEF TypeOK
  <2>3. TypeOK'
    BY <2>1, <2>2 DEF TypeOK
  <2> QED BY <2>3 DEF Course
<1>7. ASSUME NEW c \in charging, NEW ran \in Runs, RunIncr(c, ran) PROVE Usage'
  <2> USE <1>7 DEF RunIncr
  <2>1. c \in [by : Requests, who : Entities]
    BY DEF TypeOK
  <2>2. redis' \in [Keys -> Cells]
    BY IncrAddsOne DEF TypeOK
  <2>3. payer' \in [Requests -> [Scopes -> Entities \cup {NoEntity}]]
    BY <2>1 DEF TypeOK
  <2>4. when' \in [Requests -> 0..MaxTime] /\ lost' \subseteq Requests
    BY <2>1 DEF TypeOK
  <2>5. TypeOK'
    BY <2>2, <2>3, <2>4 DEF TypeOK
  <2> QED BY <2>5 DEF Course
<1>8. CASE Tick
  <2>1. TypeOK'
    BY <1>8 DEF Tick, TypeOK
  <2> QED BY <1>8, <2>1 DEF Tick, Course
<1>9. CASE UNCHANGED vars
  BY <1>9 DEF vars, TypeOK, Course
<1>10. ASSUME NEW r \in Requests, LookService(r) \/ LookTotal(r) PROVE Usage'
  BY <1>3, <1>10 DEF LookService, LookTotal, Scopes
<1> QED
  BY <1>1, <1>2, <1>4, <1>5, <1>6, <1>7, <1>8, <1>9, <1>10
  DEF Next, Handle, Charge

-----------------------------------------------------------------------------
(* Every step keeps the usages at most what was charged in their windows.  *)
LEMMA CountsStep == Usage /\ Counts /\ [Next]_vars => Counts'
<1> SUFFICES ASSUME Usage, Counts, [Next]_vars PROVE Counts'
  OBVIOUS
<1> USE Typing DEF Usage, Counts, request, charges
<1>1. ASSUME UNCHANGED <<redis, now, payer, when>> PROVE Counting'
  <2>1. \A k \in Keys : PaidUnder(k)' = PaidUnder(k) /\ Since(k)' = Since(k)
    BY <1>1 DEF PaidUnder, Since
  <2> QED BY <1>1, <2>1 DEF Counting, Sound
<1>2. ASSUME UNCHANGED <<redis, now, charging, payer, when, outcome>> PROVE Counts'
  BY <1>1, <1>2 DEF ChargedOnce, Unpaid, Countable
<1>3. ASSUME NEW r \in Requests, outcome[r] = "none",
             \A q \in Requests \ {r} : outcome'[q] = outcome[q],
             UNCHANGED <<redis, now, payer, when>>,
             \/ charging' = charging
             \/ \E e \in Entities : /\ charging' = charging \cup {[by |-> r, who |-> e]}
                                    /\ Countable(r)'
      PROVE  Counts'
  <2>1. ~Countable(r) /\ Unpaid(r)
    BY <1>3 DEF Countable, ChargedOnce
  <2>2. \A c \in charging : c.by \in Requests /\ c.by # r
    BY <2>1 DEF ChargedOnce, TypeOK
  <2>3. \A q \in Requests : Unpaid(q)' <=> Unpaid(q)
    BY <1>3 DEF Unpaid
  <2>4. \A q \in Requests \ {r} : Countable(q)' <=> Countable(q)
    BY <1>3 DEF Countable
  <2>5. \A c \in charging : Unpaid(c.by)' /\ Countable(c.by)'
    BY <2>2, <2>3, <2>4 DEF ChargedOnce
  <2>6. \A q \in Requests : ~Countable(q)' => Unpaid(q)'
    BY <2>1, <2>3, <2>4 DEF ChargedOnce
  <2>7. ChargedOnce'
    BY <1>3, <2>1, <2>2, <2>3, <2>5, <2>6 DEF ChargedOnce
  <2> QED BY <1>1, <1>3, <2>7
<1>4. ASSUME NEW r \in Requests, NEW s \in Scopes,
             NEW onward \in {"total", "serving"}, Look(r, s, onward)
      PROVE  Counts'
  <2>1. outcome[r] = "none"
    BY <1>4 DEF Look, Course, Scopes
  <2> QED BY <1>3, <1>4, <2>1 DEF Look, TypeOK
<1>5. ASSUME NEW r \in Requests, LookFails(r) PROVE Counts'
  <2>1. outcome[r] = "none"
    BY <1>5 DEF LookFails, Course, Scopes
  <2> QED BY <1>3, <1>5, <2>1 DEF LookFails, TypeOK
<1>6. ASSUME NEW r \in Requests, NEW how \in {"fulfilled", "unfulfilled", "error"},
             Serve(r, how)
      PROVE  Counts'
  <2>1. outcome[r] = "none" /\ entity \in Entities /\ outcome'[r] = how
    BY <1>6 DEF Serve, Course, TypeOK
  <2>2. Charged(how) => Countable(r)'
    BY <2>1 DEF Charged, Countable
  <2> QED BY <1>3, <1>6, <2>1, <2>2 DEF Serve, TypeOK
<1>7. ASSUME NEW c \in setting, RunSetex(c) PROVE Counts'
  <2> USE <1>7 DEF RunSetex
  <2>1. c.key \in Keys /\ now \in Nat /\ Window[c.key[2]] \in Nat \ {0}
    BY DEF TypeOK
  <2>2. \A k \in Keys \ {c.key} : redis'[k] = redis[k]
    BY DEF TypeOK
  <2>3. redis'[c.key] = Expiring(0, now + Window[c.key[2]])
    BY <2>1 DEF TypeOK
  <2>4. \A k \in Keys : PaidUnder(k)' = PaidUnder(k)
    BY DEF PaidUnder
  <2>5. ASSUME NEW k \in Keys PROVE Sound(k)'
    <3>1. CASE k # c.key
      <4>1. Since(k)' = Since(k)
        BY <2>2, <2>4, <3>1 DEF Since
      <4> QED BY <2>2, <2>4, <3>1, <4>1 DEF Counting, Sound
    <3>2. CASE k = c.key
      <4>1. /\ IsFiniteSet(PaidUnder(k)') /\ Since(k)' \subseteq PaidUnder(k)'
            /\ Cardinality(PaidUnder(k)') \in Nat
        BY <2>4, FS_CardinalityType DEF Counting, Sound, Since
      <4>2. Cardinality(Since(k)') \in Nat
        BY <4>1, FS_Subset, FS_CardinalityType
      <4>3. /\ redis'[k].val = 0 /\ redis'[k].ttl = "set"
            /\ redis'[k].exp = now + Window[k[2]] /\ now' = now
        BY <2>3, <3>2 DEF Expiring
      <4> QED BY <2>1, <3>2, <4>1, <4>2, <4>3 DEF Sound
    <3> QED BY <3>1, <3>2
  <2> QED BY <2>5 DEF Counting, ChargedOnce, Unpaid, Countable
<1>8. ASSUME NEW c \in charging, NEW ran \in Runs, RunIncr(c, ran) PROVE Counts'
  <2> USE <1>8 DEF RunIncr
  <2>1. /\ c.by \in Requests /\ c.who \in Entities
        /\ Unpaid(c.by) /\ Countable(c.by)
    BY DEF TypeOK, ChargedOnce
  <2>2. /\ \A q \in Requests \ {c.by} : payer'[q] = payer[q] /\ when'[q] = when[q]
        /\ \A s \in Scopes : payer'[c.by][s] = IF s \in ran THEN c.who ELSE NoEntity
        /\ ran # {} => when'[c.by] = now
    BY <2>1 DEF TypeOK
  <2>3. ChargedOnce'
    <3>1. \A d \in charging' : d.by \in Requests /\ d.by # c.by
      BY DEF ChargedOnce, TypeOK
    <3>2. \A q \in Requests : Countable(q)' <=> Countable(q)
      BY DEF Countable
    <3>3. \A q \in Requests \ {c.by} : Unpaid(q)' <=> Unpaid(q)
      BY <2>2 DEF Unpaid
    <3> QED BY <2>1, <3>1, <3>2, <3>3 DEF ChargedOnce
  <2>4. ASSUME NEW k \in Keys PROVE Sound(k)'
    <3>1. /\ IsFiniteSet(PaidUnder(k)) /\ Since(k) \subseteq PaidUnder(k)
          /\ c.by \notin PaidUnder(k) /\ redis[k] \in Cells /\ now \in Nat
          /\ Sound(k)
      <4>1. Sound(k) /\ redis[k] \in Cells /\ now \in Nat
        BY DEF Counting, TypeOK
      <4>2. c.by \notin PaidUnder(k)
        BY <2>1 DEF PaidUnder, Unpaid
      <4> QED BY <4>1, <4>2 DEF Sound, Since
    <3>2. CASE k[1] = c.who /\ k[2] \in ran
      <4>1. redis'[k] = Incremented(redis[k]) /\ when'[c.by] = now
        BY <2>2, <3>2
      <4>2. PaidUnder(k)' = PaidUnder(k) \cup {c.by}
        BY <2>1, <2>2, <3>2 DEF PaidUnder
      <4>3. /\ IsFiniteSet(PaidUnder(k)')
            /\ Cardinality(PaidUnder(k)') = Cardinality(PaidUnder(k)) + 1
            /\ Cardinality(PaidUnder(k)) \in Nat
        <5>1. /\ IsFiniteSet(PaidUnder(k) \cup {c.by})
              /\ Cardinality(PaidUnder(k) \cup {c.by}) = Cardinality(PaidUnder(k)) + 1
          BY <3>1, FS_AddElement
        <5>2. Cardinality(PaidUnder(k)) \in Nat
          BY <3>1, FS_CardinalityType
        <5> QED BY <4>2, <5>1, <5>2
      <4>4. redis'[k].val <= Cardinality(PaidUnder(k)')
        BY <3>1, <4>1, <4>3, IncrAddsOne DEF Sound, Cells
      <4>5. redis'[k].ttl # "missing"
        BY <3>1, <4>1, IncrAddsOne DEF Sound
      <4>6. ASSUME redis'[k].ttl = "set"
            PROVE  /\ now < redis'[k].exp /\ redis'[k].exp <= now + Window[k[2]]
                   /\ redis'[k].val <= Cardinality(Since(k)')
        <5>1. redis[k] # Missing /\ redis[k].ttl = "set" /\ redis'[k].exp = redis[k].exp
          BY <3>1, <4>1, <4>6, IncrAddsOne
        <5>2. /\ now < redis[k].exp /\ redis[k].exp <= now + Window[k[2]]
              /\ redis[k].val <= Cardinality(Since(k))
          BY <3>1, <5>1 DEF Sound
        <5>3. Since(k)' = Since(k) \cup {c.by} /\ c.by \notin Since(k)
          BY <2>1, <2>2, <3>1, <4>1, <4>2, <5>1, <5>2 DEF Since, PaidUnder
        <5>4. IsFiniteSet(Since(k))
          BY <3>1, FS_Subset
        <5>5. /\ Cardinality(Since(k)') = Cardinality(Since(k)) + 1
              /\ Cardinality(Since(k)) \in Nat
          BY <5>3, <5>4, FS_AddElement, FS_CardinalityType
        <5>6. redis'[k].val = redis[k].val + 1 /\ redis[k].val \in Nat
          BY <3>1, <4>1, IncrAddsOne DEF Cells
        <5> QED BY <5>1, <5>2, <5>5, <5>6
      <4> QED BY <4>3, <4>4, <4>5, <4>6 DEF Sound
    <3>3. CASE ~(k[1] = c.who /\ k[2] \in ran)
      <4>1. redis'[k] = redis[k]
        BY <3>3
      <4>2. PaidUnder(k)' = PaidUnder(k)
        <5>1. c.by \notin PaidUnder(k)'
          BY <2>1, <2>2, <3>3 DEF PaidUnder
        <5> QED BY <2>2, <3>1, <5>1 DEF PaidUnder
      <4>3. Since(k)' = Since(k)
        BY <2>2, <3>1, <4>1, <4>2 DEF Since, PaidUnder
      <4> QED BY <3>1, <4>1, <4>2, <4>3 DEF Sound
    <3> QED BY <3>2, <3>3
  <2> QED BY <2>3, <2>4 DEF Counting
<1>9. CASE Tick
  <2> USE <1>9 DEF Tick
  <2>1. \A k \in Keys : PaidUnder(k)' = PaidUnder(k)
    BY DEF PaidUnder
  <2>2. ASSUME NEW k \in Keys PROVE Sound(k)'
    <3>1. redis[k] \in Cells /\ now \in Nat /\ Window[k[2]] \in Nat
      BY DEF TypeOK
    <3>2. IsFiniteSet(PaidUnder(k)) /\ Cardinality(PaidUnder(k)) \in Nat
      BY FS_CardinalityType DEF Counting, Sound
    <3>3. CASE Expired(redis[k], now + 1)
      <4>1. redis'[k] = Missing
        BY <3>3
      <4> QED BY <2>1, <3>2, <4>1 DEF Sound, Missing
    <3>4. CASE ~Expired(redis[k], now + 1)
      <4>1. redis'[k] = redis[k]
        BY <3>4
      <4>2. Since(k)' = Since(k)
        BY <2>1, <4>1 DEF Since
      <4>3. redis[k].ttl = "set" => now + 1 < redis[k].exp
        BY <3>1, <3>4 DEF Expired, Cells
      <4> QED BY <2>1, <3>1, <4>1, <4>2, <4>3 DEF Counting, Sound, Cells
    <3> QED BY <3>3, <3>4
  <2> QED BY <2>2 DEF Counting, ChargedOnce, Unpaid, Countable
<1>10. ASSUME NEW r \in Requests, Arrive(r) PROVE Counts'
  BY <1>2, <1>10 DEF Arrive
<1>11. ASSUME NEW r \in Requests, Resume(r) PROVE Counts'
  BY <1>2, <1>11 DEF Resume
<1>12. ASSUME NEW r \in Requests, LookService(r) \/ LookTotal(r) PROVE Counts'
  BY <1>4, <1>12 DEF LookService, LookTotal, Scopes
<1>13. CASE UNCHANGED vars
  BY <1>2, <1>13 DEF vars
<1> QED
  BY <1>5, <1>6, <1>7, <1>8, <1>9, <1>10, <1>11, <1>12, <1>13
  DEF Next, Handle, Charge

-----------------------------------------------------------------------------
(* Who is not crossed is alone with the class attribute while it matters.  *)
LEMMA HonestStep == Usage /\ Honest /\ [Next]_vars => Honest'
<1> SUFFICES ASSUME Usage, Honest, [Next]_vars, NEW r \in Requests, r \notin crossed'
             PROVE  HonestOne(r)'
  BY DEF Honest, HonestOne
<1> USE Typing DEF Usage, HonestOne, InProgress, request, charges
<1>0. r \notin crossed /\ HonestOne(r)
  <2>1. crossed \subseteq crossed'
    BY DEF Next, Handle, Arrive, Resume, LookService, LookTotal, Look, LookFails,
       Serve, Charge, RunSetex, RunIncr, Tick, vars
  <2> QED BY <2>1 DEF Honest
<1>1. ASSUME NEW q \in Requests, Arrive(q) PROVE HonestOne(r)'
  <2>1. r # q /\ r \in InProgress => EntityOf[r] = EntityOf[q]
    BY <1>1 DEF Arrive
  <2> QED BY <1>0, <1>1, <2>1 DEF Arrive, TypeOK
<1>2. ASSUME NEW q \in Requests, Resume(q) PROVE HonestOne(r)'
  BY <1>0, <1>2 DEF Resume, ReadEntity, TypeOK
<1>3. ASSUME NEW q \in Requests, NEW s \in Scopes,
             NEW onward \in {"total", "serving"}, Look(q, s, onward)
      PROVE  HonestOne(r)'
  BY <1>0, <1>3 DEF Look, TypeOK, Scopes
<1>4. ASSUME NEW q \in Requests, LookFails(q) PROVE HonestOne(r)'
  BY <1>0, <1>4 DEF LookFails, TypeOK, Scopes
<1>5. ASSUME NEW q \in Requests, NEW how \in {"fulfilled", "unfulfilled", "error"},
             Serve(q, how)
      PROVE  HonestOne(r)'
  BY <1>0, <1>5 DEF Serve, TypeOK
<1>6. ASSUME NEW c \in charging, NEW ran \in Runs, RunIncr(c, ran)
      PROVE  HonestOne(r)'
  <2>1. c.by \in Requests /\ charging' \subseteq charging
    BY <1>6 DEF TypeOK, RunIncr
  <2>2. \A s \in Scopes : payer'[r][s] \in {NoEntity, EntityOf[r]}
    <3>1. CASE c.by = r
      <4>1. c.who = EntityOf[r]
        BY <1>0, <3>1
      <4>2. \A s \in Scopes : payer'[r][s] \in {NoEntity, c.who}
        BY <1>6, <2>1, <3>1 DEF RunIncr, TypeOK
      <4> QED BY <4>1, <4>2
    <3>2. CASE c.by # r
      <4>1. payer'[r] = payer[r]
        BY <1>6, <2>1, <3>2 DEF RunIncr, TypeOK
      <4> QED BY <1>0, <4>1
    <3> QED BY <3>1, <3>2
  <2> QED BY <1>0, <1>6, <2>1, <2>2 DEF RunIncr
<1>7. ASSUME UNCHANGED <<entity, request, charging, payer, crossed>>
      PROVE  HonestOne(r)'
  BY <1>0, <1>7
<1>8. ASSUME NEW q \in Requests, LookService(q) \/ LookTotal(q) PROVE HonestOne(r)'
  BY <1>3, <1>8 DEF LookService, LookTotal, Scopes
<1>9. (\E c \in setting : RunSetex(c)) \/ Tick \/ UNCHANGED vars =>
        UNCHANGED <<entity, request, charging, payer, crossed>>
  BY DEF RunSetex, Tick, vars
<1> QED
  BY <1>1, <1>2, <1>4, <1>5, <1>6, <1>7, <1>8, <1>9 DEF Next, Handle, Charge

-----------------------------------------------------------------------------
(* Every step keeps the usage below the quotas, as long as requests come   *)
(* one after the other.                                                    *)
LEMMA LimitsStep == Inv /\ [Next]_vars => Limits'
<1> SUFFICES ASSUME Inv, [Next]_vars, ~overlapped' PROVE Limits'
  BY DEF Limits, Single, Own, HasRoom, WithinQuotaUnlessOverlapping
<1> USE Typing DEF Inv, Usage, Limits, request
<1>0. ~overlapped
  BY DEF Next, Handle, Arrive, Resume, LookService, LookTotal, Look, LookFails,
     Serve, Charge, RunSetex, RunIncr, Tick, vars
<1>a. \A k \in Keys : redis[k].val \in Nat
  BY DEF TypeOK, Cells
<1>1. ASSUME NEW r \in Requests, Arrive(r) PROVE Limits'
  <2> USE <1>1 DEF Arrive
  <2>1. Busy = {}
    OBVIOUS
  <2>2. /\ charging = {} /\ setting = {}
        /\ \A q \in Requests : pc[q] \in {"new", "done"}
    BY <2>1 DEF Busy, InProgress, TypeOK
  <2>3. /\ entity' = EntityOf[r] /\ charging' = {} /\ setting' = {}
        /\ pc'[r] \in {"waiting", "service"}
        /\ pc'[r] = "service" => reader'[r] = entity'
        /\ \A q \in Requests \ {r} : pc'[q] = pc[q]
    BY <2>2 DEF TypeOK
  <2>4. \A q \in Busy' : q = r
    BY <2>2, <2>3 DEF Busy, InProgress
  <2>5. Single' /\ Own' /\ HasRoom'
    BY <2>2, <2>3, <2>4 DEF Single, Own, HasRoom
  <2>6. WithinQuotaUnlessOverlapping'
    BY <1>0 DEF WithinQuotaUnlessOverlapping, UsageWithinQuota
  <2> QED BY <2>5, <2>6
<1>2. ASSUME NEW r \in Requests, Resume(r) PROVE Limits'
  <2> USE <1>2 DEF Resume, ReadEntity
  <2>1. /\ pc'[r] = "service" /\ reader'[r] = entity
        /\ \A q \in Requests \ {r} : pc'[q] = pc[q] /\ reader'[q] = reader[q]
    BY DEF TypeOK
  <2>2. Busy' = Busy
    BY <2>1 DEF Busy, InProgress
  <2>3. Single' /\ Own'
    BY <1>0, <2>1, <2>2 DEF Single, Own
  <2>4. HasRoom' /\ WithinQuotaUnlessOverlapping'
    BY <1>0, <2>1 DEF HasRoom, Room, WithinQuotaUnlessOverlapping,
       UsageWithinQuota
  <2> QED BY <2>3, <2>4
<1>3. ASSUME NEW r \in Requests, NEW s \in Scopes,
             NEW onward \in {"total", "serving"}, Look(r, s, onward),
             s = "service" => onward = "total",
             s = "total" => onward = "serving"
      PROVE  Limits'
  <2> USE <1>3 DEF Look
  <2>1. r \in Busy /\ reader[r] = entity /\ entity \in Entities
    BY <1>0 DEF Busy, InProgress, Own, Course, Scopes
  <2>2. \A q \in Requests \ {r} : pc'[q] = pc[q] /\ pc[q] \in {"new", "done"}
    BY <1>0, <2>1 DEF Single, Busy, InProgress, TypeOK
  <2>3. Busy' \subseteq Busy
    BY <2>1, <2>2 DEF Busy, InProgress
  <2>4. Single' /\ Own'
    BY <1>0, <2>1, <2>2, <2>3 DEF Single, Own, Busy, InProgress, TypeOK
  <2>5. pc'[r] \in {"done", onward} /\ (pc'[r] = onward => ~Refuses(r, s))
    BY DEF TypeOK
  <2>6. ~Refuses(r, s) => Room(s)
    <3> DEFINE used == redis[<<entity, s>>].val
    <3>1. used \in Nat /\ Quota[s] \in Int
      BY <1>a, <2>1
    <3>2. Quota[s] >= 0 => used <= Quota[s]
      BY <1>0, <2>1 DEF WithinQuotaUnlessOverlapping, UsageWithinQuota
    <3>3. ~Refuses(r, s) /\ Quota[s] >= 0 => Quota[s] - used # 0
      BY <2>1, <3>1 DEF Refuses, Left
    <3> QED BY <3>1, <3>2, <3>3 DEF Room
  <2>7. \A t : Room(t)' <=> Room(t)
    BY DEF Room
  <2>8. pc'[r] = onward => Room(s)
    BY <2>5, <2>6
  <2>9. pc[r] = "total" => Room("service")
    BY <1>0 DEF HasRoom
  <2>10. HasRoom'
    BY <1>0, <2>2, <2>5, <2>7, <2>8, <2>9 DEF HasRoom, Scopes
  <2>11. WithinQuotaUnlessOverlapping'
    BY <1>0 DEF WithinQuotaUnlessOverlapping, UsageWithinQuota
  <2> QED BY <2>4, <2>10, <2>11
<1>4. ASSUME NEW r \in Requests, NEW how \in {"fulfilled", "unfulfilled", "error"},
             Serve(r, how)
      PROVE  Limits'
  <2> USE <1>4 DEF Serve
  <2>1. r \in Busy /\ pc'[r] = "done"
    BY DEF Busy, InProgress, TypeOK
  <2>2. \A q \in Requests \ {r} : pc'[q] = pc[q] /\ pc[q] \in {"new", "done"}
    BY <1>0, <2>1 DEF Single, Busy, InProgress, TypeOK
  <2>3. Busy' \subseteq Busy
    BY <2>1, <2>2 DEF Busy, InProgress
  <2>4. \A c \in charging' : c.who = entity
    BY <1>0 DEF Own
  <2>5. Single' /\ Own'
    BY <1>0, <2>1, <2>2, <2>3, <2>4 DEF Single, Own, Busy, InProgress
  <2>6. Room("service") /\ Room("total")
    BY <1>0 DEF HasRoom
  <2>7. HasRoom'
    BY <2>1, <2>2, <2>6 DEF HasRoom, Room
  <2>8. WithinQuotaUnlessOverlapping'
    BY <1>0 DEF WithinQuotaUnlessOverlapping, UsageWithinQuota
  <2> QED BY <2>5, <2>7, <2>8
<1>5. ASSUME \A k \in Keys : /\ redis'[k].val \in Nat
                             /\ redis'[k].val <= redis[k].val,
             setting' \subseteq setting,
             UNCHANGED <<entity, request, charging, overlapped>>
      PROVE  Limits'
  <2> USE <1>5
  <2>1. Busy' \subseteq Busy
    BY DEF Busy, InProgress
  <2>2. Single' /\ Own'
    BY <1>0, <2>1 DEF Single, Own
  <2>3. \A t \in Scopes : entity \in Entities /\ Room(t) => Room(t)'
    BY <1>a DEF Room
  <2>4. charging # {} => entity \in Entities
    BY <1>0 DEF Own, TypeOK
  <2>5. HasRoom'
    BY <1>0, <2>3, <2>4 DEF HasRoom, Scopes, Course
  <2>6. WithinQuotaUnlessOverlapping'
    <3> SUFFICES ASSUME NEW e \in Entities, NEW s \in Scopes, Quota[s] >= 0
                 PROVE  redis'[<<e, s>>].val <= Quota[s]
      BY DEF WithinQuotaUnlessOverlapping, UsageWithinQuota
    <3>1. redis[<<e, s>>].val <= Quota[s] /\ Quota[s] \in Int
      BY <1>0 DEF WithinQuotaUnlessOverlapping, UsageWithinQuota
    <3> QED BY <1>a, <3>1
  <2> QED BY <2>2, <2>5, <2>6
<1>6. ASSUME NEW c \in charging, NEW ran \in Runs, RunIncr(c, ran) PROVE Limits'
  <2> USE <1>6 DEF RunIncr
  <2>1. c.by \in Busy /\ c.who = entity /\ c.who \in Entities
    BY <1>0 DEF Busy, InProgress, Own, TypeOK
  <2>2. charging = {c} /\ \A q \in Requests : pc[q] \in {"new", "done"}
    <3>1. \A d \in charging : d.by \in Busy
      BY DEF Busy, InProgress, TypeOK
    <3>2. charging = {c}
      BY <1>0, <2>1, <3>1 DEF Single, Counts, ChargedOnce
    <3>3. pc[c.by] = "done"
      BY <2>1 DEF Counts, ChargedOnce, Countable, Course, Busy, InProgress
    <3>4. \A q \in Busy : q = c.by
      BY <1>0, <2>1 DEF Single
    <3> QED BY <3>2, <3>3, <3>4 DEF Busy, InProgress
  <2>3. charging' = {}
    BY <2>2
  <2>4. Busy' \subseteq Busy
    BY <2>3 DEF Busy, InProgress
  <2>5. Single' /\ Own'
    BY <1>0, <2>3, <2>4 DEF Single, Own
  <2>6. HasRoom'
    BY <2>2, <2>3 DEF HasRoom
  <2>7. WithinQuotaUnlessOverlapping'
    <3> SUFFICES ASSUME NEW e \in Entities, NEW s \in Scopes, Quota[s] >= 0
                 PROVE  redis'[<<e, s>>].val <= Quota[s]
      BY DEF WithinQuotaUnlessOverlapping, UsageWithinQuota
    <3>1. redis[<<e, s>>].val <= Quota[s] /\ Quota[s] \in Int
      BY <1>0 DEF WithinQuotaUnlessOverlapping, UsageWithinQuota
    <3>2. CASE e = c.who
      <4>1. Room(s)
        BY <1>0, <2>2 DEF HasRoom, Scopes
      <4>2. redis[<<e, s>>].val < Quota[s]
        BY <2>1, <3>2, <4>1 DEF Room
      <4>3. redis'[<<e, s>>].val \in {redis[<<e, s>>].val, redis[<<e, s>>].val + 1}
        BY <3>2, IncrAddsOne DEF TypeOK
      <4> QED BY <1>a, <3>1, <4>2, <4>3
    <3>3. CASE e # c.who
      BY <3>1, <3>3
    <3> QED BY <3>2, <3>3
  <2> QED BY <2>5, <2>6, <2>7
<1>7. ASSUME NEW r \in Requests, LookService(r) PROVE Limits'
  BY <1>3, <1>7 DEF LookService, Scopes
<1>8. ASSUME NEW r \in Requests, LookTotal(r) PROVE Limits'
  BY <1>3, <1>8 DEF LookTotal, Scopes
<1>9. ASSUME NEW c \in setting, RunSetex(c) PROVE Limits'
  <2> USE <1>9 DEF RunSetex
  <2>1. c.key \in Keys /\ now + Window[c.key[2]] \in Nat
    BY DEF TypeOK
  <2>2. \A k \in Keys : redis'[k].val \in {0, redis[k].val}
    BY <2>1 DEF TypeOK
  <2>3. \A k \in Keys : redis'[k].val \in Nat /\ redis'[k].val <= redis[k].val
    BY <1>a, <2>2
  <2> QED BY <1>5, <2>3
<1>10. CASE Tick
  <2>1. \A k \in Keys : redis'[k].val \in {0, redis[k].val}
    BY <1>10 DEF Tick, TypeOK
  <2>2. \A k \in Keys : redis'[k].val \in Nat /\ redis'[k].val <= redis[k].val
    BY <1>a, <2>1
  <2> QED BY <1>5, <1>10, <2>2 DEF Tick
<1>11. CASE UNCHANGED vars
  BY <1>a, <1>5, <1>11 DEF vars
<1>12. ASSUME NEW r \in Requests, LookFails(r) PROVE Limits'
  <2> USE <1>12 DEF LookFails
  <2>1. r \in Busy /\ pc'[r] = "done"
    BY DEF Busy, InProgress, TypeOK, Scopes
  <2>2. \A q \in Requests \ {r} : pc'[q] = pc[q] /\ pc[q] \in {"new", "done"}
    BY <1>0, <2>1 DEF Single, Busy, InProgress, TypeOK
  <2>3. Busy' \subseteq Busy
    BY <2>1, <2>2 DEF Busy, InProgress
  <2>4. Single' /\ Own'
    BY <1>0, <2>1, <2>2, <2>3 DEF Single, Own, Busy, InProgress
  <2>5. HasRoom' /\ WithinQuotaUnlessOverlapping'
    BY <1>0, <2>1, <2>2 DEF HasRoom, Room, WithinQuotaUnlessOverlapping,
       UsageWithinQuota
  <2> QED BY <2>4, <2>5
<1> QED
  BY <1>1, <1>2, <1>4, <1>6, <1>7, <1>8, <1>9, <1>10, <1>11, <1>12
  DEF Next, Handle, Charge

(* Hence Inv holds in every state of every behaviour.                      *)
LEMMA Invariance == Spec => []Inv
<1>1. Inv /\ [Next]_vars => Inv'
  BY UsageStep, CountsStep, HonestStep, LimitsStep DEF Inv
<1> QED BY <1>1, InitInv, PTL DEF Spec

-----------------------------------------------------------------------------
(* Every variable keeps its type.                                          *)
THEOREM TypeCorrect == Spec => []TypeOK
<1>1. Inv => TypeOK
  BY DEF Inv, Usage
<1> QED BY <1>1, Invariance, PTL

(* A step that refuses a request found as many of the requests of its own  *)
(* entity in the window, or one of the two excuses.                        *)
LEMMA RefusalStep ==
  ASSUME Inv, [Next]_vars, NEW r \in Requests, NEW s \in Scopes,
         outcome[r] # s, outcome'[r] = s, Unexcused(r, s)
  PROVE  Cardinality(Recent(EntityOf[r], s)) >= Quota[s]
<1> USE Typing DEF Inv, Usage, Counts
<1> DEFINE e == EntityOf[r]
           k == <<e, s>>
<1>1. pc[r] = s /\ Refuses(r, s)
  <2>1. ASSUME NEW q \in Requests, NEW t \in Scopes,
               NEW onward \in {"total", "serving"}, Look(q, t, onward)
        PROVE  pc[r] = s /\ Refuses(r, s)
    BY <2>1 DEF Look, TypeOK
  <2>2. ASSUME NEW q \in Requests, LookService(q) \/ LookTotal(q)
        PROVE  pc[r] = s /\ Refuses(r, s)
    BY <2>1, <2>2 DEF LookService, LookTotal, Scopes
  <2>3. ASSUME NEW q \in Requests, LookFails(q) PROVE FALSE
    BY <2>3 DEF LookFails, TypeOK, Scopes
  <2>4. ASSUME NEW q \in Requests, NEW how \in {"fulfilled", "unfulfilled", "error"},
               Serve(q, how)
        PROVE  FALSE
    BY <2>4 DEF Serve, TypeOK, Scopes
  <2>5. outcome' # outcome
    OBVIOUS
  <2> QED BY <2>2, <2>3, <2>4, <2>5 DEF Next, Handle, Arrive, Resume, Charge,
          RunSetex, RunIncr, Tick, vars, request
<1>2. reader[r] = e /\ k \in Keys /\ Sound(k) /\ redis[k] \in Cells
  BY <1>1 DEF Unexcused, Honest, HonestOne, Scopes, Counting, TypeOK
<1>3. redis[k].val = Quota[s]
  BY <1>1, <1>2 DEF Refuses, Left, Cells
<1>4. Since(k) \subseteq Recent(e, s) \/ redis[k] = Missing
  <2> SUFFICES ASSUME redis[k].ttl = "set", NEW q \in Since(k)
               PROVE  q \in Recent(e, s)
    BY <1>2 DEF Unexcused, Sound, Cells
  <2>1. q \in Requests /\ payer[q][s] = e /\ redis[k].exp <= when[q] + Window[s]
    BY DEF Since, PaidUnder
  <2>2. q \notin crossed /\ EntityOf[q] = e
    BY <2>1 DEF Unexcused, Unmixed, Honest, HonestOne
  <2>3. now < redis[k].exp
    BY <1>2 DEF Sound
  <2>4. now \in Nat /\ when[q] \in Nat /\ redis[k].exp \in Nat /\ Window[s] \in Nat
    BY <1>2, <2>1 DEF TypeOK, Cells
  <2> QED BY <2>1, <2>2, <2>3, <2>4 DEF Recent
<1>5. IsFiniteSet(Recent(e, s))
  <2>1. \A q \in Recent(e, s) : q \in PaidUnder(k)
    BY DEF Recent, PaidUnder
  <2> QED BY <1>2, <2>1, FS_Subset DEF Sound
<1>6. Cardinality(Recent(e, s)) \in Nat
  BY <1>5, FS_CardinalityType
<1>7. CASE redis[k] = Missing
  BY <1>3, <1>6, <1>7
<1>8. CASE redis[k].ttl = "set" /\ Since(k) \subseteq Recent(e, s)
  <2>1. /\ Cardinality(Since(k)) <= Cardinality(Recent(e, s))
        /\ Cardinality(Since(k)) \in Nat
    BY <1>5, <1>8, FS_Subset, FS_CardinalityType
  <2>2. redis[k].val <= Cardinality(Since(k))
    BY <1>2, <1>8 DEF Sound
  <2> QED BY <1>2, <1>3, <1>6, <2>1, <2>2
<1> QED BY <1>2, <1>4, <1>7, <1>8 DEF Unexcused, Sound, Cells

(* Nobody is refused for whom fewer than the quota of his own requests     *)
(* were counted within a window, but for the two excuses, in any number of *)
(* overlapping requests and with any failures of Redis.                    *)
THEOREM RefusedAtQuota == Spec => NoFalseRefusal
<1>1. Inv /\ [Next]_vars =>
        [\A r \in Requests, s \in Scopes :
           outcome[r] # s /\ outcome'[r] = s /\ Unexcused(r, s)
             => Cardinality(Recent(EntityOf[r], s)) >= Quota[s]]_vars
  BY RefusalStep
<1> QED BY <1>1, Invariance, PTL DEF Spec, NoFalseRefusal

(* No usage counts more than the served requests that were charged.        *)
THEOREM CountsAreTrue == Spec => []CountsAreServedRequests
<1>1. Inv => CountsAreServedRequests
  <2> SUFFICES ASSUME Inv, NEW e \in Entities, NEW s \in Scopes
               PROVE  redis[<<e, s>>].val <=
                        Cardinality({r \in Requests : payer[r][s] = e
                          /\ \/ outcome[r] = "fulfilled"
                             \/ outcome[r] = "unfulfilled" /\ ~OnlyFulfilled})
    BY DEF CountsAreServedRequests
  <2>1. PaidUnder(<<e, s>>) = {r \in Requests : payer[r][s] = e /\ Countable(r)}
    BY DEF PaidUnder, Inv, Counts, ChargedOnce, Unpaid
  <2>2. redis[<<e, s>>].val <= Cardinality(PaidUnder(<<e, s>>))
    BY Typing DEF Inv, Counts, Counting, Sound
  <2> QED BY <2>1, <2>2 DEF Countable
<1> QED BY <1>1, Invariance, PTL

(* Requests that come one after the other never get beyond the quota.      *)
THEOREM RaceIsTheOnlyWay == Spec => []WithinQuotaUnlessOverlapping
<1>1. Inv => WithinQuotaUnlessOverlapping
  BY DEF Inv, Limits
<1> QED BY <1>1, Invariance, PTL
=============================================================================
