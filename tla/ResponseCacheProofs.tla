-------------------------- MODULE ResponseCacheProofs -------------------------
(***************************************************************************)
(* The safety properties of ResponseCache for any requests, methods and    *)
(* queries, any TTL and any time a request may take.                       *)
(*                                                                         *)
(* What a client is told was put into Redis by another request, earlier.   *)
(* So the invariant says of every cell, and of every answer on its way to  *)
(* one, whose it is, how old it is and that nobody was told a newer one;   *)
(* the last needs that, without an overlap, a request that is to fill a    *)
(* key is alone and finds it empty.                                        *)
(***************************************************************************)
EXTENDS ResponseCache, WellFoundedInduction, TLAPS

Pending == {"look", "service", "store"}

(* A request that is handled has not been handled for too long.            *)
InTime == \A r \in Requests :
            pc[r] \in Pending => begun[r] <= now /\ now <= begun[r] + MaxHandling

(* What a request does is decided by what it asks.                         *)
Course == \A r \in Requests :
            /\ pc[r] # "new" => ask[r] \in Asks
            /\ pc[r] = "look" => ask[r].get
            /\ pc[r] = "store" => Stores(r)
            /\ outcome[r] = "answered" => pc[r] = "done"

(* An answer that is to be stored is the own one of the request.           *)
Made == \A r \in Requests :
          pc[r] = "store" => /\ answer[r] \in Answers /\ answer[r].by = r
                             /\ begun[r] <= answer[r].at

(* What a cell holds was made by a request for that key that may store it, *)
(* and expires in time.                                                    *)
CellOf(k) == /\ redis[k].val \in Answers
             /\ Key(redis[k].val.by) = k /\ Stores(redis[k].val.by)
             /\ pc[redis[k].val.by] # "new"
             /\ now < redis[k].exp
             /\ redis[k].exp <= redis[k].val.at + TTL + MaxHandling

Cells == \A k \in Keys : Live(k) => CellOf(k)

(* An answer that was told belongs to the request itself or to one that    *)
(* asked the same.                                                         *)
Origin == \A r \in Requests :
            outcome[r] = "answered" =>
              \/ answer[r].by = r
              \/ answer[r].by \in Requests /\ pc[answer[r].by] # "new"

Known == /\ \A r \in Requests : answer[r].ver <= world /\ floor[r] <= world
         /\ \A k \in Keys : redis[k].val.ver <= world

Ownership == /\ TypeOK /\ InTime /\ Course /\ Made /\ Cells /\ Origin /\ Known
             /\ StalenessBounded /\ OnlyGlobalShared

(* Fills: the request has missed its key and may be going to fill it.      *)
Fills(r) == pc[r] \in {"service", "store"} /\ ask[r].get
Alone == \A q, r \in Requests :
           Fills(q) /\ Fills(r) /\ Key(q) = Key(r) /\ Key(r) \notin overlapped
             => q = r
Emptied == \A r \in Requests :
             Fills(r) /\ Key(r) \notin overlapped => ~Live(Key(r))

(* Nobody was told, or promised by his floor, a newer answer than the one  *)
(* that is to be stored, or that is stored.                                *)
Heard(q) == IF outcome[q] = "answered" THEN answer[q].ver ELSE 0
Older(q, n) == Heard(q) <= n /\ floor[q] <= n
StoresNewest ==
  \A q, r \in Requests :
    pc[r] = "store" /\ Key(r) \notin overlapped /\ pc[q] # "new" /\ ask[q] = ask[r]
      => Older(q, answer[r].ver)
HoldsNewest ==
  \A q \in Requests :
    pc[q] # "new" /\ ask[q].get /\ Live(Key(q)) /\ Key(q) \notin overlapped
      => Older(q, redis[Key(q)].val.ver)

Order == /\ Alone /\ Emptied /\ StoresNewest /\ HoldsNewest
         /\ NoneOlderUnlessOverlapping

Inv == Ownership /\ Order

USE CacheAssumption

-----------------------------------------------------------------------------
(* Lemmas about the data *)

(* Of some versions there is a newest.                                     *)
LEMMA NewestExists ==
  ASSUME NEW N \in Nat, NEW S \in SUBSET (0..N), S # {}
  PROVE  Newest(S) \in S /\ \A w \in S : w <= Newest(S)
<1> DEFINE T == {n \in Nat : n <= N /\ N - n \in S}
<1>1. IsWellFoundedOn(OpToRel(<, Nat), Nat)
  BY NatLessThanWellFounded
<1>2. T \subseteq Nat /\ T # {}
  <2>1. PICK v \in S : TRUE
    OBVIOUS
  <2>2. v \in 0..N
    OBVIOUS
  <2>3. N - v \in Nat /\ N - v <= N /\ N - (N - v) = v
    BY <2>2
  <2>4. N - v \in T
    BY <2>1, <2>3
  <2> QED BY <2>4
<1>3. PICK n \in T : \A m \in T : ~(<<m, n>> \in OpToRel(<, Nat))
  BY <1>1, <1>2, WFMin
<1>4. \A m \in T : ~(m < n)
  BY <1>2, <1>3 DEF OpToRel
<1>5. \A w \in S : w <= N - n
  <2> SUFFICES ASSUME NEW w \in S PROVE w <= N - n
    OBVIOUS
  <2>1. w \in 0..N
    OBVIOUS
  <2>2. N - w \in Nat /\ N - w <= N /\ N - (N - w) = w
    BY <2>1
  <2>3. N - w \in T
    BY <2>2
  <2>4. ~(N - w < n) /\ n \in Nat
    BY <1>2, <1>4, <2>3
  <2> QED BY <2>1, <2>4
<1>6. N - n \in S
  OBVIOUS
<1>7. \E v \in S : \A w \in S : w <= v
  BY <1>5, <1>6
<1> QED BY <1>7 DEF Newest

(* Two GET requests with one key ask the same.                             *)
LEMMA SameAsk ==
  ASSUME NEW q \in Requests, NEW r \in Requests,
         ask[q] \in Asks, ask[r] \in Asks,
         ask[q].get, ask[r].get, Key(q) = Key(r)
  PROVE  ask[q] = ask[r]
<1>1. ask[q] \in [path : Paths, query : Queries, get : BOOLEAN]
  OBVIOUS
<1>2. ask[r] \in [path : Paths, query : Queries, get : BOOLEAN]
  OBVIOUS
<1>3. ask[q].path = ask[r].path /\ ask[q].query = ask[r].query
  BY DEF Key
<1>4. ask[q].get = ask[r].get
  BY <1>1, <1>2
<1> QED BY <1>1, <1>2, <1>3, <1>4

(* The keys and the empty cell are of their types.                         *)
LEMMA Typing ==
  /\ NoAnswer \in [by : {"nobody"}, at : {0}, ver : {0}]
  /\ Missing \in [val : {NoAnswer}, exp : {0}]
  /\ \A r \in Requests : ask[r] \in Asks => Key(r) \in Keys
<1>1. NoAnswer \in [by : {"nobody"}, at : {0}, ver : {0}]
  BY DEF NoAnswer
<1>2. Missing \in [val : {NoAnswer}, exp : {0}]
  BY DEF Missing
<1>3. ASSUME NEW r \in Requests, ask[r] \in Asks PROVE Key(r) \in Keys
  <2>1. ask[r] \in [path : Paths, query : Queries, get : BOOLEAN]
    BY <1>3
  <2> QED BY <2>1 DEF Key, Keys
<1> QED BY <1>1, <1>2, <1>3

-----------------------------------------------------------------------------
(* Initially nothing was asked and nothing is stored.                      *)
LEMMA InitInv == Init => Inv
<1> SUFFICES ASSUME Init PROVE Inv
  OBVIOUS
<1> USE DEF Init
<1>1. TypeOK
  BY DEF TypeOK, Missing
<1>2. InTime /\ Course /\ Made /\ Origin
  BY DEF InTime, Pending, Course, Made, Origin
<1>3. Cells /\ HoldsNewest
  BY Typing DEF Cells, Live, HoldsNewest
<1>4. Known
  BY DEF Known, NoAnswer, Missing
<1>5. Alone /\ Emptied /\ StoresNewest
  BY DEF Alone, Emptied, Fills, StoresNewest
<1>6. StalenessBounded /\ OnlyGlobalShared /\ NoneOlderUnlessOverlapping
  BY DEF StalenessBounded, OnlyGlobalShared, NoneOlderUnlessOverlapping
<1> QED
  BY <1>1, <1>2, <1>3, <1>4, <1>5, <1>6 DEF Inv, Ownership, Order

(* What was told before is a version of the world.                         *)
LEMMA FloorInWorld ==
  ASSUME Ownership, NEW a
  PROVE  Newest(Told(a)) \in 0..MaxChanges /\ Newest(Told(a)) <= world
<1>1. \A v \in Told(a) : v \in 0..MaxChanges /\ v <= world
  BY Typing DEF Ownership, TypeOK, Known, Told, Answers
<1>2. CASE Told(a) = {}
  BY <1>2 DEF Newest, Ownership, TypeOK
<1>3. CASE Told(a) # {}
  <2>1. Newest(Told(a)) \in Told(a)
    BY <1>1, <1>3, NewestExists
  <2> QED BY <1>1, <2>1
<1> QED BY <1>2, <1>3

-----------------------------------------------------------------------------
(* Every step keeps whose an answer is and how old it may be.              *)
LEMMA OwnershipStep == Ownership /\ [Next]_vars => Ownership'
<1> SUFFICES ASSUME Ownership, [Next]_vars PROVE Ownership'
  OBVIOUS
<1> USE Typing DEF Ownership, request, history
<1>1. ASSUME NEW r \in Requests, NEW a \in Asks, Arrive(r, a)
      PROVE  Ownership'
  <2> USE <1>1 DEF Arrive
  <2>1. Newest(Told(a)) \in 0..MaxChanges /\ Newest(Told(a)) <= world
    BY FloorInWorld
  <2>2. TypeOK'
    BY <2>1 DEF TypeOK
  <2>3. InTime'
    BY DEF InTime, TypeOK, Pending
  <2>4. Course'
    BY DEF Course, TypeOK, Stores
  <2>5. Made'
    BY DEF Made, TypeOK
  <2>6. Cells'
    BY DEF Cells, CellOf, Live, Key, Stores, TypeOK, Answers
  <2>7. Origin'
    BY DEF Origin, TypeOK
  <2>8. Known'
    BY <2>1 DEF Known, TypeOK
  <2>9. StalenessBounded'
    BY DEF StalenessBounded, Course, TypeOK
  <2>10. OnlyGlobalShared'
    BY DEF OnlyGlobalShared, Course, Origin, TypeOK
  <2> QED BY <2>2, <2>3, <2>4, <2>5, <2>6, <2>7, <2>8, <2>9, <2>10
<1>2. ASSUME NEW r \in Requests, Hit(r) PROVE Ownership'
  <2> USE <1>2 DEF Hit, End
  <2> DEFINE q == redis[Key(r)].val.by
  <2>1. ask[r] \in Asks /\ ask[r].get /\ Key(r) \in Keys
    BY DEF Course
  <2>2. CellOf(Key(r))
    BY <2>1 DEF Cells
  <2>3. q \in Requests /\ pc[q] # "new" /\ Stores(q) /\ Key(q) = Key(r)
    BY <2>2 DEF CellOf, Answers
  <2>4. ask[q] = ask[r]
    BY <2>1, <2>3, SameAsk DEF Course, Stores
  <2>5. TypeOK'
    BY <2>1 DEF TypeOK
  <2>6. InTime' /\ Course' /\ Made'
    BY DEF InTime, Course, Made, Pending, TypeOK, Stores
  <2>7. Cells'
    BY DEF Cells, CellOf, Live, Key, Stores, TypeOK
  <2>8. Origin'
    BY <2>3 DEF Origin, TypeOK
  <2>9. Known'
    BY <2>1 DEF Known, TypeOK
  <2>10. StalenessBounded'
    <3>1. begun[r] <= now
      BY DEF InTime, Pending
    <3>2. begun[r] < redis[Key(r)].val.at + TTL + MaxHandling
      BY <2>1, <2>2, <3>1 DEF CellOf, TypeOK, Answers
    <3> QED BY <3>2 DEF StalenessBounded, TypeOK
  <2>11. OnlyGlobalShared'
    BY <2>3, <2>4 DEF OnlyGlobalShared, TypeOK, Stores
  <2> QED BY <2>5, <2>6, <2>7, <2>8, <2>9, <2>10, <2>11
<1>3. ASSUME NEW r \in Requests, Miss(r) PROVE Ownership'
  <2> USE <1>3 DEF Miss
  <2>1. TypeOK'
    BY DEF TypeOK, Course
  <2>2. InTime' /\ Course' /\ Made'
    BY DEF InTime, Course, Made, Pending, TypeOK, Stores
  <2>3. Cells'
    BY DEF Cells, CellOf, Live, Key, Stores, TypeOK
  <2>4. Origin' /\ Known'
    BY DEF Origin, Known, TypeOK
  <2>5. StalenessBounded' /\ OnlyGlobalShared'
    BY DEF StalenessBounded, OnlyGlobalShared
  <2> QED BY <2>1, <2>2, <2>3, <2>4, <2>5
<1>4. ASSUME NEW r \in Requests, Serve(r) PROVE Ownership'
  <2> USE <1>4 DEF Serve, End
  <2> DEFINE made == [by |-> r, at |-> now, ver |-> world]
  <2>1. made \in Answers /\ answer'[r] = made
    BY DEF TypeOK, Answers
  <2>2. begun[r] <= now /\ outcome[r] # "answered"
    BY DEF InTime, Pending, Course
  <2>3. TypeOK'
    BY <2>1 DEF TypeOK
  <2>4. InTime' /\ Course'
    BY DEF InTime, Course, Pending, TypeOK, Stores
  <2>5. Made'
    BY <2>1, <2>2 DEF Made, TypeOK
  <2>6. Cells'
    <3>1. \A q \in Requests : pc[q] # "new" => pc'[q] # "new"
      BY DEF TypeOK
    <3> QED BY <3>1 DEF Cells, CellOf, Live, Key, Stores, Answers
  <2>7. Origin' /\ OnlyGlobalShared'
    BY <2>2 DEF Origin, OnlyGlobalShared, TypeOK
  <2>8. Known'
    BY DEF Known, TypeOK
  <2>9. StalenessBounded'
    BY <2>2 DEF StalenessBounded, TypeOK
  <2> QED BY <2>3, <2>4, <2>5, <2>6, <2>7, <2>8, <2>9
<1>5. ASSUME NEW r \in Requests, pc[r] = "store", Put(r),
             NEW how \in {"answered", "failed"}, End(r, how),
             UNCHANGED <<now, world, ask, begun, answer, history>>
      PROVE  Ownership'
  <2> USE <1>5 DEF Put, End, Stored
  <2>1. ask[r] \in Asks /\ Key(r) \in Keys /\ Stores(r)
    BY DEF Course
  <2>2. /\ answer[r] \in Answers /\ answer[r].by = r
        /\ begun[r] <= answer[r].at /\ now <= begun[r] + MaxHandling
    BY DEF Made, InTime, Pending
  <2>3. TypeOK'
    BY <2>1, <2>2 DEF TypeOK
  <2>4. InTime' /\ Course' /\ Made'
    BY DEF InTime, Course, Made, Pending, TypeOK, Stores
  <2>5. CellOf(Key(r))'
    BY <2>1, <2>2 DEF CellOf, TypeOK, Key, Stores, Answers
  <2>6. \A k \in Keys \ {Key(r)} : Live(k)' => CellOf(k)'
    BY DEF Cells, CellOf, Live, Key, Stores, TypeOK
  <2>7. Cells'
    BY <2>5, <2>6 DEF Cells, Key
  <2>8. Origin' /\ OnlyGlobalShared'
    BY <2>2 DEF Origin, OnlyGlobalShared, TypeOK
  <2>9. Known'
    BY <2>1 DEF Known, TypeOK
  <2>10. StalenessBounded'
    BY <2>2 DEF StalenessBounded, TypeOK, Answers
  <2> QED BY <2>3, <2>4, <2>7, <2>8, <2>9, <2>10
<1>6. ASSUME NEW r \in Requests, pc[r] \in {"look", "service", "store"},
             End(r, "failed"),
             UNCHANGED <<now, world, redis, ask, begun, answer, history>>
      PROVE  Ownership'
  <2> USE <1>6 DEF End
  <2>1. TypeOK'
    BY DEF TypeOK
  <2>2. InTime' /\ Course' /\ Made'
    BY DEF InTime, Course, Made, Pending, TypeOK, Stores
  <2>3. Cells'
    BY DEF Cells, CellOf, Live, Key, Stores, TypeOK
  <2>4. Origin' /\ Known'
    BY DEF Origin, Known, TypeOK
  <2>5. StalenessBounded' /\ OnlyGlobalShared'
    BY DEF StalenessBounded, OnlyGlobalShared, TypeOK
  <2> QED BY <2>1, <2>2, <2>3, <2>4, <2>5
<1>7. ASSUME NEW r \in Requests, Store(r) PROVE Ownership'
  BY <1>5, <1>7 DEF Store
<1>8. ASSUME NEW r \in Requests, Fail(r) PROVE Ownership'
  BY <1>5, <1>6, <1>8 DEF Fail
<1>9. ASSUME NEW k \in Keys, Forget(k) PROVE Ownership'
  <2> USE <1>9 DEF Forget
  <2>1. TypeOK'
    BY DEF TypeOK
  <2>2. InTime' /\ Course' /\ Made' /\ Origin'
    BY DEF InTime, Course, Made, Origin, Stores
  <2>3. Cells'
    BY DEF Cells, CellOf, Live, Key, Stores, TypeOK
  <2>4. Known'
    BY DEF Known, TypeOK
  <2> QED BY <2>1, <2>2, <2>3, <2>4 DEF StalenessBounded, OnlyGlobalShared
<1>10. CASE Tick
  <2> USE <1>10 DEF Tick
  <2>1. TypeOK'
    BY DEF TypeOK
  <2>2. InTime'
    BY DEF InTime, Pending, TypeOK
  <2>3. Course' /\ Made' /\ Origin'
    BY DEF Course, Made, Origin, Stores
  <2>4. Cells'
    <3> SUFFICES ASSUME NEW k \in Keys, Live(k)' PROVE CellOf(k)'
      BY DEF Cells
    <3>1. redis'[k] = redis[k] /\ redis[k].exp # now + 1 /\ Live(k)
      BY DEF Live
    <3>2. CellOf(k)
      BY <3>1 DEF Cells
    <3>3. redis[k].exp \in Nat /\ now \in Nat
      BY DEF TypeOK
    <3>4. now' < redis[k].exp
      BY <3>1, <3>2, <3>3 DEF CellOf
    <3> QED BY <3>1, <3>2, <3>4 DEF CellOf, Key, Stores
  <2>5. Known'
    BY DEF Known, TypeOK
  <2> QED
    BY <2>1, <2>2, <2>3, <2>4, <2>5 DEF StalenessBounded, OnlyGlobalShared
<1>11. CASE Change
  <2> USE <1>11 DEF Change
  <2>1. TypeOK' /\ Known'
    BY DEF TypeOK, Known, Answers
  <2>2. InTime' /\ Course' /\ Made' /\ Origin'
    BY DEF InTime, Course, Made, Origin, Stores
  <2>3. Cells'
    BY DEF Cells, CellOf, Live, Key, Stores
  <2> QED BY <2>1, <2>2, <2>3 DEF StalenessBounded, OnlyGlobalShared
<1>12. CASE UNCHANGED vars
  BY <1>12 DEF vars, TypeOK, InTime, Pending, Course, Made, Cells, CellOf, Live,
     Key, Stores, Origin, Known, StalenessBounded, OnlyGlobalShared
<1> QED
  BY <1>1, <1>2, <1>3, <1>4, <1>7, <1>8, <1>9, <1>10, <1>11, <1>12
     DEF Next, Handle

-----------------------------------------------------------------------------
(* Every step keeps, for the keys that were not missed by two at a time,   *)
(* the order of what is told.                                              *)
LEMMA OrderStep == Inv /\ [Next]_vars => Order'
<1> SUFFICES ASSUME Inv, [Next]_vars PROVE Order'
  OBVIOUS
<1> USE Typing DEF Inv, Ownership, Order, request, history
<1>0. /\ \A r \in Requests : pc[r] # "new" => Key(r) \in Keys
      /\ \A q \in Requests : Heard(q) \in Nat /\ Heard(q) <= world
      /\ \A q \in Requests : floor[q] \in Nat /\ floor[q] <= world
      /\ world \in Nat
  BY DEF Course, Heard, Known, TypeOK, Answers
<1>1. ASSUME NEW r \in Requests, NEW a \in Asks, Arrive(r, a)
      PROVE  Order'
  <2> USE <1>1 DEF Arrive
  <2> DEFINE n == Newest(Told(a))
  <2>1. n = 0 \/ \E q \in Requests : /\ outcome[q] = "answered" /\ ask[q] = a
                                     /\ n = answer[q].ver
    <3>1. \A v \in Told(a) : v \in 0..MaxChanges
      BY DEF Told, TypeOK, Answers
    <3>2. CASE Told(a) = {}
      BY <3>2 DEF Newest
    <3>3. CASE Told(a) # {}
      <4>1. n \in Told(a)
        BY <3>1, <3>3, NewestExists
      <4> QED BY <4>1 DEF Told
    <3> QED BY <3>2, <3>3
  <2>2. n = 0 \/ \E q \in Requests : /\ pc[q] # "new" /\ ask[q] = a
                                     /\ n = Heard(q)
    BY <2>1 DEF Course, Heard
  <2>3. \A q \in Requests \ {r} : /\ pc'[q] = pc[q] /\ ask'[q] = ask[q]
                                  /\ floor'[q] = floor[q]
    BY DEF TypeOK
  <2>4. pc'[r] \in {"look", "service"} /\ ask'[r] = a /\ floor'[r] = n
    BY DEF TypeOK
  <2>5. pc'[r] = "service" => ~a.get
    BY DEF TypeOK
  <2>6. Heard(r) = 0
    BY DEF Heard, Course
  <2>7. Alone' /\ Emptied'
    BY <2>3, <2>4, <2>5 DEF Alone, Emptied, Fills, Live, Key
  <2>8. StoresNewest'
    <3> SUFFICES ASSUME NEW q \in Requests, NEW p \in Requests,
                        pc'[p] = "store", Key(p)' \notin overlapped,
                        pc'[q] # "new", ask'[q] = ask'[p]
                 PROVE  Heard(q) <= answer[p].ver /\ floor'[q] <= answer[p].ver
      BY DEF StoresNewest, Older, Heard
    <3>1. p # r /\ pc[p] = "store" /\ Key(p) \notin overlapped
      BY <2>3, <2>4 DEF Key
    <3>2. CASE q # r
      BY <2>3, <3>1, <3>2 DEF StoresNewest, Older
    <3>3. CASE q = r
      <4>1. ask[p] = a
        BY <2>3, <2>4, <3>1, <3>3
      <4>2. n = 0 \/ n <= answer[p].ver
        BY <2>2, <3>1, <4>1 DEF StoresNewest, Older
      <4>3. answer[p].ver \in Nat
        BY DEF TypeOK, Answers
      <4> QED BY <2>4, <2>6, <3>3, <4>2, <4>3
    <3> QED BY <3>2, <3>3
  <2>9. HoldsNewest'
    <3> SUFFICES ASSUME NEW q \in Requests, pc'[q] # "new", ask'[q].get,
                        redis[Key(q)'] # Missing, Key(q)' \notin overlapped
                 PROVE  /\ Heard(q) <= redis[Key(q)'].val.ver
                        /\ floor'[q] <= redis[Key(q)'].val.ver
      BY DEF HoldsNewest, Older, Heard, Live
    <3>1. CASE q # r
      BY <2>3, <3>1 DEF HoldsNewest, Older, Live, Key
    <3>2. CASE q = r
      <4> DEFINE k == <<a.path, a.query>>
      <4>1. Key(q)' = k /\ k \in Keys
        BY <2>4, <3>2 DEF Key, Keys
      <4>2. redis[k].val.ver \in Nat
        BY <4>1 DEF TypeOK, Answers
      <4>3. \A p \in Requests : pc[p] # "new" /\ ask[p] = a
                                  => Heard(p) <= redis[k].val.ver
        BY <2>4, <3>2, <4>1 DEF HoldsNewest, Older, Live, Key
      <4> QED BY <2>2, <2>4, <2>6, <3>2, <4>1, <4>2, <4>3
    <3> QED BY <3>1, <3>2
  <2>10. NoneOlderUnlessOverlapping'
    BY <2>3 DEF NoneOlderUnlessOverlapping, Course, Key
  <2> QED BY <2>7, <2>8, <2>9, <2>10
<1>2. ASSUME NEW r \in Requests, Hit(r) PROVE Order'
  <2> USE <1>2 DEF Hit, End
  <2> DEFINE found == redis[Key(r)].val
  <2>1. ask[r] \in Asks /\ ask[r].get /\ Key(r) \in Keys
    BY DEF Course
  <2>2. answer'[r] = found /\ outcome'[r] = "answered" /\ pc'[r] = "done"
    BY DEF TypeOK
  <2>3. \A q \in Requests \ {r} : /\ pc'[q] = pc[q] /\ outcome'[q] = outcome[q]
                                  /\ answer'[q] = answer[q]
    BY DEF TypeOK
  <2>4. \A q \in Requests : Key(q)' = Key(q)
    BY DEF Key
  <2>5. Heard(r)' = found.ver /\ \A q \in Requests \ {r} : Heard(q)' = Heard(q)
    BY <2>2, <2>3 DEF Heard
  <2>6. Alone' /\ Emptied'
    BY <2>2, <2>3, <2>4 DEF Alone, Emptied, Fills, Live
  <2>7. Key(r) \notin overlapped => floor[r] <= found.ver
    BY <2>1 DEF HoldsNewest, Older
  <2>8. found.ver \in Nat
    BY <2>1 DEF TypeOK, Answers
  <2>9. StoresNewest'
    <3> SUFFICES ASSUME NEW q \in Requests, NEW p \in Requests,
                        pc'[p] = "store", Key(p) \notin overlapped,
                        pc'[q] # "new", ask[q] = ask[p]
                 PROVE  Older(q, answer[p].ver)'
      BY <2>2, <2>4 DEF StoresNewest
    <3>1. p # r /\ pc[p] = "store" /\ answer'[p] = answer[p]
      BY <2>2, <2>3
    <3>2. q # r
      <4>1. Fills(p) /\ ~Live(Key(p))
        BY <3>1 DEF Course, Stores, Fills, Emptied
      <4> QED BY <4>1 DEF Key
    <3>3. Older(q, answer[p].ver)
      BY <2>3, <3>1, <3>2 DEF StoresNewest
    <3> QED BY <2>5, <3>1, <3>2, <3>3 DEF Older
  <2>10. HoldsNewest'
    <3> SUFFICES ASSUME NEW q \in Requests, pc'[q] # "new", ask[q].get,
                        Live(Key(q)), Key(q) \notin overlapped
                 PROVE  /\ Heard(q)' <= redis[Key(q)].val.ver
                        /\ floor[q] <= redis[Key(q)].val.ver
      BY <2>4 DEF HoldsNewest, Older, Live
    <3>1. CASE q # r
      BY <2>3, <2>5, <3>1 DEF HoldsNewest, Older
    <3>2. CASE q = r
      BY <2>5, <2>7, <2>8, <3>2
    <3> QED BY <3>1, <3>2
  <2>11. NoneOlderUnlessOverlapping'
    <3>1. Key(r) \notin overlapped => found.ver >= floor[r]
      BY <1>0, <2>7, <2>8
    <3> QED BY <2>2, <2>3, <2>4, <3>1 DEF NoneOlderUnlessOverlapping
  <2> QED BY <2>6, <2>9, <2>10, <2>11
<1>3. ASSUME NEW r \in Requests, Miss(r) PROVE Order'
  <2> USE <1>3 DEF Miss
  <2>1. ask[r] \in Asks /\ ask[r].get /\ Key(r) \in Keys /\ ~Live(Key(r))
    BY DEF Course
  <2>2. pc'[r] = "service" /\ \A q \in Requests \ {r} : pc'[q] = pc[q]
    BY DEF TypeOK
  <2>3. \A k : k \notin overlapped' => k \notin overlapped
    OBVIOUS
  <2>4. \A q \in Requests : Key(q)' = Key(q) /\ Heard(q)' = Heard(q)
    BY DEF Key, Heard
  <2>5. Alone'
    <3> SUFFICES ASSUME NEW q \in Requests, NEW p \in Requests,
                        Fills(q)', Fills(p)', Key(q) = Key(p),
                        Key(p) \notin overlapped'
                 PROVE  q = p
      BY <2>4 DEF Alone
    <3>1. ASSUME NEW o \in Requests \ {r}, Fills(o)', Key(o) = Key(r)
          PROVE  Key(r) \in overlapped'
      <4>1. pc[o] \in {"service", "store"} /\ ask[o].get
        BY <2>2, <3>1 DEF Fills
      <4>2. ask[o] \in Asks
        BY <4>1 DEF Course
      <4>3. ask[o] = ask[r]
        BY <2>1, <3>1, <4>1, <4>2, SameAsk
      <4> QED BY <4>1, <4>3
    <3>2. CASE q = r \/ p = r
      BY <3>1, <3>2
    <3>3. CASE q # r /\ p # r
      BY <2>2, <2>3, <3>3 DEF Alone, Fills
    <3> QED BY <3>2, <3>3
  <2>6. Emptied'
    <3> SUFFICES ASSUME NEW q \in Requests, Fills(q)', Key(q) \notin overlapped'
                 PROVE  ~Live(Key(q))
      BY <2>4 DEF Emptied, Live
    <3> QED BY <2>1, <2>2, <2>3 DEF Emptied, Fills
  <2>7. StoresNewest'
    <3> SUFFICES ASSUME NEW q \in Requests, NEW p \in Requests,
                        pc'[p] = "store", Key(p) \notin overlapped',
                        pc'[q] # "new", ask[q] = ask[p]
                 PROVE  Older(q, answer[p].ver)'
      BY <2>4 DEF StoresNewest
    <3>1. pc[p] = "store" /\ pc[q] # "new" /\ Key(p) \notin overlapped
      BY <2>2, <2>3
    <3>2. Older(q, answer[p].ver)
      BY <3>1 DEF StoresNewest
    <3> QED BY <2>4, <3>2 DEF Older
  <2>8. HoldsNewest'
    <3> SUFFICES ASSUME NEW q \in Requests, pc'[q] # "new", ask[q].get,
                        Live(Key(q)), Key(q) \notin overlapped'
                 PROVE  Older(q, redis[Key(q)].val.ver)
      BY <2>4 DEF HoldsNewest, Older, Live
    <3>1. pc[q] # "new" /\ Key(q) \notin overlapped
      BY <2>2, <2>3
    <3> QED BY <3>1 DEF HoldsNewest
  <2>9. NoneOlderUnlessOverlapping'
    BY <2>3, <2>4 DEF NoneOlderUnlessOverlapping
  <2> QED BY <2>5, <2>6, <2>7, <2>8, <2>9
<1>4. ASSUME NEW r \in Requests, Serve(r) PROVE Order'
  <2> USE <1>4 DEF Serve, End
  <2>1. /\ answer'[r].ver = world /\ outcome[r] # "answered"
        /\ \A q \in Requests \ {r} : /\ pc'[q] = pc[q]
                                     /\ outcome'[q] = outcome[q]
                                     /\ answer'[q] = answer[q]
    BY DEF TypeOK, Course
  <2>2. \/ Stores(r) /\ pc'[r] = "store" /\ outcome'[r] = outcome[r]
        \/ ~Stores(r) /\ pc'[r] = "done" /\ outcome'[r] = "answered"
    BY DEF TypeOK
  <2>3. \A q \in Requests : Key(q)' = Key(q)
    BY DEF Key
  <2>4. /\ Heard(r)' <= world
        /\ \A q \in Requests \ {r} : Heard(q)' = Heard(q)
    BY <1>0, <2>1, <2>2 DEF Heard
  <2>5. Alone' /\ Emptied'
    <3>1. \A q \in Requests : Fills(q)' => Fills(q)
      BY <2>1, <2>2 DEF Fills
    <3> QED BY <2>3, <3>1 DEF Alone, Emptied, Live
  <2>6. StoresNewest'
    <3> SUFFICES ASSUME NEW q \in Requests, NEW p \in Requests,
                        pc'[p] = "store", Key(p) \notin overlapped,
                        pc'[q] # "new", ask[q] = ask[p]
                 PROVE  /\ Heard(q)' <= answer'[p].ver
                        /\ floor[q] <= answer'[p].ver
      BY <2>3 DEF StoresNewest, Older
    <3>1. CASE p = r
      BY <1>0, <2>1, <2>4, <3>1
    <3>2. CASE p # r /\ q # r
      BY <2>1, <2>4, <3>2 DEF StoresNewest, Older
    <3>3. CASE p # r /\ q = r
      <4>1. pc[p] = "store" /\ Fills(p) /\ Fills(r)
        BY <2>1, <3>3 DEF Fills, Course, Stores
      <4>2. Key(p) = Key(r)
        BY <3>3 DEF Key
      <4> QED BY <3>3, <4>1, <4>2 DEF Alone
    <3> QED BY <3>1, <3>2, <3>3
  <2>7. HoldsNewest'
    <3> SUFFICES ASSUME NEW q \in Requests, pc'[q] # "new", ask[q].get,
                        Live(Key(q)), Key(q) \notin overlapped
                 PROVE  /\ Heard(q)' <= redis[Key(q)].val.ver
                        /\ floor[q] <= redis[Key(q)].val.ver
      BY <2>3 DEF HoldsNewest, Older, Live
    <3>1. q # r
      BY DEF Emptied, Fills
    <3> QED BY <2>1, <2>4, <3>1 DEF HoldsNewest, Older
  <2>8. NoneOlderUnlessOverlapping'
    BY <1>0, <2>1, <2>3 DEF NoneOlderUnlessOverlapping
  <2> QED BY <2>5, <2>6, <2>7, <2>8
<1>5. ASSUME NEW r \in Requests, pc[r] = "store", Put(r),
             NEW how \in {"answered", "failed"}, End(r, how),
             UNCHANGED <<now, world, ask, begun, answer, history>>
      PROVE  Order'
  <2> USE <1>5 DEF Put, End, Stored
  <2>1. ask[r] \in Asks /\ ask[r].get /\ Key(r) \in Keys /\ Fills(r)
    BY DEF Course, Stores, Fills
  <2>2. /\ pc'[r] = "done" /\ outcome'[r] = how /\ outcome[r] # "answered"
        /\ \A q \in Requests \ {r} : pc'[q] = pc[q] /\ outcome'[q] = outcome[q]
    BY DEF TypeOK, Course
  <2>3. \A q \in Requests : Key(q)' = Key(q)
    BY DEF Key
  <2>4. /\ redis'[Key(r)].val = answer[r]
        /\ \A k \in Keys \ {Key(r)} : redis'[k] = redis[k]
    BY <2>1 DEF TypeOK
  <2>5. /\ Heard(r)' <= answer[r].ver
        /\ \A q \in Requests \ {r} : Heard(q)' = Heard(q)
    BY <2>2 DEF Heard, TypeOK, Answers
  <2>6. \A q \in Requests : Fills(q)' => q # r /\ Fills(q)
    BY <2>2 DEF Fills
  <2>7. Alone'
    BY <2>3, <2>6 DEF Alone
  <2>8. Emptied'
    <3> SUFFICES ASSUME NEW q \in Requests, Fills(q)', Key(q) \notin overlapped
                 PROVE  ~Live(Key(q))'
      BY <2>3 DEF Emptied, Live
    <3>1. q # r /\ Fills(q) /\ Key(q) \in Keys
      BY <1>0, <2>6 DEF Fills
    <3>2. Key(q) # Key(r)
      BY <2>1, <3>1 DEF Alone
    <3> QED BY <2>3, <2>4, <3>1, <3>2 DEF Emptied, Live
  <2>9. StoresNewest'
    <3> SUFFICES ASSUME NEW q \in Requests, NEW p \in Requests,
                        pc'[p] = "store", Key(p) \notin overlapped,
                        pc'[q] # "new", ask[q] = ask[p]
                 PROVE  Older(q, answer[p].ver)'
      BY <2>3 DEF StoresNewest
    <3>1. p # r /\ pc[p] = "store" /\ Fills(p)
      BY <2>2 DEF Fills, Course, Stores
    <3>2. q # r
      BY <2>1, <3>1 DEF Alone, Key
    <3>3. Older(q, answer[p].ver)
      BY <2>2, <3>1, <3>2 DEF StoresNewest
    <3> QED BY <2>5, <3>2, <3>3 DEF Older
  <2>10. HoldsNewest'
    <3> SUFFICES ASSUME NEW q \in Requests, pc'[q] # "new", ask[q].get,
                        Live(Key(q))', Key(q) \notin overlapped
                 PROVE  /\ Heard(q)' <= redis'[Key(q)].val.ver
                        /\ floor[q] <= redis'[Key(q)].val.ver
      BY <2>3 DEF HoldsNewest, Older
    <3>1. pc[q] # "new" /\ Key(q) \in Keys
      BY <1>0, <2>2
    <3>2. CASE Key(q) = Key(r)
      <4>1. ask[q] = ask[r]
        BY <2>1, <3>1, <3>2, SameAsk DEF Course
      <4>2. Older(q, answer[r].ver)
        BY <3>1, <3>2, <4>1 DEF StoresNewest
      <4> QED BY <2>4, <2>5, <3>2, <4>2 DEF Older
    <3>3. CASE Key(q) # Key(r)
      <4>1. q # r /\ redis'[Key(q)] = redis[Key(q)] /\ Live(Key(q))
        BY <2>3, <2>4, <3>1, <3>3 DEF Live
      <4>2. Older(q, redis[Key(q)].val.ver)
        BY <3>1, <4>1 DEF HoldsNewest
      <4> QED BY <2>5, <4>1, <4>2 DEF Older
    <3> QED BY <3>2, <3>3
  <2>11. NoneOlderUnlessOverlapping'
    <3>1. Key(r) \notin overlapped => Older(r, answer[r].ver)
      BY DEF StoresNewest
    <3>2. answer[r].ver \in Nat /\ floor[r] \in Nat
      BY DEF TypeOK, Answers
    <3> QED
      BY <2>2, <2>3, <3>1, <3>2 DEF NoneOlderUnlessOverlapping, Older
  <2> QED BY <2>7, <2>8, <2>9, <2>10, <2>11
<1>6. ASSUME NEW r \in Requests, pc[r] \in {"look", "service", "store"},
             End(r, "failed"),
             UNCHANGED <<now, world, redis, ask, begun, answer, history>>
      PROVE  Order'
  <2> USE <1>6 DEF End
  <2>1. /\ pc'[r] = "done" /\ outcome'[r] = "failed" /\ outcome[r] # "answered"
        /\ \A q \in Requests \ {r} : pc'[q] = pc[q] /\ outcome'[q] = outcome[q]
    BY DEF TypeOK, Course
  <2>2. \A q \in Requests : Key(q)' = Key(q) /\ Heard(q)' = Heard(q)
    BY <2>1 DEF Key, Heard
  <2>3. \A q \in Requests : /\ Fills(q)' => Fills(q)
                            /\ pc'[q] # "new" => pc[q] # "new"
                            /\ pc'[q] = "store" => pc[q] = "store"
    BY <2>1 DEF Fills
  <2>4. Alone' /\ Emptied'
    BY <2>2, <2>3 DEF Alone, Emptied, Live
  <2>5. StoresNewest' /\ HoldsNewest'
    BY <2>2, <2>3 DEF StoresNewest, HoldsNewest, Older, Live
  <2>6. NoneOlderUnlessOverlapping'
    BY <2>1, <2>2 DEF NoneOlderUnlessOverlapping
  <2> QED BY <2>4, <2>5, <2>6
<1>7. ASSUME NEW r \in Requests, Store(r) PROVE Order'
  BY <1>5, <1>7 DEF Store
<1>8. ASSUME NEW r \in Requests, Fail(r) PROVE Order'
  BY <1>5, <1>6, <1>8 DEF Fail
<1>9. ASSUME \A k \in Keys : redis'[k] \in {redis[k], Missing},
             world' \in Nat, UNCHANGED <<request, history>>
      PROVE  Order'
  <2> USE <1>9
  <2>1. \A q \in Requests : /\ Key(q)' = Key(q) /\ Heard(q)' = Heard(q)
                            /\ Fills(q)' = Fills(q)
    BY DEF Key, Heard, Fills
  <2>2. \A k \in Keys : Live(k)' => Live(k) /\ redis'[k] = redis[k]
    BY DEF Live
  <2>3. Alone' /\ StoresNewest'
    BY <2>1 DEF Alone, StoresNewest, Older
  <2>4. Emptied'
    <3> SUFFICES ASSUME NEW q \in Requests, Fills(q), Key(q) \notin overlapped
                 PROVE  ~Live(Key(q))'
      BY <2>1 DEF Emptied, Live
    <3>1. Key(q) \in Keys
      BY <1>0 DEF Fills
    <3> QED BY <2>1, <2>2, <3>1 DEF Emptied, Live
  <2>5. HoldsNewest'
    BY <1>0, <2>1, <2>2 DEF HoldsNewest, Older, Live
  <2> QED BY <2>1, <2>3, <2>4, <2>5 DEF NoneOlderUnlessOverlapping
<1>10. ASSUME NEW k \in Keys, Forget(k) PROVE Order'
  BY <1>9, <1>10 DEF Forget, TypeOK
<1>11. CASE Tick
  BY <1>9, <1>11 DEF Tick, TypeOK
<1>12. CASE Change
  BY <1>9, <1>12 DEF Change, TypeOK
<1>13. CASE UNCHANGED vars
  BY <1>9, <1>13 DEF vars, TypeOK
<1> QED
  BY <1>1, <1>2, <1>3, <1>4, <1>7, <1>8, <1>10, <1>11, <1>12, <1>13
     DEF Next, Handle

(* Hence Inv holds in every state of every behaviour.                      *)
LEMMA Invariance == Spec => []Inv
<1>1. Inv /\ [Next]_vars => Inv'
  BY OwnershipStep, OrderStep DEF Inv
<1> QED BY <1>1, InitInv, PTL DEF Spec

-----------------------------------------------------------------------------
(* Every variable keeps its type.                                          *)
THEOREM TypeCorrect == Spec => []TypeOK
<1>1. Inv => TypeOK
  BY DEF Inv, Ownership
<1> QED BY <1>1, Invariance, PTL

(* No answer is told that was produced more than the TTL and the handling  *)
(* of one request before the client came.                                  *)
THEOREM AnswersAreFresh == Spec => []StalenessBounded
<1>1. Inv => StalenessBounded
  BY DEF Inv, Ownership
<1> QED BY <1>1, Invariance, PTL

(* What was produced for another request is told only to one that asks the *)
(* same by GET of a method whose answers are for everyone.                 *)
THEOREM SharedIsGlobal == Spec => []OnlyGlobalShared
<1>1. Inv => OnlyGlobalShared
  BY DEF Inv, Ownership
<1> QED BY <1>1, Invariance, PTL

(* Without two that miss one key at a time, nobody is told an older answer *)
(* than one that was told before he came.                                  *)
THEOREM AnswersDoNotGoBack == Spec => []NoneOlderUnlessOverlapping
<1>1. Inv => NoneOlderUnlessOverlapping
  BY DEF Inv, Order
<1> QED BY <1>1, Invariance, PTL
=============================================================================
