----------------------------- MODULE ResponseCache ----------------------------
(***************************************************************************)
(* CacheMiddleware around a service method: a GET request is answered from *)
(* Redis when the key of its path and query is there, otherwise the method *)
(* runs and its answer is stored for TTL if the method marked it with      *)
(* global_cache.  The look-up, the call and the SETEX are separated by     *)
(* awaits, what the method reports changes meanwhile, and the statements   *)
(* fail on their own.                                                      *)
(*                                                                         *)
(* An answer is known by the request whose call produced it, its time and  *)
(* the version of the world it reports.                                    *)
(***************************************************************************)
EXTENDS Naturals, FiniteSets

CONSTANTS Requests,
          Paths,         \* service methods
          Queries,       \* query strings
          GlobalPaths,   \* methods that answer with global_cache
          Asks,          \* what requests ask: [path, query, get]
          TTL,           \* the 5 minutes of SETEX, in ticks
          MaxHandling,   \* ticks after which the web server ends a request
          MaxTime,       \* bound: ticks of the clock
          MaxChanges     \* bound: changes of what the methods report

ASSUME CacheAssumption ==
  /\ GlobalPaths \subseteq Paths
  /\ Asks \subseteq [path : Paths, query : Queries, get : BOOLEAN]
  /\ TTL \in Nat \ {0} /\ MaxHandling \in Nat \ {0}
  /\ MaxTime \in Nat /\ MaxChanges \in Nat

VARIABLES
  now,        \* the clock of Redis and of the worker
  world,      \* version of what the methods report
  redis,      \* the cached answer of each key and when it expires
  pc,         \* "new", "look", "service", "store" or "done"
  ask,        \* what a request asks
  begun,      \* when a request came
  answer,     \* the service_response of a request
  outcome,    \* "none", "answered" or "failed"
  floor,      \* history: newest version told for its key when it came
  overlapped  \* history: keys missed while a call for them was under way

request == <<pc, ask, begun, answer, outcome>>
history == <<floor, overlapped>>
vars == <<now, world, redis, request, history>>

NoAsk == [path |-> "none", query |-> "none", get |-> FALSE]
NoAnswer == [by |-> "nobody", at |-> 0, ver |-> 0]
Answers == [by : Requests, at : 0..MaxTime, ver : 0..MaxChanges]
Keys == Paths \X Queries
Missing == [val |-> NoAnswer, exp |-> 0]

(* _get_request_uniform: neither the method nor the entity is part of it.  *)
MutantKey(r) == <<ask[r].path, CHOOSE q \in Queries : TRUE>>
Key(r) == <<ask[r].path, ask[r].query>>

Live(k) == redis[k] # Missing

Init == /\ now = 0 /\ world = 0
        /\ redis = [k \in Keys |-> Missing]
        /\ pc = [r \in Requests |-> "new"]
        /\ ask = [r \in Requests |-> NoAsk]
        /\ begun = [r \in Requests |-> 0]
        /\ answer = [r \in Requests |-> NoAnswer]
        /\ outcome = [r \in Requests |-> "none"]
        /\ floor = [r \in Requests |-> 0]
        /\ overlapped = {}

Newest(S) == IF S = {} THEN 0 ELSE CHOOSE v \in S : \A w \in S : w <= v
Told(a) == {answer[r].ver : r \in {q \in Requests : /\ outcome[q] = "answered"
                                                   /\ ask[q] = a}}

End(r, how) == /\ pc' = [pc EXCEPT ![r] = "done"]
               /\ outcome' = [outcome EXCEPT ![r] = how]

-----------------------------------------------------------------------------
(* process_request *)

Arrive(r, a) ==
  /\ pc[r] = "new"
  /\ ask' = [ask EXCEPT ![r] = a]
  /\ pc' = [pc EXCEPT ![r] = IF a.get THEN "look" ELSE "service"]
  /\ begun' = [begun EXCEPT ![r] = now]
  /\ floor' = [floor EXCEPT ![r] = Newest(Told(a))]
  /\ UNCHANGED <<now, world, redis, answer, outcome, overlapped>>

(* The cached answer goes to the client in a new ServiceResponse, which    *)
(* does not ask to be cached.                                              *)
MutantHit(r) ==
  /\ pc[r] = "look" /\ Live(Key(r))
  /\ answer' = [answer EXCEPT ![r] = redis[Key(r)].val]
  /\ pc' = [pc EXCEPT ![r] = "store"]
  /\ UNCHANGED <<now, world, redis, ask, begun, outcome, history>>
Hit(r) ==
  /\ pc[r] = "look" /\ Live(Key(r))
  /\ answer' = [answer EXCEPT ![r] = redis[Key(r)].val]
  /\ End(r, "answered")
  /\ UNCHANGED <<now, world, redis, ask, begun, history>>

Miss(r) ==
  /\ pc[r] = "look" /\ ~Live(Key(r))
  /\ pc' = [pc EXCEPT ![r] = "service"]
  /\ overlapped' = IF \E q \in Requests : /\ pc[q] \in {"service", "store"}
                                          /\ ask[q] = ask[r]
                     THEN overlapped \cup {Key(r)} ELSE overlapped
  /\ UNCHANGED <<now, world, redis, ask, begun, answer, outcome, floor>>

-----------------------------------------------------------------------------
(* The service method, and process_response *)

MutantStores(r) == ask[r].get
Stores(r) == ask[r].get /\ ask[r].path \in GlobalPaths

Serve(r) ==
  /\ pc[r] = "service"
  /\ answer' = [answer EXCEPT ![r] = [by |-> r, at |-> now, ver |-> world]]
  /\ IF Stores(r) THEN /\ pc' = [pc EXCEPT ![r] = "store"]
                       /\ UNCHANGED outcome
                  ELSE End(r, "answered")
  /\ UNCHANGED <<now, world, redis, ask, begun, history>>

Stored(r) == [val |-> answer[r], exp |-> now + TTL]
Put(r) == redis' = [redis EXCEPT ![Key(r)] = Stored(r)]

Store(r) ==
  /\ pc[r] = "store"
  /\ Put(r)
  /\ End(r, "answered")
  /\ UNCHANGED <<now, world, ask, begun, answer, history>>

(* The GET, the method or the SETEX raises, or the request is cancelled;   *)
(* Redis may have executed the SETEX.                                      *)
Fail(r) ==
  /\ pc[r] \in {"look", "service", "store"}
  /\ End(r, "failed")
  /\ \/ pc[r] = "store" /\ Put(r)
     \/ UNCHANGED redis
  /\ UNCHANGED <<now, world, ask, begun, answer, history>>

-----------------------------------------------------------------------------
(* Redis forgets a key before its time when it restarts or is short of memory. *)
Forget(k) ==
  /\ Live(k)
  /\ redis' = [redis EXCEPT ![k] = Missing]
  /\ UNCHANGED <<now, world, request, history>>

(* The web server ends a request within MaxHandling; Redis expires keys.   *)
Tick ==
  /\ now < MaxTime
  /\ \A r \in Requests :
       pc[r] \in {"look", "service", "store"} => now < begun[r] + MaxHandling
  /\ now' = now + 1
  /\ redis' = [k \in Keys |-> IF redis[k].exp = now' THEN Missing ELSE redis[k]]
  /\ UNCHANGED <<world, request, history>>

Change ==
  /\ world < MaxChanges
  /\ world' = world + 1
  /\ UNCHANGED <<now, redis, request, history>>

Handle(r) == Hit(r) \/ Miss(r) \/ Serve(r) \/ Store(r) \/ Fail(r)

Next == \/ \E r \in Requests : \/ \E a \in Asks : Arrive(r, a)
                                \/ Handle(r)
        \/ \E k \in Keys : Forget(k)
        \/ Tick \/ Change

Spec == Init /\ [][Next]_vars

-----------------------------------------------------------------------------
(* Properties *)

TypeOK ==
  /\ now \in 0..MaxTime /\ world \in 0..MaxChanges
  /\ redis \in [Keys -> [val : Answers \cup {NoAnswer}, exp : Nat]]
  /\ pc \in [Requests -> {"new", "look", "service", "store", "done"}]
  /\ ask \in [Requests -> Asks \cup {NoAsk}]
  /\ begun \in [Requests -> 0..MaxTime]
  /\ answer \in [Requests -> Answers \cup {NoAnswer}]
  /\ outcome \in [Requests -> {"none", "answered", "failed"}]
  /\ floor \in [Requests -> 0..MaxChanges]
  /\ overlapped \subseteq Keys

(* However often a cached answer is asked for, nobody is told one that was *)
(* produced more than TTL and the handling of one request before he came:  *)
(* answers from the cache do not renew themselves.                         *)
StalenessBounded ==
  \A r \in Requests :
    outcome[r] = "answered" => begun[r] < answer[r].at + TTL + MaxHandling

(* The key has no entity: an answer produced for another request is told   *)
(* only to one that asks the same of the same method by GET, and only if   *)
(* the method declared its answers to be the same for everyone.            *)
OnlyGlobalShared ==
  \A r \in Requests :
    LET q == answer[r].by IN
    outcome[r] = "answered" /\ q # r
      => /\ q \in Requests /\ ask[q] = ask[r]
         /\ ask[r].get /\ ask[r].path \in GlobalPaths

(* A client that comes after another one was told a version is told no     *)
(* older one, unless a key was missed while a call for it was under way:   *)
(* then the slower SETEX may put the older answer over the newer one.      *)
NoneOlderUnlessOverlapping ==
  \A r \in Requests :
    outcome[r] = "answered" /\ Key(r) \notin overlapped
      => answer[r].ver >= floor[r]
=============================================================================
