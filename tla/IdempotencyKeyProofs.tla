-------------------------- MODULE IdempotencyKeyProofs ------------------------
(***************************************************************************)
(* The safety properties of IdempotencyKey for any requests, keys, times   *)
(* and number of restarts.                                                 *)
(*                                                                         *)
(* That a key is fulfilled once in a window is not inductive: a request    *)
(* is kept out by the row of the one before it, which must still be there. *)
(* KeepsRow says so; it needs in turn that whoever deletes a row holds the *)
(* key himself, and so, without a doubled row, is nobody else.             *)
(*                                                                         *)
(* The last is true where the scope that a request frees is the one it     *)
(* took, which Scoped has from nobody of another entity having come in     *)
(* between.  Nothing is assumed about the entities or the webhooks.        *)
(***************************************************************************)
EXTENDS IdempotencyKey, TLAPS

Unchecked == {"check", "insert"}
Served == {"serving", "release"}

(* A request in flight came in time, and passed the check after it came.   *)
Times == \A r \in Requests :
           /\ r \in InFlight => started[r] <= now /\ now <= started[r] + MaxHandling
           /\ since[r] # Never => since[r] <= now
           /\ pc[r] \in Served => since[r] # Never /\ started[r] <= since[r]
           /\ pc[r] \in {"new"} \cup Unchecked => since[r] = Never

Course == \A r \in Requests :
            /\ pc[r] \in Unchecked \cup Served \/ since[r] # Never
                 => scope[r] \in Scopes /\ scope[r][2] = Path(r)
            /\ pc[r] \notin {"release", "done"} => freed[r] = NoScope
            /\ outcome[r] = "fulfilled" => pc[r] = "done"
            /\ outcome[r] = "failed" => pc[r] \in {"release", "done"}
            /\ pc[r] = "release" => outcome[r] = "failed"

(* A row carries the key and the scope of the request that inserted it.    *)
RowsTrue == \A row \in rows : /\ row.key = KeyOf[row.owner]
                              /\ row.scope = scope[row.owner]
                              /\ pc[row.owner] # "new"

Base == TypeOK /\ Times /\ Course /\ RowsTrue

(* Whom nobody crossed reads the entity of the scope he took, and frees    *)
(* that scope.                                                             *)
Scoped == \A r \in InFlight \ crossed :
            /\ pc[r] # "release" => entity = scope[r][1]
            /\ pc[r] = "release" => freed[r] = scope[r]

(* Who has a row by now, and whose work is or was done under it.           *)
Holder(r) == since[r] # Never /\ (pc[r] \in Served \/ outcome[r] = "fulfilled")
Undoubled(r) == <<scope[r], KeyOf[r]>> \notin doubled /\ ~Robbed(r)

Row(r) == [key |-> KeyOf[r], scope |-> scope[r], time |-> since[r], owner |-> r]
KeepsRow == \A r \in Requests :
              Holder(r) /\ Undoubled(r) /\ since[r] > now - TTL => Row(r) \in rows
Apart == \A r, q \in Requests :
           r # q /\ Holder(r) /\ Holder(q) /\ SameKey(r, q) /\ Undoubled(r)
             => ~Within(r, q)

Inv == Base /\ Scoped /\ KeepsRow /\ Apart /\ FailureFreesKeyUnlessCrossed

USE KeyAssumption

(* A request has a scope of its path, which is not the empty one.          *)
LEMMA Typing ==
  /\ EndOfTime \in Nat /\ Never \notin Nat /\ NoScope \notin Scopes
  /\ \A e \in Entities \cup {AnyEntity}, r \in Requests : <<e, Path(r)>> \in Scopes
  /\ \A r \in Requests : EntityOf[r] \in Entities
<1>1. EndOfTime \in Nat
  BY DEF EndOfTime
<1>2. NoScope \notin Scopes
  BY DEF NoScope, Scopes
<1> QED BY <1>1, <1>2 DEF Never, Path, Scopes, Entities

(* Initially nobody has come and the table is empty.                       *)
LEMMA InitInv == Init => Inv
<1> SUFFICES ASSUME Init PROVE Inv
  OBVIOUS
<1> USE Typing DEF Init
<1>1. TypeOK
  BY DEF TypeOK
<1>2. Times /\ Course /\ RowsTrue
  BY DEF Times, Course, RowsTrue, InFlight, Served, Unchecked
<1>3. Scoped /\ KeepsRow /\ Apart
  BY DEF Scoped, KeepsRow, Apart, Holder, InFlight, Served
<1>4. FailureFreesKeyUnlessCrossed
  BY DEF FailureFreesKeyUnlessCrossed
<1> QED BY <1>1, <1>2, <1>3, <1>4 DEF Inv, Base

-----------------------------------------------------------------------------
(* Every step keeps the types, the times and the truth of the rows.        *)
LEMMA BaseStep == Base /\ [Next]_vars => Base'
<1> SUFFICES ASSUME Base, [Next]_vars PROVE Base'
  OBVIOUS
<1> USE Typing DEF Base, handling, marks
<1>1. ASSUME NEW r \in Requests, Arrive(r) PROVE Base'
  <2> USE <1>1 DEF Arrive
  <2>1. /\ entity' \in Entities \cup {AnyEntity} /\ <<entity', Path(r)>> \in Scopes
        /\ <<entity', Path(r)>>[2] = Path(r) /\ crossed' \subseteq Requests
    BY DEF Authenticated, Crossing, InFlight, TypeOK
  <2>2. TypeOK'
    BY <2>1 DEF TypeOK
  <2>3. Times'
    BY DEF Times, InFlight, Served, Unchecked, TypeOK
  <2>4. Course'
    BY <2>1 DEF Course, Unchecked, Served, TypeOK
  <2>5. RowsTrue'
    BY DEF RowsTrue, TypeOK, Rows
  <2> QED BY <2>2, <2>3, <2>4, <2>5
<1>2. ASSUME NEW r \in Requests, ArriveWithoutKey(r) PROVE Base'
  <2> USE <1>2 DEF ArriveWithoutKey, End
  <2>1. entity' \in Entities \cup {AnyEntity} /\ crossed' \subseteq Requests
    BY DEF Authenticated, Crossing, InFlight, TypeOK
  <2>2. TypeOK'
    BY <2>1 DEF TypeOK
  <2>3. Times'
    BY DEF Times, InFlight, Served, Unchecked, TypeOK
  <2>4. Course'
    BY DEF Course, Unchecked, Served, TypeOK
  <2>5. RowsTrue'
    BY DEF RowsTrue, TypeOK, Rows
  <2> QED BY <2>2, <2>3, <2>4, <2>5
<1>3. ASSUME NEW r \in Requests, Check(r) PROVE Base'
  <2> USE <1>3 DEF Check
  <2>1. TypeOK'
    BY DEF TypeOK
  <2>2. Times'
    BY DEF Times, InFlight, Served, Unchecked, TypeOK
  <2>3. Course'
    BY DEF Course, Unchecked, Served, TypeOK
  <2>4. RowsTrue'
    BY DEF RowsTrue, TypeOK, Rows
  <2> QED BY <2>1, <2>2, <2>3, <2>4
<1>4. ASSUME NEW r \in Requests, Reject(r) PROVE Base'
  <2> USE <1>4 DEF Reject, End
  <2>1. TypeOK'
    BY DEF TypeOK
  <2>2. Times'
    BY DEF Times, InFlight, Served, Unchecked, TypeOK
  <2>3. Course'
    BY DEF Course, Unchecked, Served, TypeOK
  <2>4. RowsTrue'
    BY DEF RowsTrue, TypeOK, Rows
  <2> QED BY <2>1, <2>2, <2>3, <2>4
<1>5. ASSUME NEW r \in Requests, pc[r] = "insert"
      PROVE  /\ NewRow(r) \in Rows
             /\ <<scope[r], KeyOf[r]>> \in Scopes \X {KeyOf[q] : q \in Requests}
             /\ NewRow(r).owner = r /\ NewRow(r).key = KeyOf[r]
             /\ NewRow(r).scope = scope[r]
  BY <1>5 DEF NewRow, Rows, TypeOK, Course, Unchecked
<1>6. ASSUME NEW r \in Requests, Insert(r) PROVE Base'
  <2> USE <1>6 DEF Insert
  <2>1. TypeOK'
    BY <1>5 DEF TypeOK
  <2>2. started[r] <= now
    BY DEF Times, InFlight, TypeOK
  <2>3. Times'
    BY <2>2 DEF Times, InFlight, Served, Unchecked, TypeOK
  <2>4. Course'
    BY DEF Course, Unchecked, Served, TypeOK
  <2>5. RowsTrue'
    <3> SUFFICES ASSUME NEW row \in rows'
                 PROVE  /\ row.key = KeyOf[row.owner]
                        /\ row.scope = scope[row.owner]
                        /\ pc'[row.owner] # "new"
      BY DEF RowsTrue
    <3>1. CASE row \in rows
      BY <3>1 DEF RowsTrue, TypeOK, Rows
    <3>2. CASE row \notin rows
      <4>1. pc[r] = "insert" /\ row = NewRow(r)
        BY <3>2
      <4>2. row.owner = r /\ row.key = KeyOf[r] /\ row.scope = scope[r]
        BY <1>5, <4>1
      <4> QED BY <4>2 DEF TypeOK
    <3> QED BY <3>1, <3>2
  <2> QED BY <2>1, <2>3, <2>4, <2>5
<1>7. ASSUME NEW r \in Requests, NEW b \in BOOLEAN, CheckFails(r, b) PROVE Base'
  <2> USE <1>7 DEF CheckFails, End
  <2>1. TypeOK'
    BY <1>5 DEF TypeOK
  <2>2. Times'
    BY DEF Times, InFlight, Served, Unchecked, TypeOK
  <2>3. Course'
    BY DEF Course, Unchecked, Served, TypeOK
  <2>4. RowsTrue'
    <3> SUFFICES ASSUME NEW row \in rows'
                 PROVE  /\ row.key = KeyOf[row.owner]
                        /\ row.scope = scope[row.owner]
                        /\ pc'[row.owner] # "new"
      BY DEF RowsTrue
    <3>1. CASE row \in rows
      BY <3>1 DEF RowsTrue, TypeOK, Rows
    <3>2. CASE row \notin rows
      <4>1. pc[r] = "insert" /\ row = NewRow(r)
        BY <3>2
      <4>2. row.owner = r /\ row.key = KeyOf[r] /\ row.scope = scope[r]
        BY <1>5, <4>1
      <4> QED BY <4>2 DEF TypeOK
    <3> QED BY <3>1, <3>2
  <2> QED BY <2>1, <2>2, <2>3, <2>4
<1>8. ASSUME NEW r \in Requests, Fulfil(r) PROVE Base'
  <2> USE <1>8 DEF Fulfil, End
  <2>1. TypeOK'
    BY DEF TypeOK
  <2>2. Times'
    BY DEF Times, InFlight, Served, Unchecked, TypeOK
  <2>3. Course'
    BY DEF Course, Unchecked, Served, TypeOK
  <2>4. RowsTrue'
    BY DEF RowsTrue, TypeOK, Rows
  <2> QED BY <2>1, <2>2, <2>3, <2>4
<1>9. ASSUME NEW r \in Requests, Fail(r) PROVE Base'
  <2> USE <1>9 DEF Fail
  <2>1. <<entity, Path(r)>> \in Scopes
    BY DEF TypeOK
  <2>2. TypeOK'
    BY <2>1 DEF TypeOK
  <2>3. Times'
    BY DEF Times, InFlight, Served, Unchecked, TypeOK
  <2>4. Course'
    BY DEF Course, Unchecked, Served, TypeOK
  <2>5. RowsTrue'
    BY DEF RowsTrue, TypeOK, Rows
  <2> QED BY <2>2, <2>3, <2>4, <2>5
<1>10. ASSUME NEW r \in Requests, Release(r) PROVE Base'
  <2> USE <1>10 DEF Release
  <2>1. TypeOK'
    BY DEF TypeOK
  <2>2. Times'
    BY DEF Times, InFlight, Served, Unchecked, TypeOK
  <2>3. Course'
    BY DEF Course, Unchecked, Served, TypeOK
  <2>4. RowsTrue'
    BY DEF RowsTrue, TypeOK, Rows
  <2> QED BY <2>1, <2>2, <2>3, <2>4
<1>11. ASSUME NEW r \in Requests, ReleaseFails(r) PROVE Base'
  <2> USE <1>11 DEF ReleaseFails, End
  <2>1. TypeOK'
    BY DEF TypeOK
  <2>2. Times'
    BY DEF Times, InFlight, Served, Unchecked, TypeOK
  <2>3. Course'
    BY DEF Course, Unchecked, Served, TypeOK
  <2>4. RowsTrue'
    BY DEF RowsTrue, TypeOK, Rows
  <2> QED BY <2>1, <2>2, <2>3, <2>4
<1>12. CASE Crash
  <2> USE <1>12 DEF Crash
  <2>1. TypeOK'
    BY DEF TypeOK, InFlight
  <2>2. Times'
    BY DEF Times, InFlight, Served, Unchecked, TypeOK
  <2>3. Course'
    BY DEF Course, InFlight, Unchecked, Served, TypeOK
  <2>4. RowsTrue'
    BY DEF RowsTrue, InFlight, TypeOK, Rows
  <2> QED BY <2>1, <2>2, <2>3, <2>4
<1>13. CASE Tick
  <2> USE <1>13 DEF Tick
  <2>1. TypeOK'
    BY DEF TypeOK
  <2>2. Times'
    BY DEF Times, InFlight, Served, Unchecked, TypeOK
  <2>3. Course' /\ RowsTrue'
    BY DEF Course, RowsTrue
  <2> QED BY <2>1, <2>2, <2>3
<1>14. CASE UNCHANGED vars
  BY <1>14 DEF vars, TypeOK, Times, InFlight, Course, RowsTrue
<1> QED
  BY <1>1, <1>2, <1>3, <1>4, <1>6, <1>7, <1>8, <1>9, <1>10, <1>11, <1>12, <1>13,
     <1>14 DEF Next, Handle

-----------------------------------------------------------------------------
(* Requests free the scope they took, where nobody crossed them.           *)
LEMMA ScopedStep == Base /\ Scoped /\ [Next]_vars => Scoped'
<1> SUFFICES ASSUME Base, Scoped, [Next]_vars PROVE Scoped'
  OBVIOUS
<1> USE Typing DEF Base, handling, marks
<1>1. ASSUME NEW q \in Requests, Arrive(q) PROVE Scoped'
  <2>1. ASSUME NEW r \in InFlight' \ crossed', r # q
        PROVE  /\ pc'[r] # "release" => entity' = scope'[r][1]
               /\ pc'[r] = "release" => freed'[r] = scope'[r]
    BY <1>1, <2>1 DEF Arrive, Crossing, Scoped, InFlight, TypeOK
  <2>2. pc'[q] = "check" /\ scope'[q][1] = entity'
    BY <1>1 DEF Arrive, TypeOK
  <2> QED BY <2>1, <2>2 DEF Scoped
<1>2. ASSUME NEW q \in Requests, ArriveWithoutKey(q) PROVE Scoped'
  BY <1>2 DEF ArriveWithoutKey, End, Crossing, Scoped, InFlight, TypeOK
<1>3. ASSUME UNCHANGED <<entity, scope, crossed>>,
             NEW r \in Requests, pc[r] \notin {"new", "done", "release"},
             \A q \in Requests \ {r} : pc'[q] = pc[q] /\ freed'[q] = freed[q],
             pc'[r] = "release" => freed'[r] = <<entity, Path(r)>>
      PROVE  Scoped'
  <2>1. r \in InFlight /\ scope[r] = <<scope[r][1], Path(r)>>
    BY <1>3 DEF InFlight, Course, Unchecked, Served, Scopes, TypeOK
  <2>2. ASSUME NEW q \in InFlight' \ crossed', q # r
        PROVE  /\ pc'[q] # "release" => entity' = scope'[q][1]
               /\ pc'[q] = "release" => freed'[q] = scope'[q]
    BY <1>3, <2>2 DEF Scoped, InFlight
  <2>3. ASSUME r \in InFlight' \ crossed'
        PROVE  /\ pc'[r] # "release" => entity' = scope'[r][1]
               /\ pc'[r] = "release" => freed'[r] = scope'[r]
    BY <1>3, <2>1, <2>3 DEF Scoped, InFlight
  <2> QED BY <2>2, <2>3 DEF Scoped
<1>4. ASSUME NEW r \in Requests, Release(r) \/ ReleaseFails(r) PROVE Scoped'
  <2>1. pc'[r] = "done" /\ \A q \in Requests \ {r} : pc'[q] = pc[q]
    BY <1>4 DEF Release, ReleaseFails, End, TypeOK
  <2> QED BY <1>4, <2>1 DEF Release, ReleaseFails, Scoped, InFlight
<1>5. ASSUME NEW r \in Requests,
             \/ Check(r) \/ Reject(r) \/ Insert(r) \/ Fulfil(r) \/ Fail(r)
             \/ \E b \in BOOLEAN : CheckFails(r, b)
      PROVE  Scoped'
  <2>1. UNCHANGED <<entity, scope, crossed>> /\ pc[r] \notin {"new", "done", "release"}
    BY <1>5 DEF Check, Reject, Insert, CheckFails, Fulfil, Fail, End
  <2>2. \A q \in Requests \ {r} : pc'[q] = pc[q] /\ freed'[q] = freed[q]
    BY <1>5 DEF Check, Reject, Insert, CheckFails, Fulfil, Fail, End, TypeOK
  <2>3. pc'[r] = "release" => freed'[r] = <<entity, Path(r)>>
    BY <1>5 DEF Check, Reject, Insert, CheckFails, Fulfil, Fail, End, TypeOK
  <2> QED BY <1>3, <2>1, <2>2, <2>3
<1>6. CASE Crash
  <2>1. InFlight' = {}
    BY <1>6 DEF Crash, InFlight
  <2> QED BY <2>1 DEF Scoped
<1>7. CASE Tick
  BY <1>7 DEF Tick, Scoped, InFlight
<1>8. CASE UNCHANGED vars
  BY <1>8 DEF vars, Scoped, InFlight
<1> QED
  BY <1>1, <1>2, <1>4, <1>5, <1>6, <1>7, <1>8 DEF Next, Handle

(* A request that failed has deleted its row, whose scope is the freed one. *)
LEMMA FreedStep == Base /\ Scoped /\ FailureFreesKeyUnlessCrossed /\ [Next]_vars => FailureFreesKeyUnlessCrossed'
<1> SUFFICES ASSUME Base, Scoped, FailureFreesKeyUnlessCrossed, [Next]_vars,
                    NEW r \in Requests \ crossed', pc'[r] = "done",
                    outcome'[r] = "failed", freed'[r] # NoScope
             PROVE  RowsOf(r)' = {}
  BY DEF FailureFreesKeyUnlessCrossed
<1> USE Typing DEF Base, handling, marks
<1>0. r \notin crossed
  BY DEF Next, Handle, Arrive, ArriveWithoutKey, Check, Reject, Insert, CheckFails,
     Fulfil, Fail, Release, ReleaseFails, Crash, Tick, vars
<1>1. ASSUME pc[r] = "done", outcome[r] = "failed", freed[r] # NoScope,
             \A row \in rows' : row \in rows \/ row.owner # r
      PROVE  RowsOf(r)' = {}
  BY <1>0, <1>1 DEF FailureFreesKeyUnlessCrossed, RowsOf
<1>2. ASSUME NEW q \in Requests, Arrive(q) \/ ArriveWithoutKey(q)
      PROVE  RowsOf(r)' = {}
  BY <1>1, <1>2 DEF Arrive, ArriveWithoutKey, End, TypeOK
<1>3. ASSUME NEW q \in Requests, Check(q) \/ Reject(q) \/ Fulfil(q) \/ ReleaseFails(q)
      PROVE  RowsOf(r)' = {}
  BY <1>1, <1>3 DEF Check, Reject, Fulfil, ReleaseFails, End, TypeOK
<1>4. ASSUME NEW q \in Requests, Fail(q)
      PROVE  RowsOf(r)' = {}
  BY <1>1, <1>4 DEF Fail, TypeOK
<1>5. ASSUME NEW q \in Requests, Insert(q) PROVE RowsOf(r)' = {}
  <2>1. q # r /\ NewRow(q).owner = q
    BY <1>5 DEF Insert, NewRow, TypeOK
  <2> QED BY <1>1, <1>5, <2>1 DEF Insert, TypeOK
<1>6. ASSUME NEW q \in Requests, NEW b \in BOOLEAN, CheckFails(q, b)
      PROVE  RowsOf(r)' = {}
  <2>1. NewRow(q).owner = q
    BY DEF NewRow
  <2>2. q # r
    BY <1>6 DEF CheckFails, Course
  <2> QED BY <1>1, <1>6, <2>1, <2>2 DEF CheckFails, End, TypeOK
<1>7. ASSUME NEW q \in Requests, Release(q) PROVE RowsOf(r)' = {}
  <2>1. CASE q # r
    BY <1>1, <1>7, <2>1 DEF Release, TypeOK
  <2>2. CASE q = r
    <3>1. freed[r] = scope[r]
      BY <1>0, <1>7, <2>2 DEF Release, Scoped, InFlight
    <3>2. \A row \in rows : row.owner = r => row \in Deleted(r)
      BY <3>1 DEF RowsTrue, Deleted, Holds
    <3> QED BY <1>7, <2>2, <3>2 DEF Release, RowsOf
  <2> QED BY <2>1, <2>2
<1>8. CASE Crash
  BY <1>1, <1>8 DEF Crash, InFlight, TypeOK
<1>9. CASE Tick
  BY <1>1, <1>9 DEF Tick
<1>10. CASE UNCHANGED vars
  BY <1>1, <1>10 DEF vars
<1> QED
  BY <1>2, <1>3, <1>4, <1>5, <1>6, <1>7, <1>8, <1>9, <1>10 DEF Next, Handle

-----------------------------------------------------------------------------
(* A scope once freed from another one stays so.                           *)
LEMMA StaysRobbed ==
  ASSUME Base, [Next]_vars, NEW r \in Requests, scope[r] \in Scopes,
         scope'[r] = scope[r], Robbed(r)
  PROVE  Robbed(r)'
<1> USE Typing DEF Base, handling, marks
<1>1. PICK p \in Requests : /\ KeyOf[p] = KeyOf[r]
                            /\ freed[p] = scope[r] /\ scope[p] # scope[r]
  BY DEF Robbed
<1>2. pc[p] \in {"release", "done"}
  BY <1>1 DEF Course
<1>3. freed'[p] = freed[p] /\ scope'[p] = scope[p]
  <2>1. ASSUME NEW q \in Requests, Arrive(q) \/ ArriveWithoutKey(q)
        PROVE  freed'[p] = freed[p] /\ scope'[p] = scope[p]
    BY <1>2, <2>1 DEF Arrive, ArriveWithoutKey, TypeOK
  <2>2. ASSUME NEW q \in Requests, Fail(q)
        PROVE  freed'[p] = freed[p] /\ scope'[p] = scope[p]
    BY <1>2, <2>2 DEF Fail, TypeOK
  <2> QED BY <2>1, <2>2 DEF Next, Handle, Check, Reject, Insert, CheckFails, Fulfil,
          Release, ReleaseFails, Crash, Tick, vars
<1> QED BY <1>1, <1>3 DEF Robbed

(* A step that takes no row and makes no holder leaves the holders apart.  *)
LEMMA NoNewHolder ==
  ASSUME Base, [Next]_vars, KeepsRow, Apart, TypeOK, TypeOK',
         rows \subseteq rows', doubled \subseteq doubled', since' = since,
         now' >= now,
         \A r \in Requests : Holder(r)' => Holder(r) /\ scope'[r] = scope[r]
  PROVE  KeepsRow' /\ Apart'
<1>1. \A r \in Requests : Holder(r)' /\ Undoubled(r)' =>
        /\ Holder(r) /\ Undoubled(r)
        /\ Row(r)' = Row(r) /\ scope'[r] = scope[r]
  <2> SUFFICES ASSUME NEW r \in Requests, Holder(r)', Undoubled(r)'
               PROVE  /\ Holder(r) /\ Undoubled(r)
                      /\ Row(r)' = Row(r) /\ scope'[r] = scope[r]
    OBVIOUS
  <2>1. scope[r] \in Scopes
    BY DEF Holder, Base, Course
  <2> QED BY <2>1, StaysRobbed DEF Undoubled, Row
<1>2. KeepsRow'
  <2> SUFFICES ASSUME NEW r \in Requests, Holder(r)', Undoubled(r)',
                      since'[r] > now' - TTL
               PROVE  Row(r)' \in rows'
    BY DEF KeepsRow
  <2>1. since[r] \in Int /\ now \in Int /\ now' \in Int
    BY DEF TypeOK, Never
  <2>2. since[r] > now - TTL
    BY <2>1
  <2> QED BY <1>1, <2>2 DEF KeepsRow
<1>3. Apart'
  <2> SUFFICES ASSUME NEW r \in Requests, NEW q \in Requests, r # q, Holder(r)',
                      Holder(q)', SameKey(r, q)', Undoubled(r)'
               PROVE  ~Within(r, q)'
    BY DEF Apart
  <2>1. SameKey(r, q)
    BY <1>1 DEF SameKey
  <2> QED BY <1>1, <2>1 DEF Apart, Within
<1> QED BY <1>2, <1>3

(* A request gets a row past the check only where no holder of its key is  *)
(* left in the window, or the key is doubled.                              *)
LEMMA InsertIsApart ==
  ASSUME Base, [Next]_vars, KeepsRow, Apart, NEW r \in Requests, Insert(r)
  PROVE  KeepsRow' /\ Apart'
<1> USE DEF Base, Insert
<1>1. \A q \in Requests \ {r} : /\ Holder(q)' => Holder(q)
                                /\ since'[q] = since[q] /\ Row(q)' = Row(q)
  BY DEF Holder, Row, TypeOK
<1>2. since'[r] = now /\ Row(r)' \in rows'
  BY DEF Row, NewRow, TypeOK
<1>3. \A q \in Requests : Undoubled(q)' => Undoubled(q)
  BY DEF Undoubled, Robbed
<1>4. ASSUME NEW q \in Requests \ {r}, Holder(q)', SameKey(r, q), Undoubled(r)'
      PROVE  ~Within(r, q)' /\ ~Within(q, r)'
  <2>1. Holder(q) /\ Undoubled(q)
    BY <1>1, <1>3, <1>4 DEF SameKey, Undoubled, Robbed
  <2>2. ~Held(scope[r], KeyOf[r])
    BY <1>4 DEF Undoubled
  <2>3. Row(q) \notin rows \/ since[q] <= now - TTL
    <3> SUFFICES ASSUME Row(q) \in rows PROVE since[q] <= now - TTL
      OBVIOUS
    <3>1. Row(q).scope = scope[r] /\ Row(q).key = KeyOf[r] /\ Row(q).time = since[q]
      BY <1>4 DEF Row, SameKey
    <3>2. ~(since[q] > now - TTL)
      BY <2>2, <3>1 DEF Held, Holds, Live
    <3>3. since[q] \in Int /\ now \in Int
      BY DEF TypeOK, Never
    <3> QED BY <3>2, <3>3
  <2>4. since[q] \in Int /\ now \in Int
    BY DEF TypeOK, Never
  <2>5. since[q] <= now - TTL
    BY <2>1, <2>3, <2>4 DEF KeepsRow
  <2> QED BY <1>1, <1>2, <2>4, <2>5 DEF Within
<1>5. KeepsRow'
  BY <1>1, <1>2, <1>3 DEF KeepsRow
<1>6. Apart'
  <2> SUFFICES ASSUME NEW p \in Requests, NEW q \in Requests, p # q, Holder(p)',
                      Holder(q)', SameKey(p, q)', Undoubled(p)'
               PROVE  ~Within(p, q)'
    BY DEF Apart
  <2>1. SameKey(p, q) /\ SameKey(q, p) /\ Undoubled(q)'
    BY DEF SameKey, Undoubled, Robbed
  <2>2. CASE p # r /\ q # r
    BY <1>1, <1>3, <2>1, <2>2 DEF Apart, Within
  <2>3. CASE p = r \/ q = r
    BY <1>4, <2>1, <2>3
  <2> QED BY <2>2, <2>3
<1> QED BY <1>5, <1>6

(* A release takes no row of a holder: it would be a row of the key that   *)
(* the releasing request holds itself, within the same window.             *)
LEMMA ReleaseIsApart ==
  ASSUME Base, KeepsRow, Apart, NEW r \in Requests, Release(r)
  PROVE  KeepsRow' /\ Apart'
<1> USE DEF Base, Release, marks
<1>1. \A q \in Requests : Holder(q)' => Holder(q) /\ q # r
  BY DEF Holder, Served, Course, TypeOK
<1>2. Apart'
  BY <1>1 DEF Apart, SameKey, Within, Undoubled, Robbed
<1>3. KeepsRow'
  <2> SUFFICES ASSUME NEW q \in Requests, Holder(q), q # r, Undoubled(q),
                      since[q] > now - TTL, Row(q) \in Deleted(r)
               PROVE  FALSE
    BY <1>1 DEF KeepsRow, Undoubled, Robbed, Row
  <2>1. freed[r] = scope[q] /\ KeyOf[r] = KeyOf[q]
    BY DEF Deleted, Holds, Row
  <2>2. SameKey(q, r)
    BY <2>1 DEF Undoubled, Robbed, SameKey
  <2>3. Holder(r)
    BY DEF Holder, Served, Times
  <2>4. /\ since[r] \in Int /\ since[q] \in Int /\ now \in Int
        /\ started[r] \in Int
    BY DEF TypeOK, Never
  <2>5. since[r] <= now /\ since[q] <= now /\ since[r] > now - TTL
    BY <2>3, <2>4 DEF Times, InFlight, Served, Holder
  <2>6. Within(q, r)
    BY <2>3, <2>4, <2>5 DEF Within, Holder
  <2> QED BY <2>2, <2>3, <2>6 DEF Apart
<1> QED BY <1>2, <1>3

(* Every step keeps the rows of the holders, and the holders apart.        *)
LEMMA WindowStep ==
  Base /\ Base' /\ KeepsRow /\ Apart /\ [Next]_vars => KeepsRow' /\ Apart'
<1> SUFFICES ASSUME Base, Base', KeepsRow, Apart, [Next]_vars
             PROVE  KeepsRow' /\ Apart'
  OBVIOUS
<1> USE DEF marks
<1>0. TypeOK /\ TypeOK' /\ now \in Int
  BY DEF Base, TypeOK
<1>1. ASSUME NEW r \in Requests, Arrive(r) \/ ArriveWithoutKey(r)
      PROVE  KeepsRow' /\ Apart'
  <2>1. \A q \in Requests : Holder(q)' => Holder(q) /\ scope'[q] = scope[q]
    BY <1>0, <1>1 DEF Arrive, ArriveWithoutKey, End, Holder, Served, Unchecked,
       Base, Times, Course, TypeOK
  <2> QED BY <1>0, <1>1, <2>1, NoNewHolder DEF Arrive, ArriveWithoutKey
<1>2. ASSUME NEW r \in Requests, Check(r) \/ Reject(r) \/ ReleaseFails(r) \/ Fulfil(r)
      PROVE  KeepsRow' /\ Apart'
  <2>1. \A q \in Requests : Holder(q)' => Holder(q) /\ scope'[q] = scope[q]
    BY <1>0, <1>2 DEF Check, Reject, ReleaseFails, Fulfil, End, Holder, Served, TypeOK
  <2> QED BY <1>0, <1>2, <2>1, NoNewHolder DEF Check, Reject, ReleaseFails, Fulfil
<1>3. ASSUME NEW r \in Requests, NEW b \in BOOLEAN, CheckFails(r, b) \/ Fail(r)
      PROVE  KeepsRow' /\ Apart'
  <2>1. \A q \in Requests : Holder(q)' => Holder(q) /\ scope'[q] = scope[q]
    BY <1>0, <1>3 DEF CheckFails, Fail, End, Holder, Served, TypeOK
  <2> QED BY <1>0, <1>3, <2>1, NoNewHolder DEF CheckFails, Fail
<1>4. ASSUME NEW r \in Requests, Insert(r) \/ Release(r)
      PROVE  KeepsRow' /\ Apart'
  BY <1>4, InsertIsApart, ReleaseIsApart
<1>5. CASE Crash
  <2>1. \A q \in Requests : Holder(q)' => Holder(q) /\ scope'[q] = scope[q]
    BY <1>0, <1>5 DEF Crash, InFlight, Holder, Served, TypeOK
  <2> QED BY <1>0, <1>5, <2>1, NoNewHolder DEF Crash
<1>6. CASE Tick
  <2>1. \A q \in Requests : Holder(q)' => Holder(q) /\ scope'[q] = scope[q]
    BY <1>6 DEF Tick, handling, marks, Holder
  <2> QED BY <1>0, <1>6, <2>1, NoNewHolder DEF Tick
<1>7. CASE UNCHANGED vars
  <2>1. \A q \in Requests : Holder(q)' => Holder(q) /\ scope'[q] = scope[q]
    BY <1>7 DEF vars, handling, marks, Holder
  <2> QED BY <1>0, <1>7, <2>1, NoNewHolder DEF vars, handling, marks
<1> QED
  BY <1>1, <1>2, <1>3, <1>4, <1>5, <1>6, <1>7 DEF Next, Handle

-----------------------------------------------------------------------------
(* The truth of the rows needs no assumption on who sends.                 *)
LEMMA BaseInvariance == Spec => []Base
<1>1. Init => Base
  BY InitInv DEF Inv
<1> QED BY <1>1, BaseStep, PTL DEF Spec

LEMMA Invariance == Spec => []Inv
<1>1. Inv /\ [Next]_vars => Inv'
  BY BaseStep, ScopedStep, FreedStep, WindowStep DEF Inv
<1> QED BY <1>1, InitInv, PTL DEF Spec

-----------------------------------------------------------------------------
(* The types of the table and of the requests' state.                      *)
THEOREM TypeCorrect == Spec => []TypeOK
<1>1. Base => TypeOK
  BY DEF Base
<1> QED BY <1>1, BaseInvariance, PTL

(* A rejected duplicate never frees the key, whatever its own response:    *)
(* only a request that got past the check deletes rows, those of its key.  *)
THEOREM OnlyHolders == Spec => OnlyHoldersRelease
<1>1. Base /\ [Next]_vars =>
        [rows \subseteq rows' \/
         \E r \in Requests : /\ pc[r] = "release" /\ pc'[r] = "done"
                            /\ since[r] # Never
                            /\ \A row \in rows \ rows' : row.key = KeyOf[r]]_vars
  <2> SUFFICES ASSUME Base, Next, ~(rows \subseteq rows')
               PROVE  \E r \in Requests :
                        /\ pc[r] = "release" /\ pc'[r] = "done"
                        /\ since[r] # Never
                        /\ \A row \in rows \ rows' : row.key = KeyOf[r]
    OBVIOUS
  <2>1. PICK r \in Requests : Release(r)
    BY DEF Next, Handle, Arrive, ArriveWithoutKey, Check, Reject, Insert,
       CheckFails, Fulfil, Fail, ReleaseFails, Crash, Tick
  <2>2. pc[r] = "release" /\ pc'[r] = "done"
    BY <2>1 DEF Release, Base, TypeOK
  <2>3. since[r] # Never
    BY <2>2 DEF Base, Times, Served
  <2>4. \A row \in rows \ rows' : row.key = KeyOf[r]
    BY <2>1 DEF Release, Deleted, Holds
  <2> QED BY <2>2, <2>3, <2>4
<1> QED BY <1>1, BaseInvariance, PTL DEF Spec, OnlyHoldersRelease

(* A failed request that could talk to the database leaves no row behind,  *)
(* of any entity and with any others beside it, unless one of another      *)
(* entity came before get_scope was called again.                          *)
THEOREM FailuresFreeKeys == Spec => []FailureFreesKeyUnlessCrossed
<1>1. Inv => FailureFreesKeyUnlessCrossed
  BY DEF Inv
<1> QED BY <1>1, Invariance, PTL

(* Requests of a key are fulfilled at most once in a window, whoever sends *)
(* them and whatever fails, restarts or expires: but where two live rows   *)
(* of it were inserted, or one who took another scope has freed this one.  *)
THEOREM FulfilledOnce == Spec => []OncePerWindowUnlessDoubled
<1>1. Inv => OncePerWindowUnlessDoubled
  <2> SUFFICES ASSUME Apart, NEW r \in Requests, NEW q \in Requests,
                      r # q, SameKey(r, q), outcome[r] = "fulfilled",
                      outcome[q] = "fulfilled", Undoubled(r), Within(r, q)
               PROVE  FALSE
    BY DEF Inv, OncePerWindowUnlessDoubled, Undoubled
  <2>1. Holder(r) /\ Holder(q)
    BY DEF Holder, Within
  <2> QED BY <2>1 DEF Apart
<1> QED BY <1>1, Invariance, PTL
=============================================================================
