--------------------------- MODULE MCIdempotencyKey --------------------------
EXTENDS IdempotencyKey

CONSTANTS r1, r2, r3, k, e1, e2

(* A request and its retry, and one of another entity, which may happen to *)
(* use the same key.                                                       *)
Three == {r1, r2, r3}
NoHook == {}
TwoEntities == [r \in Three |-> IF r = r3 THEN e2 ELSE e1]
OneKey == [r \in Three |-> k]
=============================================================================
