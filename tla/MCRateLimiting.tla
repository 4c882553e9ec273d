---------------------------- MODULE MCRateLimiting ---------------------------
EXTENDS RateLimiting

CONSTANTS r1, r2, r3, e1, e2

Three == {r1, r2, r3}

(* Two requests of one sender beside another's, one that waits for its     *)
(* idempotency key; or one sender only.                                    *)
TwoSenders == [r \in Three |-> IF r = r2 THEN e2 ELSE e1]
OneSender == [r \in Three |-> e1]
FirstKeyed == {r1}
Nobody == {}

(* Both quotas are met: a request after the first window finds the usage   *)
(* of the service gone and that of all services still there.               *)
BothQuotas == [s \in Scopes |-> 1]
Windows    == [s \in Scopes |-> IF s = "service" THEN 1 ELSE 2]
=============================================================================
