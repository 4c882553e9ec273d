---------------------------- MODULE MCResponseCache ---------------------------
(* Exchange rates, whose answers are global, for two queries, one of them  *)
(* also asked by the queue, and a report of its own for each client.       *)
EXTENDS ResponseCache, TLC

CONSTANTS r1, r2, r3, rates, report, q1, q2

Three       == {r1, r2, r3}
SameRequests == Permutations(Three)
TwoPaths    == {rates, report}
TwoQueries  == {q1, q2}
RatesOnly   == {rates}
Get(p, q)   == [path |-> p, query |-> q, get |-> TRUE]
FourAsks    == {Get(rates, q1), Get(rates, q2), Get(report, q1),
                [path |-> rates, query |-> q1, get |-> FALSE]}
=============================================================================
