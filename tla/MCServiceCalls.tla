---------------------------- MODULE MCServiceCalls ----------------------------
(* One piece of work: a request for it and its repetition, which overlap   *)
(* when the first one timed out.                                           *)
EXTENDS ServiceCalls

CONSTANTS r1, r2, w1

Two     == {r1, r2}
OneWork == {w1}
Same    == [r \in Two |-> w1]
=============================================================================
