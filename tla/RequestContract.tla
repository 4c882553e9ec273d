--------------------------- MODULE RequestContract ---------------------------
(***************************************************************************)
(* What the gateway promises for one request, without its middlewares: the *)
(* service is called at most once, before the request is closed; a request *)
(* that failed is never answered as a success; every request is concluded; *)
(* and only a failed one may be handled again from the start.              *)
(***************************************************************************)
VARIABLES stage,    \* "incoming", "closing" or "done"
          served,   \* the service method was called
          failed,   \* the request was refused, or the service failed
          outcome   \* what the caller was told

vars == <<stage, served, failed, outcome>>

Init == stage = "incoming" /\ ~served /\ ~failed /\ outcome = "pending"

Serve == /\ stage = "incoming" /\ ~served
         /\ served' = TRUE
         /\ UNCHANGED <<stage, failed, outcome>>

Close == /\ stage = "incoming"
         /\ stage' = "closing"
         /\ failed' \in BOOLEAN
         /\ UNCHANGED <<served, outcome>>

Conclude == /\ stage = "closing"
            /\ stage' = "done"
            /\ \/ outcome' = "failure"
               \/ ~failed /\ outcome' = "success"
            /\ UNCHANGED <<served, failed>>

Retry == /\ stage = "done" /\ outcome = "failure"
         /\ stage' = "incoming" /\ served' = FALSE
         /\ failed' = FALSE /\ outcome' = "pending"

Next == Serve \/ Close \/ Conclude \/ Retry

Spec == Init /\ [][Next]_vars
FairSpec == Spec /\ WF_vars(Close) /\ WF_vars(Conclude)
=============================================================================
