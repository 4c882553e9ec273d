-------------------------- MODULE MCRequestPipeline --------------------------
(* Four middlewares, two of them webhook friendly: the order of            *)
(* config/common.py (start time, auth, idempotency key, rate limiting).    *)
EXTENDS RequestPipeline

MCWebhookFriendly == {1, 3}
=============================================================================
