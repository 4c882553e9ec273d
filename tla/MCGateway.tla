------------------------------- MODULE MCGateway ------------------------------
(* A client that sends its call three times at most, whose quota is spent  *)
(* before the third; a message that is handed over twice at most.          *)
EXTENDS Gateway
=============================================================================
