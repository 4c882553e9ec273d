---------------------------- MODULE MCCredentials -----------------------------
(* The right passphrase and a wrong one.                                   *)
EXTENDS Credentials

CONSTANTS k1, k2

TwoKeys == {k1, k2}
=============================================================================
