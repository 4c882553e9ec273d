-------------------------- MODULE MCProviderFailover -------------------------
(* Three requests of one worker.  MCProviderFailover: providers with       *)
(* overlapping methods, of which the first does not raise its errors and   *)
(* the last lacks its setting.  MCEmailFailover: the email service.        *)
EXTENDS ProviderFailover, TLC

CONSTANTS r1, r2, r3

ThreeRequests == {r1, r2, r3}

MixedMethods  == {"send", "bulk", "page", "void"}
MixedProvides == [m \in MixedMethods |-> CASE m = "send" -> {1, 2, 3}
                                           [] m = "bulk" -> {2, 3}
                                           [] m = "page" -> {3, 4}
                                           [] OTHER      -> {}]
First     == {1}
Fourth    == {4}
BothKinds == {"failover", "single"}

EmailMethods  == {"send"}
EmailProvides == [m \in EmailMethods |-> Providers]
None          == {}
Failover      == {"failover"}

Symmetry == Permutations(ThreeRequests)
=============================================================================
