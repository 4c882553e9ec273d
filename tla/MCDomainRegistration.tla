------------------------- MODULE MCDomainRegistration ------------------------
EXTENDS DomainRegistration

CONSTANTS i1, i2, s1, s2, s3, d, e1, e2

(* Two entities want one domain; the first submits twice.                  *)
Two == {i1, i2}
OneDomain == [i \in Two |-> d]
TwoEntities == [i \in Two |-> IF i = i1 THEN e1 ELSE e2]
Three == {s1, s2, s3}
OneSubmitsTwice == [s \in Three |-> IF s = s3 THEN i2 ELSE i1]
=============================================================================
