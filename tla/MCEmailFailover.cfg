SPECIFICATION Spec
CONSTANTS
  r1 = r1
  r2 = r2
  r3 = r3
  Requests <- ThreeRequests
  NumProviders = 3
  Methods <- EmailMethods
  Provides <- EmailProvides
  Unconfigured <- None
  FalsyOnError <- First
  Kinds <- Failover
INVARIANTS
  UntilOneSucceeds
CHECK_DEADLOCK FALSE
