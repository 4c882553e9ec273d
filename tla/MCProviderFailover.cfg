SPECIFICATION Spec
CONSTANTS
  r1 = r1
  r2 = r2
  r3 = r3
  Requests <- ThreeRequests
  NumProviders = 4
  Methods <- MixedMethods
  Provides <- MixedProvides
  Unconfigured <- Fourth
  FalsyOnError <- First
  Kinds <- BothKinds
INVARIANTS
  OncePerProvider
  UntilOneAnswers
  StopsAtSuccess
  SpreadBounded
SYMMETRY Symmetry
CHECK_DEADLOCK FALSE
