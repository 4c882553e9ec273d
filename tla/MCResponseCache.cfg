SPECIFICATION Spec
CONSTANTS
  r1 = r1
  r2 = r2
  r3 = r3
  rates = rates
  report = report
  q1 = q1
  q2 = q2
  Requests <- Three
  Paths <- TwoPaths
  Queries <- TwoQueries
  GlobalPaths <- RatesOnly
  Asks <- FourAsks
  TTL = 1
  MaxHandling = 1
  MaxTime = 3
  MaxChanges = 1
INVARIANTS
  StalenessBounded
  OnlyGlobalShared
  NoneOlderUnlessOverlapping
CHECK_DEADLOCK FALSE
SYMMETRY SameRequests
