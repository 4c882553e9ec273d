SPECIFICATION FairSpec
CONSTANTS
  r1 = r1
  r2 = r2
  w1 = w1
  Requests <- Two
  Works <- OneWork
  WorkOf <- Same
INVARIANTS
  RetryAfterAllFailed
  TypeOK
  SentMeansAccepted
  OnceUnlessDoubtful
PROPERTIES
  EveryRequestTold
CHECK_DEADLOCK FALSE
