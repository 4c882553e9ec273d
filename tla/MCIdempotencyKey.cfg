SPECIFICATION FairSpec
CONSTANTS
  r1 = r1
  r2 = r2
  r3 = r3
  k = k
  e1 = e1
  e2 = e2
  AnyEntity = AnyEntity
  Requests <- Three
  Webhooks <- NoHook
  EntityOf <- TwoEntities
  KeyOf <- OneKey
  TTL = 2
  MaxHandling = 1
  LastArrival = 1
  MaxCrashes = 1
INVARIANTS
  OncePerWindowUnlessDoubled
  FailureFreesKeyUnlessCrossed
PROPERTIES
  OnlyHoldersRelease
  UnfulfilledKeyComesFree
CHECK_DEADLOCK FALSE
