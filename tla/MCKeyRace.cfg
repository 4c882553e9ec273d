SPECIFICATION Spec
CONSTANTS
  r1 = r1
  r2 = r2
  r3 = r3
  k = k
  e1 = e1
  e2 = e2
  AnyEntity = AnyEntity
  Requests <- Three
  Webhooks <- NoHook
  EntityOf <- TwoEntities
  KeyOf <- OneKey
  TTL = 2
  MaxHandling = 1
  LastArrival = 2
  MaxCrashes = 0
INVARIANTS
  TransferOnce
CHECK_DEADLOCK FALSE
