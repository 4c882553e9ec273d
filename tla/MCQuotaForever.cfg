SPECIFICATION Spec
CONSTANTS
  r1 = r1
  r2 = r2
  r3 = r3
  e1 = e1
  e2 = e2
  Requests <- Three
  EntityOf <- OneSender
  Keyed <- Nobody
  Quota <- BothQuotas
  Window <- Windows
  OnlyFulfilled = TRUE
  MaxInFlight = 1
  MaxTime = 3
INVARIANTS
  QuotaResets
CHECK_DEADLOCK FALSE
