SPECIFICATION FairSpec
CONSTANTS
  r1 = r1
  r2 = r2
  r3 = r3
  e1 = e1
  e2 = e2
  Requests <- Three
  EntityOf <- TwoSenders
  Keyed <- FirstKeyed
  Quota <- BothQuotas
  Window <- Windows
  OnlyFulfilled = TRUE
  MaxInFlight = 2
  MaxTime = 1
INVARIANTS
  CountsAreServedRequests
  WithinQuotaUnlessOverlapping
PROPERTIES
  NoFalseRefusal
  ServedIsCounted
CHECK_DEADLOCK FALSE
