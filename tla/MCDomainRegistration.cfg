SPECIFICATION FairSpec
CONSTANTS
  i1 = i1
  i2 = i2
  s1 = s1
  s2 = s2
  s3 = s3
  d = d
  e1 = e1
  e2 = e2
  Intentions <- Two
  DomainOf <- OneDomain
  EntityOf <- TwoEntities
  Submissions <- Three
  IntentionOf <- OneSubmitsTwice
  Attempts = 5
  Faults <- FaultKinds
INVARIANTS
  TypeOK
  FinishedIsOwned
  OwnedByRecordedAccount
  CreatedIsScheduled
  CompleteHasRecords
PROPERTIES
  RecordsUnlessFaulted
  SoldIsFinishedUnlessFaulted
CHECK_DEADLOCK FALSE
