SPECIFICATION Spec
CONSTANTS
  k1 = k1
  k2 = k2
  Keys <- TwoKeys
  MaxEdits = 2
INVARIANTS
  LostOnlyIfForced
  TornOnlyByKilling
CHECK_DEADLOCK FALSE
