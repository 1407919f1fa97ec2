SPECIFICATION FairSpec
CONSTANTS
  Txns = {1, 2, 3}
  Raw = 3
  RawKinds = {"not_object", "normal"}
  MaxPoll = 2
  SaveMayFail = TRUE
  MaxTroubles = 1
  MaxRaises = 1
CHECK_DEADLOCK FALSE
INVARIANTS CleanMeansContiguous NoAlarmWithoutFault
PROPERTIES EventuallyVerified
