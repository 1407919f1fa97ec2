SPECIFICATION FairSpec
CONSTANTS
  Txns = {1, 2}
  Raw = 2
  RawKinds = {"not_json", "not_object", "unsigned", "malformed", "normal", "quarantine"}
  MaxPoll = 2
  SaveMayFail = TRUE
  MaxTroubles = 2
  MaxRaises = 1
CHECK_DEADLOCK FALSE
INVARIANTS ProverTypeOK AckedIsCommitted OnceForEachJoin EveryMessageTallied PublishedIsDurable
PROPERTIES EventuallyInLedger
