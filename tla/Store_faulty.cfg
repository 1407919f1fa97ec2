SPECIFICATION Spec
CONSTANTS
  Txns = {t1, t2, t3}
  RingSize = 2
  LoadMayFail = TRUE
  ConnectMayFail = TRUE
  MaxAdds = 4
  MaxCrashes = 1
  MaxDecisions = 0
SYMMETRY Symmetry
CHECK_DEADLOCK FALSE
INVARIANTS TypeOK RecordsLinked HeadNeverAheadOfLedger HotOnOneChain NoFalseAlarm
