SPECIFICATION Spec
CONSTANTS
  Txns = {t1, t2}
  RingSize = 1
  LoadMayFail = FALSE
  ConnectMayFail = FALSE
  MaxAdds = 3
  MaxCrashes = 1
  MaxDecisions = 1
SYMMETRY Symmetry
CHECK_DEADLOCK FALSE
INVARIANTS CountsConserved
PROPERTIES DurableHeadOnlyExtends ImplementsDurableLog
