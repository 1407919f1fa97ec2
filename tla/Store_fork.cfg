SPECIFICATION Spec
CONSTANTS
  Txns = {t1, t2}
  RingSize = 2
  LoadMayFail = FALSE
  ConnectMayFail = FALSE
  MaxAdds = 3
  MaxCrashes = 1
  MaxDecisions = 0
SYMMETRY Symmetry
CHECK_DEADLOCK FALSE
INVARIANT NoFork
