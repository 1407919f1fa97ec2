SPECIFICATION ApiSpec
CONSTANTS
  Txns = {t1, t2, t3}
  BufferSize = 2
  MaxReports = 1
  PruneCount = 1
  FetchRetries = 1
  MaxPublished = 3
  MaxFailures = 1
  Window = 1
  MaxSeen = 2
  KeepSeen = 1
  Actions = {AUTHORIZE}
  MaxAlerts = 1
  MaxDecisions = 1
SYMMETRY Symmetry
CHECK_DEADLOCK FALSE
INVARIANTS ApiTypeOK QueuedCanBeResolved FailedWasReread StreamMissesOnlyOverrun SentOncePerPruning
