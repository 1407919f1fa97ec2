SPECIFICATION FairSpec
CONSTANTS
  Txns = {t1, t2, t3}
  BufferSize = 2
  MaxReports = 1
  PruneCount = 1
  FetchRetries = 1
  MaxPublished = 3
  MaxFailures = 2
CHECK_DEADLOCK FALSE
INVARIANTS TypeOK BufferedHasReport DashboardIntact EachLinkAcceptedOnce
PROPERTIES CatchesUp
