SPECIFICATION Spec
CONSTANTS
  Txns = {t1, t2}
  BufferSize = 1
  MaxReports = 2
  PruneCount = 1
  FetchRetries = 1
  MaxPublished = 3
  MaxFailures = 1

CHECK_DEADLOCK FALSE
INVARIANT NothingFailedMeansAllSigned
