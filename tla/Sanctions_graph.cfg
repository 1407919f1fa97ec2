SPECIFICATION Spec
CONSTANTS
  Snapshots <- MCSnapshots
  BatchSize = 2
  Picked = 2
  PerTier = 2
  MaxLoads = 3
CHECK_DEADLOCK FALSE
INVARIANTS GraphTypeOK NeverTooNear ScreenedExactly
PROPERTIES ReloadChangesNothing
