SPECIFICATION Spec
CONSTANTS
  Accounts = {a1, a2}
  TxnKinds <- MCTxnKinds
  MaxTime = 5
  WindowSeconds = 2
  MaxAccounts = 1
  BenfordWindow = 2
  SpikeAt = 2
  BurstAt = 3
  MaxScored = 4
SYMMETRY Symmetry
CHECK_DEADLOCK FALSE
INVARIANTS IntentTypeOK CountExactAtNewest MissedMeansDegraded QuarantineExplained
