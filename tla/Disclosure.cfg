SPECIFICATION Spec
CONSTANTS
  N = 2
  K = 2
  Q = 17
  AmountBits = 2
  Nibbles <- MCNibbles
  Candidates <- MCCandidates
  Txns = {1, 2}
  Amounts = {1, 3, 4}
  BufferSize = 1
  MaxPublished = 2
  MaxRestarts = 2
CHECK_DEADLOCK FALSE
INVARIANTS TypeOK HonestOpeningAccepted AcceptedIsCommitted TraceAgrees PassedCanBeOpened
