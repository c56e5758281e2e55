SPECIFICATION Spec
CONSTANTS
  Kinds = {"accepted", "sold", "quiet"}
  Workers = {w1, w2}
  MaxAttempts = 2
  MaxSeq = 2
  MaxLog = 2
  MaxEpoch = 3
  MaxFaults = 2
SYMMETRY Symmetric
CONSTRAINT Bound
INVARIANTS
  SettlementTypeOK
  SettledInOrder
  ReconcilerFindsNothing
  CheckpointIsComplete
  CheckerFindsNothing
CHECK_DEADLOCK FALSE
