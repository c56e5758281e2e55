SPECIFICATION Spec
CONSTANTS
  Kinds = {"accepted"}
  Relays = {r1}
  BatchMax = 2
  Workers = {w1}
  MaxAttempts = 2
  MaxSeq = 2
  MaxEpoch = 2
  MaxFaults = 1
  MaxLog = 3
CONSTRAINT LogBound
INVARIANT AckedIsAccounted
PROPERTIES
  ImplementsLedger
CHECK_DEADLOCK FALSE
