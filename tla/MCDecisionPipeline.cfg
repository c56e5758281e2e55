SPECIFICATION FairSpec
CONSTANTS
  Kinds = {"accepted", "quiet"}
  Relays = {r1}
  BatchMax = 2
  Workers = {w1}
  MaxAttempts = 2
  MaxSeq = 2
  MaxEpoch = 1
  MaxFaults = 2
INVARIANT NoFalseGap
PROPERTIES
  EventuallySettled
CHECK_DEADLOCK FALSE
