SPECIFICATION FairSpec
CONSTANTS
  Kinds = {"accepted"}
  Relays = {r1, r2}
  BatchMax = 2
  MaxSeq = 3
  MaxEpoch = 2
  MaxFaults = 2
CONSTRAINT Bound
INVARIANTS
  RelayTypeOK
  HolesAreShort
  NothingSkipped
  PendingCovers
PROPERTY EventuallyDurable
