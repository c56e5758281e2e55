CONSTANTS
  Users = {1, 2, 3}
  Cap = 4
  MaxRounds = 3
  MaxRequests = 2
SPECIFICATION HotLaneSpec
INVARIANTS
  ProxiesServed
  PauseNeedsRivals
PROPERTIES
  ProxyIsFrugal
  CancelledNeverBids
CHECK_DEADLOCK FALSE
