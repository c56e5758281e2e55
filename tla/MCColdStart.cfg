SPECIFICATION LossySpec
CONSTANTS
  None = None
  Requests = {q1, q2}
  Bidders = {u1, u2}
  UserLimit = 1
  AuctionLimit = 2
  Window = 2
  InFlight = 2
  MaxNow = 0
  MaxSpent = 1
SYMMETRY Symmetry
PROPERTIES SeedIsComplete
CHECK_DEADLOCK FALSE
