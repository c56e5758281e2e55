SPECIFICATION Spec
CONSTANTS
  None = None
  Requests = {q1, q2, q3}
  Bidders = {u1, u2}
  UserLimit = 1
  AuctionLimit = 2
  Window = 1
  InFlight = 2
  MaxNow = 1
  MaxSpent = 1
SYMMETRY Symmetry
INVARIANTS DecidedOnce PermitsMatchRequests RateBounded AcksAreTrue
CHECK_DEADLOCK FALSE
