SPECIFICATION DeliverySpec
CONSTANTS
  None = None
  Relays = {r1, r2}
  Server = r1
  Sessions = {s1, s2}
  MaxEvents = 2
  HistoryLimit = 2
  RecoveryMax = 2
  QueueLimit = 1
  MaxSpent = 2
INVARIANTS SessionMissesNothing
PROPERTIES PublishedInOrder EventuallyDelivered
CHECK_DEADLOCK FALSE
