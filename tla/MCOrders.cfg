SPECIFICATION OrdersSpec
CONSTANTS
  Runners = {r1, r2}
  PayKeys = {k1, k2}
  MaxAttempts = 2
  MaxFaults = 1
  MaxClock = 2
  PayTime = 1
INVARIANTS
  MoneyIsAccounted
  DepositFollowsOrder
PROPERTIES
  OrderIsFinal
  OrderCloses
CHECK_DEADLOCK FALSE
