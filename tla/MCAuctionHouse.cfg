SPECIFICATION FairSpec
CONSTANTS
  Runners = {r1}
  PayKeys = {}
  MaxAttempts = 2
  MaxFaults = 1
  MaxClock = 3
  PayTime = 1
  Duration = 1
  MaxEnd = 2
  MaxBids = 2
INVARIANTS
  WinnerIsLast
  CheckerFindsNothing
  NarratingStops
PROPERTY ActiveEnds
CHECK_DEADLOCK FALSE
