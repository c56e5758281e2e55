SPECIFICATION Spec
CONSTANTS
  None = None
  Workers = {w1, w2}
  WorkerId <- SharedId
  BatchSize = 1
  MaxAttempts = 3
  MaxEvents = 2
  MaxSpent = 2
PROPERTIES EventuallyCommented FinishedStaysFinished
CHECK_DEADLOCK FALSE
