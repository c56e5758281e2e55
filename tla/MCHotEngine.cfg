SPECIFICATION Spec
CONSTANTS
  Users = {u1, u2}
  NoUser = nobody
  Keys = {k1, k2}
  AutoKeys = {a1}
  Calls = {c1, c2}
  Amounts = {2, 4, 6, 8}
  StartPrice = 0
  Increment = 2
  Cap = 6
  Threshold = 4
  FirstEnd = 0
  ExtendWindow = 1
  ExtendBy = 1
  MaxExtend = 1
  TokenTTL = 0
  MaxTime = 1
  MaxSeq = 2
  MaxEpoch = 2
SYMMETRY Symmetric
INVARIANTS
  OneDecisionPerKey
  StateIsLog
  EndIsBounded
  PricesAreFair
CHECK_DEADLOCK FALSE
