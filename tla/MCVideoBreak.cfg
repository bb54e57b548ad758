SPECIFICATION Spec
CONSTANTS
  Conns = {c1}
  Displays = {d1, d2}
  Nobody = Nobody
  MaxQueue = 2
  MaxAcks = 2
  MaxRefreshes = 0
  MaxChanges = 0
  MaxFails = 0
  MaxForgiven = 0
PROPERTY BreakMeansReceived
CHECK_DEADLOCK FALSE
