SPECIFICATION AloneSpec
CONSTANTS
  Conns = {c1, c2}
  Displays = {d1}
  Nobody = Nobody
  MaxQueue = 1
  MaxAcks = 2
  MaxRefreshes = 1
  MaxChanges = 1
  MaxFails = 1
  MaxForgiven = 1
INVARIANT RefreshNotLost
PROPERTIES AloneBreakMeansReceived RefreshServed
CHECK_DEADLOCK FALSE
