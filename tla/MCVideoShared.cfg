SPECIFICATION Spec
CONSTANTS
  Conns = {c1, c2}
  Displays = {d1, d2}
  Nobody = Nobody
  MaxQueue = 2
  MaxAcks = 2
  MaxRefreshes = 0
  MaxChanges = 0
  MaxFails = 0
  MaxForgiven = 1
SYMMETRY Symmetry
CONSTRAINT Counted
INVARIANT FlowControlled
CHECK_DEADLOCK FALSE
