\* One connection and two displays, failures; the privacy mode of two peers.
SPECIFICATION ScreenSpec
CONSTANTS
  Conns = {c1}
  Displays = {d1, d2}
  Nobody = Nobody
  MaxQueue = 1
  MaxAcks = 1
  MaxRefreshes = 0
  MaxChanges = 0
  MaxFails = 1
  MaxForgiven = 0
  Peers = {p1, p2}
  InvalidConn = InvalidConn
  MaxLate = 1
INVARIANTS ScreenTypeOK MachineFreed PeerKnows
PROPERTY WaitEnds
CHECK_DEADLOCK FALSE
