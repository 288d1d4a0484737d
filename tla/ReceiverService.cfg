SPECIFICATION FairSpec
CONSTANTS
  o1 = o1
  o2 = o2
  Origins = {o1, o2}
  DeviceIds = {d1, d2}
  PairIds = {p1, p2}
  Sessions <- MCSessions
  NoSession = NoSession
  NoGroup = NoGroup
  MaxRotations = 1
  Bounds <- MCBounds
INVARIANTS
  RefreshIsKept
  ReportsAreTrue
PROPERTIES
  RefreshIsServed
CHECK_DEADLOCK FALSE
