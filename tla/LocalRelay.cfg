SPECIFICATION Spec
CONSTANTS
  d1 = d1
  d2 = d2
  m1 = m1
  m2 = m2
  m3 = m3
  Devices = {d1, d2}
  Messages = {m1, m2, m3}
  Device <- MCDevice
  Requests <- MCRequests
  None = None
  MessageTtl = 1
  AckTtl = 1
  MaxSkew = 1
  MaxTime = 2
  Scenarios <- MCScenarios
INVARIANTS
  RepliesAreTrue
  AskedOnce
  NewestIsReached
PROPERTY HandoverSpec
CHECK_DEADLOCK FALSE
