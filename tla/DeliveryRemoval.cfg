SPECIFICATION FairSpec
CHECK_DEADLOCK FALSE
CONSTANTS
  m1 = m1
  m2 = m2
  u1 = u1
  NoMessage = NoMessage
  NoLink = NoLink
  Message <- MCOneMessage
  Link <- MCOneLink
  Slot <- MCSlot
  Lease = 1
  Online = 3
  HeartbeatGap = 3
  Removable = TRUE
  MessageTTL = 0
  AckTTL = 1
  MaxClock = 2
  MaxFaults = 1
PROPERTY OnItsWayResolves
INVARIANTS RemovedIsEmpty
PROPERTY ClientsFit
