SPECIFICATION Spec
CHECK_DEADLOCK FALSE
SYMMETRY Symmetry
CONSTANTS
  m1 = m1
  m2 = m2
  u1 = u1
  NoMessage = NoMessage
  NoLink = NoLink
  Message <- MCMessage
  Link <- MCOneLink
  Slot <- MCSlot
  Lease = 1
  Online = 3
  HeartbeatGap = 3
  Removable = FALSE
  MessageTTL = 1
  AckTTL = 1
  MaxClock = 3
  MaxFaults = 1
INVARIANTS
  PromptOnce
  AcceptedIsPrompted
  OneOnItsWay
  ReceiptIsTrue
PROPERTY HandoverSpec
