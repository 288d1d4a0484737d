SPECIFICATION RelaySpec
CONSTANTS
  m1 = m1
  NoMessage = NoMessage
  Message <- MCMessage
  Slot <- MCSlot
  Lease = 1
  Online = 1
  HeartbeatGap = 0
  MessageTTL = 2
  AckTTL = 1
  MaxClock = 3
INVARIANTS
  NothingAfterPurge
PROPERTIES
  LeaseHonoured
  MailboxSpec
