SPECIFICATION FairSpec
CHECK_DEADLOCK FALSE
CONSTANTS
  p1 = p1
  p2 = p2
  m1 = m1
  m2 = m2
  m3 = m3
  NoProcess = NoProcess
  Process <- MCProcess
  Message <- MCMessage
  Expiry <- MCExpiry
  MaxRecords = 2
  MaxAhead = 2
  MaxClock = 4
INVARIANTS
  AcceptedOnceInWindow
  AcceptedIsRemembered
  LedgerBounded
PROPERTIES
  UnexpiredNeverLost
  WriterReturns
  GuardSpec
