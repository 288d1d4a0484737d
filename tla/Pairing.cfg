SPECIFICATION FairSpec
CONSTANTS
  a = a
  b = b
  Origins = {home}
  Home = home
  DeviceIds = {d1, d2, d3}
  PairIds = {i1}
  Sessions = {}
  NoSession = NoSession
  None = None
  Phones = {a, b}
  Requests <- MCRequests
  Ttl = 1
  MaxTries = 2
  Budgets <- MCBudgets
INVARIANTS
  EndedIsUnpaired
  SavedIsStored
  ApprovedIsComplete
PROPERTIES
  PairingEnds
  IntroductionSpec
CHECK_DEADLOCK FALSE
