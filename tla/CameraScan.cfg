SPECIFICATION ScanFairSpec
CONSTANTS
  c1 = c1
  c2 = c2
  c3 = c3
  QrCodes = {c1, c2, c3}
  Pass <- MCPass
  None = None
  Backends = 2
  ThoroughEvery = 2
  Rearm = 2
  Scenes <- MCScenes
INVARIANTS
  OncePerPresence
PROPERTIES
  SeenIsReported
CHECK_DEADLOCK FALSE
