SPECIFICATION FairSpec
CONSTANTS
  MaxMessages = 4
  MaxFailures = 3
INVARIANTS
  SignalsAreTrue
  StoredBeforeUse
PROPERTIES
  EverythingIsPolled
CHECK_DEADLOCK FALSE
