SPECIFICATION Spec
CONSTANTS
  p1 = p1
  p2 = p2
  none = none
  Process = {p1, p2}
  NoProcess = none
  Scenarios <- MCScenarios
  MaxDue = 1
SYMMETRY ProcessSymmetry
CHECK_DEADLOCK FALSE
INVARIANTS
  HandlesAreTrue
  NeverVanishes
  StopIsAsked
