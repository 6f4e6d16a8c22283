SPECIFICATION Spec
CONSTANTS
  File = {f1}
  SessionOf <- MCSessionOf
  Proc = {p1}
  StrictClock = TRUE
  MaxLines = 2
  MaxPasses = 2
  MaxCrashes = 0
INVARIANTS
  NoDeclarationLost
CHECK_DEADLOCK FALSE
