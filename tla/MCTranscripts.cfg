SPECIFICATION Spec
CONSTANTS
  File = {f1, f2}
  SessionOf <- MCSessionOf
  Proc = {p1}
  StrictClock = FALSE
  MaxLines = 3
  MaxPasses = 3
  MaxCrashes = 1
INVARIANTS
  NothingSkipped
  RepeatsAreCrashes
  DanglingIsReread
  EmbeddedIsRecorded
PROPERTIES
  CursorAdvances
CHECK_DEADLOCK FALSE
SYMMETRY Files
