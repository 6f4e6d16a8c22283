SPECIFICATION FairSpec
CONSTANTS
  File = {f1}
  SessionOf <- MCSessionOf
  Proc = {p1, p2}
  StrictClock = TRUE
  MaxLines = 3
  MaxPasses = 2
  MaxCrashes = 1
INVARIANTS
  PinsCover
PROPERTIES
  DeliversAtLeastOnce
  PlannedIsRecorded
CHECK_DEADLOCK FALSE
