CONSTANTS
  ThresholdNum = 3
  ThresholdDen = 5
  File = {1}
  Name = {1, 2}
  Content = {"one", "renamed"}
  FilePrint <- MCFilePrint
  Symbols <- MCSymbols
  Proc = {p1, p2}
  MaxCommits = 2
  MaxCrashes = 1
SPECIFICATION Spec
CHECK_DEADLOCK FALSE
INVARIANTS
  CurrentRecorded
  NothingDangles
  JobsSafe
