CONSTANTS
  ThresholdNum = 3
  ThresholdDen = 5
  File = {1}
  Name = {1, 2}
  Content = {"one", "renamed", "both"}
  FilePrint <- MCFilePrint
  Symbols <- MCSymbols
  Proc = {p1}
  MaxCommits = 3
  MaxCrashes = 0
SPECIFICATION Spec
CHECK_DEADLOCK FALSE
INVARIANTS NoNodeUsedTwice
