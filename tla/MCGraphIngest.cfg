CONSTANTS
  ThresholdNum = 3
  ThresholdDen = 5
  File = {1, 2}
  Name = {1, 2}
  Content = {"one", "renamed", "both"}
  FilePrint <- MCFilePrint
  Symbols <- MCSymbols
  Proc = {p1}
  MaxCommits = 2
  MaxCrashes = 1
SPECIFICATION Spec
CHECK_DEADLOCK FALSE
INVARIANTS
  TypeOK
  UniqueFilePath
  HeadIsKnown
  FirstRunIsExact
  CrashTearsOne
PROPERTIES
  AppendOnlyVersions
