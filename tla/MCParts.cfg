SPECIFICATION PartsSpec
CONSTANTS
  Session = {s1}
  CommitTask = {k}
  Content = {a, b}
  Writer = {p1, p2}
  Configured = "nomic"
  Nomic = "nomic"
  Offline = "local"
  DimOf <- MCDimOf
  MaxRows = 2
  MaxCommands = 3
  MaxKills = 1
  Opener = {p1, p2}
  Mode = {"sealed", "clear"}
  Place = {"default", "explicit"}
  MaxOpens = 3
  MaxFalls = 1
  Path = {f, g}
  Text = {a, b}
  MaxEdits = 2
  MaxWatches = 2
  MaxRewinds = 1
  MaxFailures = 1
  MaxSymbols = 8
  MaxDepth = 2
  MaxWords = 3
  MaxQuirks = 0
  Extension = {"py", "js", "rs", "txt"}
  MaxNodes = 4
  ShingleK = 3
  DepthLimit = 3
  Value = {"anthropic_key", "aws_access_key", "blob", "plain", "short"}
  UserPattern = {"plain"}
  MaxText = 3
  Turn = {"t", "u"}
  TextOf <- MCTextOf
  TouchedBy <- MCTouchedBy
  LongText = {}
  Runner = {"p", "q"}
  MaxRuns = 3
  MaxFaults = 1
INVARIANTS
  MissingIsPurged NoVectorSurvives OneDimension
  NoKeyLost WholeOrBeingWritten
  QuietIsObserved ManifestIsCheckpoint RewindIsReversible
  PlainLinesExact
  PrintTellsShape PathsNameTheirScopes
  NothingRecognisedStays
  PaidOnce
SYMMETRY PartsSymmetry
CHECK_DEADLOCK FALSE
