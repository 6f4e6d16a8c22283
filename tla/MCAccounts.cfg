SPECIFICATION AccountsSpec
CONSTANTS
  Adapter = {"claude", "codex"}
  File = {"g"}
  Sensitive = {"g"}
  External = {}
  SecretKind = {"key"}
  Model = {"m"}
  MaxCalls = 2
  Floor = "warn"
  MaxLines = 4
  MaxGuards = 1
  Artifact = {"x", "y"}
  NameOf <- MCNameOf
  Rename = "h"
  Outside = "/out"
  Declarable = {{"f"}, {"g", "/out"}}
  Window = 1
  MaxTime = 2
  MaxCommits = 2
  MaxTurns = 2
  Function = {"s"}
  SourceFile = {"x", "y", "z"}
  Folder = {"m", "n"}
  FileOf <- MCFileOf
  FirstFolder <- MCFirstFolder
  Shape = {1, 2}
  Size = {4, 40}
  MinSupport = 1
  MaxCommitFiles = 2
  Commits = {{"x", "y"}, {"x", "y", "z"}}
  Careless = {"x"}
  MaxChanges = 2
  MaxAge = 1
  MaxRuns = 2
  Commit = {1, 2}
  Queried = {{1}, {1, 2}}
  Changed = {"x"}
  Trailers = {2}
  DiffBy <- MCDiffBy
  Agent = {"s"}
  TurnData <- MCTurnData
  Attester = {"p", "q"}
  MaxTold = 2
  MaxAttests = 2
  MaxCopies = 1
  Staged = {"f", "g", "h"}
  Guarded = {"g"}
  ListedAs <- MCListedAs
  WarnOnly = FALSE
  MaxWrites = 4
  MaxGates = 2
INVARIANTS
  SecretsOfTheTurn AuditIsWhatWasSent
  VerdictConverges ChangesHaveTheirAgent
  HotspotsSurface CouplingIsEarned
  AccountsStand TrustedIsOurs
PROPERTIES EveryFindingAlerted GateHolds
CHECK_DEADLOCK FALSE
