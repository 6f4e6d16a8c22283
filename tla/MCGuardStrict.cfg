SPECIFICATION EgressSpec
CONSTANTS
  Adapter = {"claude"}
  File = {"g"}
  Sensitive = {}
  External = {}
  SecretKind = {"key"}
  Model = {"m"}
  MaxCalls = 2
  Floor = "critical"
  MaxLines = 6
  MaxGuards = 0
INVARIANT StrictSeesEverySecret
CHECK_DEADLOCK FALSE
