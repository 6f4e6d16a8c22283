SPECIFICATION SummariesSpec
CONSTANTS
  Turn = {"t", "u"}
  TextOf <- MCTextOf
  TouchedBy <- MCTouchedBy
  LongText = {}
  Runner = {"p"}
  MaxRuns = 3
  MaxFaults = 0
INVARIANT SummaryOfItsTurn
CHECK_DEADLOCK FALSE
