SPECIFICATION Spec
CHECK_DEADLOCK FALSE
CONSTANTS
  Calls = {c1}
  MaxRuns = 2
  MaxFaults = 2
  NoRow = NoRow
  Cli = Cli
INVARIANTS
  MarkedTokenVerified
