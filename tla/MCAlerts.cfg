SPECIFICATION MCSpec
CHECK_DEADLOCK FALSE
CONSTANTS
  Accounts = {a1, a2}
  Holder = a1
  Prices = {100, 150}
  StartCash = 50
  Amounts = {50}
  RuleIds = {r1, r2}
  RuleForms <- MCRuleForms
  Threshold <- MCThreshold
  Sorts <- MCSorts
  MaxSkew = 1
  MaxSnaps = 3
  MaxTime = 3
  MaxDeposits = 1
  MaxActs = 1
  MaxFaults = 1
  NoRule = NoRule
  NoCand = NoCand
SYMMETRY Symmetry
INVARIANTS
  EvaluatedOrAudited
  HeartbeatAttestsAlerts
  AlertsSeeMarketMoves
