SPECIFICATION Spec
CHECK_DEADLOCK FALSE
CONSTANTS
  a1 = a1
  a2 = a2
  s1 = s1
  o1 = o1
  Accounts <- MCAccounts
  Symbols = {s1}
  Supported = {s1}
  OptionIds = {o1}
  Multiplier <- MCMultiplier
  Worlds <- MCWorlds
  Prices = {100, 103}
  Marks = {2, 3}
  Amount = 50
  NoPrint = NoPrint
  NoCandidate = NoCandidate
  PreviousClose = 0
  CloseAt = 1000
  Starts = {999, 1004, 1300}
  MaxMoves = 1
  MaxTicks = 2
INVARIANTS
  ExactWhenUntouched
  SingleMoveSeenWhole
  PricedTogether
  QuotesNeverStale
