SPECIFICATION InboxSpec
CHECK_DEADLOCK FALSE
CONSTANTS
  e1 = e1
  e2 = e2
  e3 = e3
  r1 = r1
  r2 = r2
  Events = {e1, e2, e3}
  Rules = {r1, r2}
  RuleOf <- MCRuleOf
  SnoozeFor = 2
  Unmuted = Unmuted
  LastHour = 3
  MaxPresses = 2
  MaxRefused = 1
  MaxLost = 0
INVARIANTS
  FailedActionChangesNothing
