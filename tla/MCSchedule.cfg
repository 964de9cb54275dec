SPECIFICATION Spec
CHECK_DEADLOCK FALSE
CONSTANTS
  Calendar <- WithDaysOff
  DaySlots = 64
  Open = 15
  Close = 40
  EarlyClose = 37
  ExtendedOpen = 10
  ExtendedClose = 60
  SessionInterval = 6
  OffInterval = 30
  Grace = 3
  CheckpointWindow = 18
  MaxSkew = 2
  SessionAge = 2
  ExtendedAge = 5
  QuoteLags = {0, 2}
  MaxWait = 1
  MaxFaults = 1
  MaxManuals = 1
  Never = Never
INVARIANTS
  CheckpointNotAhead
  CloseCheckpointTaken
  KeptFreshInSession
  CheckpointIsCloseValued
  EveryDayRefreshed
