SPECIFICATION Spec
CHECK_DEADLOCK FALSE
CONSTANTS
  Calendar <- OneDay
  DaySlots = 288
  Open = 114
  Close = 192
  EarlyClose = 156
  ExtendedOpen = 84
  ExtendedClose = 240
  SessionInterval = 3
  OffInterval = 12
  Grace = 1
  CheckpointWindow = 12
  MaxSkew = 0
  SessionAge = 0
  ExtendedAge = 3
  QuoteLags = {0}
  MaxWait = 0
  MaxFaults = 1
  MaxManuals = 0
  Never = Never
INVARIANTS
  NextAvailableClose
