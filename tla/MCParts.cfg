SPECIFICATION Spec
CHECK_DEADLOCK FALSE
CONSTANTS
  FreshFor = 1
  StalledAfter = 1
  TrendFor = 2
  MaxTime = 4
  MaxSnaps = 3
  a1 = a1
  a2 = a2
  s1 = s1
  f1 = f1
  o1 = o1
  Accounts = {a1, a2}
  Securities = {s1, f1}
  OptionIds = {o1}
  ClassOf <- MCClassOf
  Prices = {9}
  Marks = {5}
  Portfolios <- MCPortfolios
  Roundings = {1, 3}
  Amounts = {5}
  DayLength = 6
  CloseTick = 4
  BoundarySpan = 1
  FirstInstant = 4
  LastInstant = 8
  MaxEvents = 2
  MaxSnapshots = 2
  Tolerance = 2
  Unknown = Unknown
  WalkedYears <- MCYears
  MinuteMarks <- MCMinuteMarks
  k1 = k1
  k2 = k2
  Readers = {r1, r2}
  Cursors = {k1, k2}
  FirstPage = FirstPage
  NoMore = NoMore
  MaxAttempts = 3
  MaxFaults = 2
  e1 = e1
  e2 = e2
  Events = {e1, e2}
  Rules = {e1, e2}
  RuleOf <- MCRuleOf
  SnoozeFor = 2
  Unmuted = Unmuted
  LastHour = 3
  MaxPresses = 2
  MaxRefused = 1
  MaxLost = 1
  fileA = fileA
  fileB = fileB
  ImportFiles = {fileA, fileB}
  OfferedRows <- MCOfferedRows
  NoFile = NoFile
  MaxUploads = 2
  MaxConfirms = 2
  MaxErrors = 1
  MaxText = 5
  Texts <- MCTexts
  MaxColumns = 2
  MaxRows = 2
  MaxCell = 2
  Required <- MCRequired
  w1 = w1
  w2 = w2
  OwnerSessions = {w1, w2}
  StrangerSessions = {x1}
  SignedOut = SignedOut
  NoPasskey = NoPasskey
  PasskeyFor = 1
  LastMoment = 2
  MaxCalls = 2
  MaxChanges = 1
  MaxFailed = 1
INVARIANTS
  TrendMeetsHeadline
  LiveIsFresh
  FiguresAgree
  ChangesAreGains
  CalendarHolds
  ReadsSound
  SettledScreenTrue
  ImportScreenHonest
  ReadsAsWritten
  RequestsSound
