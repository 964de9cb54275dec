SPECIFICATION Spec
CHECK_DEADLOCK FALSE
CONSTANTS
  f1 = f1
  f2 = f2
  bad = bad
  noId = noId
  Users = {u1, u2}
  Accounts = {a1, a2}
  Files = {f1, f2}
  RowsOf <- MCRowsOf
  Bad = bad
  NoId = noId
  Calls = {c1, c2, c3, c4}
  None = None
  ListsConfirmed = TRUE
  MaxFaults = 1
SYMMETRY Symmetry
INVARIANTS
  OnePreviewPerFile
  OfferedRowsApart
  NothingConfirmedTwice
  AnswersHold
  EvidenceKept
  OwnersApart
PROPERTIES
  DeletionSticks
