SPECIFICATION Spec
CHECK_DEADLOCK FALSE
CONSTANTS
  a1 = a1
  a2 = a2
  Users = {u1, u2}
  Workers = {w1}
  NoWorker = NoWorker
  Lease = 1
  Accounts <- MCAccounts
  Candidates <- ManyCandidates
  NoCand = NoCand
  RunIds = {r1, r2, r3, r4}
  NoUser = NoUser
  NoRun = NoRun
  MaxRequests = 4
  MaxFaults = 0
SYMMETRY Symmetry
INVARIANTS
  ActiveAccountsShown
PROPERTIES
  ImplementsLedger
