SPECIFICATION Spec
CHECK_DEADLOCK FALSE
CONSTANTS
  a1 = a1
  a2 = a2
  Users = {u1}
  Workers = {w1, w2}
  NoWorker = NoWorker
  Lease = 2
  Accounts <- MCAccounts
  Candidates <- FewCandidates
  NoCand = NoCand
  RunIds = {r1, r2, r3}
  NoUser = NoUser
  NoRun = NoRun
  MaxRequests = 2
  MaxFaults = 2
SYMMETRY Symmetry
INVARIANTS
  IndInv
  PromoterOwnsJob
PROPERTIES
  RunOutcomesFinal
  ImplementsJobLease
