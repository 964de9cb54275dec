-------------------------- MODULE MCRefreshWorker --------------------------
(***************************************************************************)
(* A small provider for RefreshWorker.  Account a1 is always active; a2    *)
(* appears, first without money, is closed with money in it, and emptied.  *)
(* Some answers are valued before others that may be promoted first.       *)
(***************************************************************************)
EXTENDS RefreshWorker, TLC

CONSTANTS a1, a2

Active == [status |-> "active", nonzero |-> TRUE]
ActiveEmpty == [status |-> "active", nonzero |-> FALSE]
ClosedFull == [status |-> "closed", nonzero |-> TRUE]
ClosedEmpty == [status |-> "closed", nonzero |-> FALSE]

MCAccounts == {a1, a2}

Alone == [asOf |-> 1, accts |-> (a1 :> Active)]
Opened(t) == [asOf |-> t, accts |-> (a1 :> Active @@ a2 :> Active)]
Unfunded(t) == [asOf |-> t, accts |-> (a1 :> Active @@ a2 :> ActiveEmpty)]
Closed(t) == [asOf |-> t, accts |-> (a1 :> Active @@ a2 :> ClosedFull)]
Emptied(t) == [asOf |-> t, accts |-> (a1 :> Active @@ a2 :> ClosedEmpty)]

\* For runs about workers getting in each other's way.
FewCandidates == {Alone, Opened(1), Opened(2)}

\* For runs about long sequences of refreshes.
ManyCandidates ==
  {Alone, Unfunded(1), Opened(1), Opened(2), Closed(2), Emptied(2), Emptied(3)}

\* For the run about time.
OneCandidate == {Alone}

Symmetry ==
  Permutations(Users) \cup Permutations(Workers) \cup Permutations(RunIds)
=============================================================================
