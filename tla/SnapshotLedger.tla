--------------------------- MODULE SnapshotLedger ---------------------------
(***************************************************************************)
(* What portfolio_snapshots promises its readers.  A user's ledger only    *)
(* grows, the same data is never promoted twice, and what is shown moves   *)
(* only to the candidate just promoted, never back in valuation time and   *)
(* never to one that lost an account the previous one still held.          *)
(***************************************************************************)
EXTENDS SnapshotData

CONSTANT Users

VARIABLES
  ledger,  \* the promotions that ever happened, as pairs <<user, candidate>>
  shown    \* what each user's read model shows

Init ==
  /\ ledger = {}
  /\ shown = [u \in Users |-> NoCand]

Promote(u, c) ==
  /\ <<u, c>> \notin ledger
  /\ shown[u] # NoCand => /\ shown[u].asOf <= c.asOf
                          /\ Retained(shown[u]) \subseteq Covered(c)
  /\ ledger' = ledger \cup {<<u, c>>}
  /\ shown' = [shown EXCEPT ![u] = c]

Next == \E u \in Users, c \in Candidates : Promote(u, c)

Spec == Init /\ [][Next]_<<ledger, shown>>
=============================================================================
