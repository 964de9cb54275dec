------------------------------ MODULE MCAlerts ------------------------------
(***************************************************************************)
(* Two accounts, one of them with the share.  A move of the price and a    *)
(* deposit change the total by the same amount, so that an alert that does *)
(* not tell them apart shows.                                              *)
(***************************************************************************)
EXTENDS Alerts, TLC

MCThreshold ==
  [k \in Kinds |-> CASE k = "concentration_threshold" -> 60
                     [] k \in RatioKinds -> 25
                     [] k = "stale_sync" -> 2
                     [] k = "cash_threshold" -> 60
                     [] OTHER -> 40]

Form(k, s) == [kind |-> k, scope |-> s]

\* A rule on the movement, and one whose evaluation always fails.
MCRuleForms == {Form("portfolio_percentage_move", "portfolio"),
                Form("cash_threshold", "malformed")}

Sort(c, m, e) == [complete |-> c, mixed |-> m, close |-> e]

\* Taken at the close, or amid options whose details are not known.
MCSorts == {Sort(TRUE, FALSE, TRUE), Sort(FALSE, FALSE, FALSE)}

\* One rule on the movement while the world moves, or the worker's failures
\* and the owner's acts on all rules, with one slot to go.
MCInit ==
  /\ Init
  /\ traded = now
  /\ \/ /\ now = 1 /\ acts = MaxActs /\ faults = MaxFaults
        /\ \E r \in RuleIds :
             /\ rules[r] = NewRule(Form("portfolio_percentage_move",
                                       "portfolio"), 0)
             /\ \A q \in RuleIds \ {r} : rules[q] = NoRule
     \/ now = MaxTime - 1 /\ acts = 0 /\ faults = 0

MCSpec == MCInit /\ [][Next]_vars

Symmetry == Permutations(RuleIds)
=============================================================================
