---------------------------- MODULE SnapshotData ----------------------------
(***************************************************************************)
(* The data a refresh collects and promotes: a candidate stands for all    *)
(* that buildSnapshotPromotion makes of one round of provider answers.     *)
(* Its amounts are abstracted to what the promotion and the next refresh   *)
(* look at: its valuation time, the accounts it covers, their status and   *)
(* whether their total is non-zero.  A candidate is its own fingerprint.   *)
(***************************************************************************)
EXTENDS Naturals

CONSTANTS
  Accounts,    \* stable account keys
  Candidates,  \* the candidates the provider's answers can lead to
  NoCand       \* no candidate

AccountStates == [status : {"active", "closed"}, nonzero : BOOLEAN]

ASSUME CandidateAssumption ==
  \A c \in Candidates :
    /\ c.asOf \in Nat
    /\ DOMAIN c.accts \subseteq Accounts
    /\ \A a \in DOMAIN c.accts : c.accts[a] \in AccountStates

ASSUME NoCandAssumption == NoCand \notin Candidates

Covered(c) == DOMAIN c.accts

\* Accounts that may not be missing from the refresh after c was promoted.
Retained(c) ==
  {a \in Covered(c) : c.accts[a].status = "active" \/ c.accts[a].nonzero}
=============================================================================
