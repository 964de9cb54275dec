---------------------------- MODULE MCImportFlow ----------------------------
(***************************************************************************)
(* Two files that share a transaction id and have look-alike rows without *)
(* one; the first repeats the id for another amount.                       *)
(***************************************************************************)
EXTENDS ImportFlow, TLC

CONSTANTS f1, f2, bad, noId

Row(sid, like) == [sid |-> sid, like |-> like]

MCRowsOf ==
  f1 :> <<Row("id1", "deposit"), Row(noId, "fee"), Row("id1", "fee")>> @@
  f2 :> <<Row("id1", "deposit"), bad, Row(noId, "fee"), Row(noId, "fee")>>

Symmetry ==
  Permutations(Calls) \cup Permutations(Users) \cup Permutations(Accounts)
=============================================================================
