-------------------------- MODULE MCSnapshotBuild --------------------------
(***************************************************************************)
(* Small portfolios for SnapshotBuild.  The close is at minute 1000; the   *)
(* stock last traded at the close, in the regular session or after it.     *)
(***************************************************************************)
EXTENDS SnapshotBuild, TLC

CONSTANTS a1, a2, s1, o1

MCAccounts == {a1, a2}
MCMultiplier == [o \in OptionIds |-> 100]

Trades(regular, extended) ==
  [x \in Symbols |-> [regular |-> regular, extended |-> extended]]

At(p, t) == [price |-> p, at |-> t]

\* The second account: a stock, an option with other assets, a closed one
\* that still holds money, a closed one that is empty.
Others ==
  {[status |-> "active", cash |-> 0, other |-> 0, s |-> 1, o |-> 0],
   [status |-> "active", cash |-> 300, other |-> 30, s |-> 0, o |-> 1],
   [status |-> "closed", cash |-> 500, other |-> 0, s |-> 0, o |-> 0],
   [status |-> "closed", cash |-> 0, other |-> 0, s |-> 0, o |-> 0]}

Market == {Trades(At(100, 999), NoPrint), Trades(At(100, 1000), NoPrint),
           Trades(At(103, 999), At(100, 1004))}

MCWorlds ==
  {[status |-> a1 :> "active" @@ a2 :> other.status,
    cash |-> a1 :> 40000 @@ a2 :> other.cash,
    other |-> a1 :> 0 @@ a2 :> other.other,
    shares |-> a1 :> (s1 :> 1) @@ a2 :> (s1 :> other.s),
    contracts |-> a1 :> (o1 :> 0) @@ a2 :> (o1 :> other.o),
    price |-> s1 :> 100, mark |-> o1 :> 2, trades |-> trades]
   : other \in Others, trades \in Market}
=============================================================================
