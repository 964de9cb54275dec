------------------------ MODULE SnapshotBuildProofs ------------------------
(***************************************************************************)
(* Proofs about SnapshotBuild, for any accounts, holdings, prices and      *)
(* changes at the provider: the prices of a promoted snapshot are of one   *)
(* moment, and never stale; an account that nothing touched during the     *)
(* reads is recorded exactly, and one that a single move touched as it was *)
(* before the move or after it.                                            *)
(*                                                                         *)
(* The last two rest on what each read has seen (SeenInv): the state of    *)
(* the provider at some moment of the refresh.  Two reads on two sides of  *)
(* a move disagree by what was traded, which is more than the              *)
(* reconciliation lets pass.                                               *)
(***************************************************************************)
EXTENDS SnapshotBuild, Sums

(***************************************************************************)
(* Least and greatest times.                                               *)
(***************************************************************************)
\* A set of natural numbers has a least one.
LEMMA LeastTime ==
  ASSUME NEW T, T \subseteq Nat, T # {}
  PROVE  Min(T) \in T /\ \A y \in T : Min(T) <= y
BY LeastNatural DEF Min

\* One whose elements have a bound has a greatest one.
LEMMA GreatestTime ==
  ASSUME NEW S, S \subseteq Nat, S # {}, NEW b \in Nat, \A x \in S : x <= b
  PROVE  Max(S) \in S /\ \A y \in S : Max(S) >= y
<1> DEFINE T == {b - x : x \in S}
<1>1. T \subseteq Nat
  <2>1. ASSUME NEW x \in S PROVE b - x \in Nat
    OBVIOUS
  <2> QED
    BY <2>1
<1>2. T # {}
  <2>1. PICK x \in S : TRUE
    OBVIOUS
  <2>2. b - x \in T
    OBVIOUS
  <2> QED
    BY <2>2
<1>3. Min(T) \in T /\ \A y \in T : Min(T) <= y
  BY <1>1, <1>2, LeastTime
<1>4. PICK x \in S : Min(T) = b - x
  BY <1>3
<1>5. \A y \in S : x >= y
  <2> TAKE y \in S
  <2>1. Min(T) <= b - y
    BY <1>3
  <2> QED
    BY <1>4, <2>1
<1> QED
  BY <1>5 DEF Max

(***************************************************************************)
(* The invariant.                                                          *)
(***************************************************************************)
TypeOK ==
  /\ world \in ProviderStates
  /\ clock \in Nat /\ ticks \in 0..MaxTicks
  /\ pc \in {"accounts", "reading", "options", "building", "failed",
             "rejected", "promoted"}

\* Every read has a time, and the accounts were listed since the beginning.
ReadsTimed ==
  /\ \A a \in DOMAIN accounts :
       /\ accounts[a].sourceAsOf \in Nat
       /\ accounts[a].sourceAsOf <= clock
       /\ clock - accounts[a].sourceAsOf <= ticks
  /\ \A a \in DOMAIN portfolios : portfolios[a].sourceAsOf \in Nat
  /\ \A a \in DOMAIN equities : DOMAIN equities[a].rows \subseteq Symbols
  /\ \A x \in DOMAIN quotes : quotes[x].sourceAsOf \in Nat

\* What has been read of which account, and the quotes, of every position.
ReadInOrder ==
  /\ pc = "accounts" => DOMAIN portfolios = {} /\ DOMAIN equities = {}
  /\ DOMAIN options \subseteq DOMAIN equities
  /\ DOMAIN equities \subseteq DOMAIN portfolios
  /\ pc # "accounts" => DOMAIN portfolios \subseteq DOMAIN accounts
  /\ pc \in {"options", "building", "promoted"} =>
       /\ DOMAIN options = DOMAIN accounts
       /\ DOMAIN quotes =
            UNION {DOMAIN equities[a].rows : a \in DOMAIN equities}

\* A promoted candidate is the one built when the policy found it fresh.
Promoted ==
  pc = "promoted" =>
    /\ Listed # {} /\ Fresh(clock)
    /\ candidate.receivedAt = clock /\ candidate.quotes = quotes
    /\ candidate.asOf = Min(ValuationTimes(clock))
    /\ candidate.quoteFreshness = QuoteFreshness(clock)

IndInv == TypeOK /\ ReadsTimed /\ ReadInOrder /\ Promoted

LEMMA ConstantTypes ==
  /\ PreviousClose \in Nat /\ CloseAt \in Nat /\ Starts \subseteq Nat
  /\ MaxTicks \in Nat /\ MaxTicks <= 1438 /\ Prices \subseteq Int
  /\ Marks \subseteq Int /\ Amount \in Int /\ Worlds \subseteq ProviderStates
  /\ NoPrint \notin Prints
BY SessionAssumption, ProviderAssumption, RefreshTimeAssumption

LEMMA InitInv == Init => IndInv
<1> SUFFICES ASSUME Init PROVE IndInv
  OBVIOUS
<1>1. TypeOK
  BY ConstantTypes DEF Init, TypeOK
<1>2. /\ DOMAIN accounts = {} /\ DOMAIN portfolios = {}
      /\ DOMAIN equities = {} /\ DOMAIN options = {} /\ DOMAIN quotes = {}
  BY DEF Init, Nothing
<1>3. ReadsTimed
  BY <1>2 DEF ReadsTimed
<1>4. ReadInOrder /\ Promoted
  BY <1>2 DEF Init, ReadInOrder, Promoted
<1> QED
  BY <1>1, <1>3, <1>4 DEF IndInv

\* What the refresh knows does not change when the provider moves.
LEMMA MoveKeeps ==
  ASSUME IndInv, NEW next \in ProviderStates, NEW changed, Move(next, changed)
  PROVE  IndInv'
<1>1. TypeOK'
  BY DEF Move, IndInv, TypeOK
<1>2. ReadsTimed'
  BY DEF Move, IndInv, ReadsTimed, answers
<1>3. ReadInOrder'
  BY DEF Move, IndInv, ReadInOrder, answers
<1>4. Promoted'
  BY DEF Move, Reading, Promoted
<1> QED
  BY <1>1, <1>2, <1>3, <1>4 DEF IndInv

(***************************************************************************)
(* The provider's moves: what it holds stays what a provider may hold, one *)
(* thing changes, and nothing happens to the other accounts.               *)
(***************************************************************************)
\* n shares of x bought in account a, or sold if n is negative.
Exchanged(v, w, a, x, n) ==
  /\ w.shares[a][x] = v.shares[a][x] + n
  /\ w.cash[a] = v.cash[a] - n * v.price[x]
  /\ \A y \in Symbols \ {x} : w.shares[a][y] = v.shares[a][y]
  /\ \A b \in Accounts \ {a} : /\ w.shares[b] = v.shares[b]
                               /\ w.cash[b] = v.cash[b]
  /\ w.other = v.other /\ w.contracts = v.contracts
  /\ w.price = v.price /\ w.mark = v.mark /\ w.trades = v.trades

OneChange(v, w) ==
  /\ w.contracts = v.contracts
  /\ \/ w.shares = v.shares
     \/ \E a \in Accounts, x \in Symbols, n \in {-1, 1} :
          Exchanged(v, w, a, x, n)

\* Nothing happens to account a when v becomes w.
Spared(v, w, a) ==
  /\ w.cash[a] = v.cash[a] /\ w.other[a] = v.other[a]
  /\ w.shares[a] = v.shares[a] /\ w.contracts[a] = v.contracts[a]
  /\ \A x \in Symbols : w.shares[a][x] > 0 =>
       w.price[x] = v.price[x] /\ w.trades[x] = v.trades[x]
  /\ \A o \in OptionIds : w.contracts[a][o] > 0 => w.mark[o] = v.mark[o]

Moves(next, changed) ==
  /\ next \in ProviderStates
  /\ Move(next, changed)
  /\ OneChange(world, next)
  /\ \A a \in Accounts \ changed : Spared(world, next, a)

\* A trade: the price, and the print of its kind.
LEMMA TradeMoves ==
  ASSUME IndInv, NEW x \in Symbols, NEW p \in Prices,
         NEW at \in {clock, clock + 1}, Trade(x, p, at)
  PROVE  \E next, changed : Moves(next, changed)
<1> DEFINE print == [price |-> p, at |-> at]
           holders == {a \in Accounts : world.shares[a][x] > 0}
<1>1. world \in ProviderStates /\ clock \in Nat
  BY DEF IndInv, TypeOK
<1>2. print \in Prints /\ p \in Int
  BY <1>1, ConstantTypes DEF Prints
<1>3. PICK kind \in {"regular", "extended"} :
        Move([world EXCEPT !.price[x] = p, !.trades[x][kind] = print],
             holders)
  BY DEF Trade
<1> HIDE DEF print, holders
<1>4. PICK w, pr : w = world /\ pr = print
  OBVIOUS
<1>5. PICK next : next = [w EXCEPT !.price[x] = p, !.trades[x][kind] = pr]
  OBVIOUS
<1>6. /\ next \in ProviderStates
      /\ next.shares = w.shares /\ next.contracts = w.contracts
      /\ next.cash = w.cash /\ next.other = w.other /\ next.mark = w.mark
      /\ \A y \in Symbols \ {x} : /\ next.price[y] = w.price[y]
                                  /\ next.trades[y] = w.trades[y]
  <2> DEFINE trades == [w.trades EXCEPT ![x] = [@ EXCEPT ![kind] = pr]]
             price == [w.price EXCEPT ![x] = p]
  <2>1. w \in ProviderStates /\ pr \in Prints
    BY <1>1, <1>2, <1>4
  <2>2. w.trades[x] \in [regular : Prints, extended : Prints \cup {NoPrint}]
    BY <2>1 DEF ProviderStates
  <2>3. [w.trades[x] EXCEPT ![kind] = pr]
          \in [regular : Prints, extended : Prints \cup {NoPrint}]
    <3>1. CASE kind = "regular"
      BY <2>1, <2>2, <3>1
    <3>2. CASE kind = "extended"
      BY <2>1, <2>2, <3>2
    <3> QED
      BY <3>1, <3>2
  <2>4. /\ trades \in [Symbols -> [regular : Prints,
                                   extended : Prints \cup {NoPrint}]]
        /\ \A y \in Symbols \ {x} : trades[y] = w.trades[y]
    BY <2>1, <2>3 DEF ProviderStates
  <2>5. /\ price \in [Symbols -> Int]
        /\ \A y \in Symbols \ {x} : price[y] = w.price[y]
    BY <1>2, <2>1 DEF ProviderStates
  <2>6. next = [w EXCEPT !.price = price, !.trades = trades]
    BY <1>5, <2>1 DEF ProviderStates
  <2> HIDE DEF price, trades
  <2> QED
    BY <2>1, <2>4, <2>5, <2>6 DEF ProviderStates
<1>7. Move(next, holders)
  BY <1>3, <1>4, <1>5
<1>8. \A a \in Accounts \ holders : Spared(world, next, a)
  BY <1>4, <1>6 DEF Spared, holders
<1>9. OneChange(world, next)
  BY <1>4, <1>6 DEF OneChange
<1> QED
  BY <1>6, <1>7, <1>8, <1>9 DEF Moves

LEMMA RemarkMoves ==
  ASSUME IndInv, NEW o \in OptionIds, NEW p \in Marks, Remark(o, p)
  PROVE  \E next, changed : Moves(next, changed)
<1> DEFINE next == [world EXCEPT !.mark[o] = p]
           holders == {a \in Accounts : world.contracts[a][o] > 0}
<1>1. /\ next \in ProviderStates
      /\ next.shares = world.shares /\ next.contracts = world.contracts
      /\ next.cash = world.cash /\ next.other = world.other
      /\ next.price = world.price /\ next.trades = world.trades
      /\ \A q \in OptionIds \ {o} : next.mark[q] = world.mark[q]
  BY ConstantTypes DEF IndInv, TypeOK, ProviderStates
<1>2. Move(next, holders)
  BY DEF Remark
<1> HIDE DEF next
<1>3. \A a \in Accounts \ holders : Spared(world, next, a)
  BY <1>1 DEF Spared
<1> HIDE DEF holders
<1>4. OneChange(world, next)
  BY <1>1 DEF OneChange
<1> QED
  BY <1>1, <1>2, <1>3, <1>4 DEF Moves

\* A purchase or a sale: shares and cash of one account.
LEMMA ExchangeMoves ==
  ASSUME IndInv, NEW a \in Accounts, NEW x \in Symbols, Buy(a, x) \/ Sell(a, x)
  PROVE  \E next, changed : Moves(next, changed)
<1>1. world \in ProviderStates
  BY DEF IndInv, TypeOK
<1>2. /\ world.shares[a][x] \in Nat /\ world.cash[a] \in Int
      /\ world.price[x] \in Int
  BY <1>1 DEF ProviderStates
<1>3. PICK n \in {-1, 1} :
        /\ world.shares[a][x] + n \in Nat
        /\ Move([world EXCEPT
                   !.shares[a][x] = world.shares[a][x] + n,
                   !.cash[a] = world.cash[a] - n * world.price[x]], {a})
  <2>1. CASE Buy(a, x)
    <3>1. Move([world EXCEPT !.shares[a][x] = world.shares[a][x] + 1,
                             !.cash[a] = world.cash[a] - world.price[x]], {a})
      BY <1>1, <2>1 DEF Buy, ProviderStates
    <3>2. world.cash[a] - 1 * world.price[x] = world.cash[a] - world.price[x]
      BY <1>2
    <3>3. world.shares[a][x] + 1 \in Nat
      BY <1>2
    <3> QED
      BY <3>1, <3>2, <3>3
  <2>2. CASE Sell(a, x)
    <3>1. Move([world EXCEPT !.shares[a][x] = world.shares[a][x] - 1,
                             !.cash[a] = world.cash[a] + world.price[x]], {a})
      BY <1>1, <2>2 DEF Sell, ProviderStates
    <3>2. /\ world.cash[a] - (-1) * world.price[x]
               = world.cash[a] + world.price[x]
          /\ world.shares[a][x] + (-1) = world.shares[a][x] - 1
      BY <1>2
    <3>3. world.shares[a][x] - 1 \in Nat
      BY <1>2, <2>2 DEF Sell
    <3> QED
      BY <3>1, <3>2, <3>3
  <2> QED
    BY <2>1, <2>2
<1>4. PICK w, m, c : /\ w = world /\ m = world.shares[a][x] + n
                     /\ c = world.cash[a] - n * world.price[x]
  OBVIOUS
<1>5. PICK next : next = [w EXCEPT !.shares[a][x] = m, !.cash[a] = c]
  OBVIOUS
<1>6. Move(next, {a})
  BY <1>3, <1>4, <1>5
<1>7. /\ next \in ProviderStates
      /\ next.shares[a][x] = m /\ next.cash[a] = c
      /\ \A y \in Symbols \ {x} : next.shares[a][y] = w.shares[a][y]
      /\ \A b \in Accounts \ {a} : /\ next.shares[b] = w.shares[b]
                                   /\ next.cash[b] = w.cash[b]
      /\ next.other = w.other /\ next.contracts = w.contracts
      /\ next.price = w.price /\ next.mark = w.mark
      /\ next.trades = w.trades
  <2>1. w \in ProviderStates /\ m \in Nat /\ c \in Int
    BY <1>1, <1>2, <1>3, <1>4
  <2> QED
    BY <1>5, <2>1 DEF ProviderStates
<1>8. Exchanged(world, next, a, x, n)
  BY <1>4, <1>7 DEF Exchanged
<1>9. \A b \in Accounts \ {a} : Spared(world, next, b)
  BY <1>4, <1>7 DEF Spared
<1>10. OneChange(world, next)
  BY <1>4, <1>7, <1>8 DEF OneChange
<1> QED
  BY <1>6, <1>7, <1>9, <1>10 DEF Moves

LEMMA TransferMoves ==
  ASSUME IndInv, NEW a \in Accounts, NEW b \in Accounts, Transfer(a, b)
  PROVE  \E next, changed : Moves(next, changed)
<1>1. world \in ProviderStates /\ a # b
  BY DEF IndInv, TypeOK, Transfer
<1>2. world.cash[a] \in Int /\ world.cash[b] \in Int /\ Amount \in Int
  BY <1>1, ConstantTypes DEF ProviderStates
<1>3. PICK w, c, d : /\ w = world /\ c = world.cash[a] - Amount
                     /\ d = world.cash[b] + Amount
  OBVIOUS
<1>4. PICK next : next = [w EXCEPT !.cash[a] = c, !.cash[b] = d]
  OBVIOUS
<1>5. /\ next \in ProviderStates
      /\ \A e \in Accounts \ {a, b} : next.cash[e] = w.cash[e]
      /\ next.shares = w.shares /\ next.contracts = w.contracts
      /\ next.other = w.other /\ next.price = w.price
      /\ next.mark = w.mark /\ next.trades = w.trades
  <2>1. w \in ProviderStates /\ c \in Int /\ d \in Int
    BY <1>1, <1>2, <1>3
  <2> QED
    BY <1>4, <2>1 DEF ProviderStates
<1>6. Move(next, {a, b})
  <2>1. next = [world EXCEPT !.cash[a] = @ - Amount, !.cash[b] = @ + Amount]
    BY <1>1, <1>3, <1>4 DEF ProviderStates
  <2> QED
    BY <2>1 DEF Transfer
<1>7. \A e \in Accounts \ {a, b} : Spared(world, next, e)
  BY <1>3, <1>5 DEF Spared
<1>8. OneChange(world, next)
  BY <1>3, <1>5 DEF OneChange
<1> QED
  BY <1>5, <1>6, <1>7, <1>8 DEF Moves

LEMMA CloseMoves ==
  ASSUME IndInv, NEW a \in Accounts, Close(a)
  PROVE  \E next, changed : Moves(next, changed)
<1> DEFINE next == [world EXCEPT !.status[a] = "closed"]
<1>1. /\ next \in ProviderStates
      /\ next.shares = world.shares /\ next.contracts = world.contracts
      /\ next.cash = world.cash /\ next.other = world.other
      /\ next.price = world.price /\ next.mark = world.mark
      /\ next.trades = world.trades
  BY DEF IndInv, TypeOK, ProviderStates
<1>2. Move(next, {a})
  BY DEF Close
<1> HIDE DEF next
<1>3. \A b \in Accounts \ {a} : Spared(world, next, b)
  BY <1>1 DEF Spared
<1>4. OneChange(world, next)
  BY <1>1 DEF OneChange
<1> QED
  BY <1>1, <1>2, <1>3, <1>4 DEF Moves

LEMMA ProviderMoves ==
  ASSUME IndInv, Provider, ~Tick
  PROVE  \E next, changed : Moves(next, changed)
<1>1. CASE \E x \in Symbols, p \in Prices, at \in {clock, clock + 1} :
             Trade(x, p, at)
  BY <1>1, TradeMoves
<1>2. CASE \E o \in OptionIds, p \in Marks : Remark(o, p)
  BY <1>2, RemarkMoves
<1>3. CASE \E a \in Accounts, x \in Symbols : Buy(a, x) \/ Sell(a, x)
  BY <1>3, ExchangeMoves
<1>4. CASE \E a, b \in Accounts : Transfer(a, b)
  BY <1>4, TransferMoves
<1>5. CASE \E a \in Accounts : Close(a)
  BY <1>5, CloseMoves
<1> QED
  BY <1>1, <1>2, <1>3, <1>4, <1>5 DEF Provider

LEMMA TickKeeps ==
  ASSUME IndInv, Tick
  PROVE  IndInv'
<1>1. TypeOK'
  BY ConstantTypes DEF Tick, IndInv, TypeOK
<1>2. ReadsTimed'
  <2>1. clock \in Nat /\ ticks \in Nat
    BY ConstantTypes DEF IndInv, TypeOK
  <2> QED
    BY <2>1 DEF Tick, IndInv, ReadsTimed, answers
<1>3. ReadInOrder'
  BY DEF Tick, IndInv, ReadInOrder, answers
<1>4. Promoted'
  BY DEF Tick, Reading, Promoted
<1> QED
  BY <1>1, <1>2, <1>3, <1>4 DEF IndInv

(***************************************************************************)
(* The reads.                                                              *)
(***************************************************************************)
LEMMA AccountsKeep ==
  ASSUME IndInv, NEW listed \in SUBSET Accounts, ReadAccounts(listed)
  PROVE  IndInv'
<1>1. TypeOK'
  BY DEF ReadAccounts, provider, IndInv, TypeOK
<1>2. /\ DOMAIN accounts' = listed
      /\ \A a \in listed : accounts'[a].sourceAsOf = clock
  BY DEF ReadAccounts
<1>3. clock \in Nat /\ ticks \in Nat /\ clock' = clock /\ ticks' = ticks
  BY ConstantTypes DEF ReadAccounts, provider, IndInv, TypeOK
<1>4. ReadsTimed'
  <2>1. \A a \in DOMAIN accounts' :
          /\ accounts'[a].sourceAsOf \in Nat
          /\ accounts'[a].sourceAsOf <= clock'
          /\ clock' - accounts'[a].sourceAsOf <= ticks'
    BY <1>2, <1>3
  <2> QED
    BY <2>1 DEF ReadAccounts, IndInv, ReadsTimed
<1>5. ReadInOrder' /\ Promoted'
  BY DEF ReadAccounts, IndInv, ReadInOrder, Promoted
<1> QED
  BY <1>1, <1>4, <1>5 DEF IndInv

LEMMA PortfolioKeeps ==
  ASSUME IndInv, NEW a \in Accounts, NEW complete \in BOOLEAN,
         ReadPortfolio(a, complete)
  PROVE  IndInv'
<1>1. PICK f, r : f = portfolios /\ portfolios' = WithAnswer(f, a, r)
                    /\ r.sourceAsOf = clock
  BY DEF ReadPortfolio
<1>2. pc = "reading" /\ pc' = pc /\ a \in DOMAIN accounts \ DOMAIN f
  BY <1>1 DEF ReadPortfolio, Started
<1>3. /\ DOMAIN portfolios' = DOMAIN f \cup {a}
      /\ portfolios'[a] = r
      /\ \A b \in DOMAIN f : portfolios'[b] = f[b]
  <2>1. PICK g : g = WithAnswer(f, a, r)
    OBVIOUS
  <2>2. /\ DOMAIN g = DOMAIN f \cup {a} /\ g[a] = r
        /\ \A b \in DOMAIN f : g[b] = f[b]
    <3>1. a \notin DOMAIN f
      BY <1>2
    <3> QED
      BY <2>1, <3>1 DEF WithAnswer
  <2> QED
    BY <1>1, <2>1, <2>2
<1>4. TypeOK'
  BY DEF ReadPortfolio, provider, IndInv, TypeOK
<1>5. ReadsTimed'
  <2>1. clock \in Nat /\ \A b \in DOMAIN f : f[b].sourceAsOf \in Nat
    BY <1>1 DEF IndInv, TypeOK, ReadsTimed
  <2>2. \A b \in DOMAIN portfolios' : portfolios'[b].sourceAsOf \in Nat
    BY <1>1, <1>3, <2>1
  <2> QED
    BY <2>2 DEF ReadPortfolio, provider, IndInv, ReadsTimed
<1>6. ReadInOrder' /\ Promoted'
  BY <1>1, <1>2, <1>3 DEF ReadPortfolio, IndInv, ReadInOrder, Promoted
<1> QED
  BY <1>4, <1>5, <1>6 DEF IndInv

LEMMA EquitiesKeep ==
  ASSUME IndInv, NEW a \in Accounts, NEW listed \in SUBSET Symbols,
         ReadEquityPositions(a, listed)
  PROVE  IndInv'
<1>1. PICK f, r : /\ f = equities /\ equities' = WithAnswer(f, a, r)
                  /\ DOMAIN r.rows = listed
  BY DEF ReadEquityPositions
<1>2. pc = "reading" /\ pc' = pc /\ a \in DOMAIN portfolios \ DOMAIN f
  BY <1>1 DEF ReadEquityPositions, Started
<1>3. /\ DOMAIN equities' = DOMAIN f \cup {a}
      /\ equities'[a] = r
      /\ \A b \in DOMAIN f : equities'[b] = f[b]
  <2>1. PICK g : g = WithAnswer(f, a, r)
    OBVIOUS
  <2>2. /\ DOMAIN g = DOMAIN f \cup {a} /\ g[a] = r
        /\ \A b \in DOMAIN f : g[b] = f[b]
    <3>1. a \notin DOMAIN f
      BY <1>2
    <3> QED
      BY <2>1, <3>1 DEF WithAnswer
  <2> QED
    BY <1>1, <2>1, <2>2
<1>4. TypeOK'
  BY DEF ReadEquityPositions, provider, IndInv, TypeOK
<1>5. ReadsTimed'
  <2>1. \A b \in DOMAIN f : DOMAIN f[b].rows \subseteq Symbols
    BY <1>1 DEF IndInv, ReadsTimed
  <2>2. \A b \in DOMAIN equities' : DOMAIN equities'[b].rows \subseteq Symbols
    BY <1>1, <1>3, <2>1
  <2> QED
    BY <2>2 DEF ReadEquityPositions, provider, IndInv, ReadsTimed
<1>6. ReadInOrder' /\ Promoted'
  BY <1>1, <1>2, <1>3 DEF ReadEquityPositions, IndInv, ReadInOrder, Promoted
<1> QED
  BY <1>4, <1>5, <1>6 DEF IndInv

LEMMA OptionsKeep ==
  ASSUME IndInv, NEW a \in Accounts, ReadOptionPositions(a)
  PROVE  IndInv'
<1>1. PICK f, r : f = options /\ options' = WithAnswer(f, a, r)
  BY DEF ReadOptionPositions
<1>2. pc = "reading" /\ pc' = pc /\ a \in DOMAIN equities \ DOMAIN f
  BY <1>1 DEF ReadOptionPositions, Finished
<1>3. DOMAIN options' = DOMAIN f \cup {a}
  <2>1. PICK g : g = WithAnswer(f, a, r)
    OBVIOUS
  <2>2. DOMAIN g = DOMAIN f \cup {a}
    BY <2>1 DEF WithAnswer
  <2> QED
    BY <1>1, <2>1, <2>2
<1>4. TypeOK'
  BY DEF ReadOptionPositions, provider, IndInv, TypeOK
<1>5. ReadsTimed'
  BY DEF ReadOptionPositions, provider, IndInv, ReadsTimed
<1>6. ReadInOrder' /\ Promoted'
  BY <1>1, <1>2, <1>3 DEF ReadOptionPositions, IndInv, ReadInOrder, Promoted
<1> QED
  BY <1>4, <1>5, <1>6 DEF IndInv

\* Every quote is a trade, and a trade has its time.
LEMMA QuotesTimed ==
  ASSUME TypeOK, NEW x \in Symbols
  PROVE  MapQuote(x).sourceAsOf \in Nat
<1>1. /\ world.trades[x].regular \in Prints
      /\ world.trades[x].extended \in Prints \cup {NoPrint}
  BY DEF TypeOK, ProviderStates
<1>2. \A t \in Prints : t.at \in Nat
  BY DEF Prints
<1> QED
  BY <1>1, <1>2 DEF MapQuote, LastTrade

LEMMA QuotesKeep ==
  ASSUME IndInv, ReadEquityQuotes
  PROVE  IndInv'
<1> DEFINE Asked == UNION {DOMAIN equities[a].rows : a \in DOMAIN equities}
<1>1. quotes' = [x \in Asked |-> MapQuote(x)]
  BY DEF ReadEquityQuotes
<1>2. Asked \subseteq Symbols
  BY DEF IndInv, ReadsTimed
<1>3. \A x \in DOMAIN quotes' : quotes'[x].sourceAsOf \in Nat
  BY <1>1, <1>2, QuotesTimed DEF IndInv
<1>4. TypeOK'
  BY DEF ReadEquityQuotes, provider, IndInv, TypeOK
<1>5. ReadsTimed'
  BY <1>3 DEF ReadEquityQuotes, provider, IndInv, ReadsTimed
<1>6. ReadInOrder'
  BY <1>1 DEF ReadEquityQuotes, IndInv, ReadInOrder, Finished
<1>7. Promoted'
  BY DEF ReadEquityQuotes, Promoted
<1> QED
  BY <1>4, <1>5, <1>6, <1>7 DEF IndInv

LEMMA OptionAnswersKeep ==
  ASSUME IndInv, ReadOptionQuotes \/ ReadOptionInstruments \/ ReadFails
  PROVE  IndInv'
<1>1. /\ pc \in {"accounts", "reading", "options"}
      /\ pc' \in {pc, "building", "failed"}
      /\ pc' = "building" => pc = "options"
      /\ pc' = pc => pc = "options"
      /\ UNCHANGED <<provider, accounts, portfolios, equities, options>>
      /\ UNCHANGED quotes
  BY DEF ReadOptionQuotes, ReadOptionInstruments, ReadFails, answers
<1>2. TypeOK'
  BY <1>1 DEF provider, IndInv, TypeOK
<1>3. ReadsTimed'
  BY <1>1 DEF provider, IndInv, ReadsTimed
<1>4. ReadInOrder' /\ Promoted'
  BY <1>1 DEF IndInv, ReadInOrder, Promoted
<1> QED
  BY <1>2, <1>3, <1>4 DEF IndInv

LEMMA BuildKeeps ==
  ASSUME IndInv, BuildSnapshotPromotion
  PROVE  IndInv'
<1>1. TypeOK'
  BY DEF BuildSnapshotPromotion, provider, IndInv, TypeOK
<1>2. ReadsTimed'
  BY DEF BuildSnapshotPromotion, provider, answers, IndInv, ReadsTimed
<1>3. ReadInOrder'
  BY DEF BuildSnapshotPromotion, answers, IndInv, ReadInOrder
<1>4. Promoted'
  <2>1. CASE Eligible(clock)
    <3> DEFINE times == {quotes[x].sourceAsOf : x \in DOMAIN quotes}
    <3>1. PICK t, R, V : /\ t = clock /\ R = RequiredTimes(clock)
                         /\ V = ValuationTimes(clock)
      OBVIOUS
    <3>2. PICK q, Q : q = quotes /\ Q = QuoteFreshness(clock)
      OBVIOUS
    <3>3. /\ Listed # {} /\ Fresh(clock)
          /\ candidate'.receivedAt = t /\ candidate'.quotes = q
          /\ candidate'.asOf = Min(V) /\ candidate'.quoteFreshness = Q
      BY <2>1, <3>1, <3>2 DEF BuildSnapshotPromotion, Eligible, Candidate
    <3>4. /\ t = clock' /\ q = quotes' /\ UNCHANGED answers
          /\ Listed' # {}
      BY <3>1, <3>2, <3>3 DEF BuildSnapshotPromotion, provider, answers, Listed
    <3>5. V = ValuationTimes(clock)'
      BY <3>1, <3>4 DEF answers, ValuationTimes, PositionTimes, EquityAsOf,
         Listed, BuildSnapshotPromotion, provider
    <3>6. R = RequiredTimes(clock)'
      BY <3>1, <3>4, <3>5 DEF answers, RequiredTimes, Listed
    <3>7. Q = QuoteFreshness(clock)'
      BY <3>1, <3>2, <3>4 DEF QuoteFreshness
    <3>8. Fresh(clock)'
      BY <3>1, <3>3, <3>4, <3>6 DEF Fresh
    <3> QED
      BY <3>3, <3>4, <3>5, <3>7, <3>8 DEF Promoted
  <2>2. CASE ~Eligible(clock)
    BY <2>2 DEF BuildSnapshotPromotion, Promoted
  <2> QED
    BY <2>1, <2>2
<1> QED
  BY <1>1, <1>2, <1>3, <1>4 DEF IndInv

LEMMA ProviderKeeps == IndInv /\ Provider => IndInv'
<1> SUFFICES ASSUME IndInv, Provider PROVE IndInv'
  OBVIOUS
<1>1. CASE ~Tick
  <2>1. PICK next, changed : Moves(next, changed)
    BY <1>1, ProviderMoves
  <2> QED
    BY <2>1, MoveKeeps DEF Moves
<1> QED
  BY <1>1, TickKeeps

LEMMA RefreshKeeps == IndInv /\ Refresh => IndInv'
<1> SUFFICES ASSUME IndInv, Refresh PROVE IndInv'
  OBVIOUS
<1>1. CASE \E listed \in SUBSET Accounts : ReadAccounts(listed)
  BY <1>1, AccountsKeep
<1>2. CASE \E a \in Accounts, complete \in BOOLEAN : ReadPortfolio(a, complete)
  BY <1>2, PortfolioKeeps
<1>3. CASE \E a \in Accounts, listed \in SUBSET Symbols :
             ReadEquityPositions(a, listed)
  BY <1>3, EquitiesKeep
<1>4. CASE \E a \in Accounts : ReadOptionPositions(a)
  BY <1>4, OptionsKeep
<1>5. CASE ReadEquityQuotes
  BY <1>5, QuotesKeep
<1>6. CASE ReadOptionQuotes \/ ReadOptionInstruments \/ ReadFails
  BY <1>6, OptionAnswersKeep
<1>7. CASE BuildSnapshotPromotion
  BY <1>7, BuildKeeps
<1> QED
  BY <1>1, <1>2, <1>3, <1>4, <1>5, <1>6, <1>7 DEF Refresh

LEMMA StutterKeeps == IndInv /\ UNCHANGED vars => IndInv'
<1> SUFFICES ASSUME IndInv, UNCHANGED vars PROVE IndInv'
  OBVIOUS
<1>1. TypeOK' /\ ReadsTimed' /\ ReadInOrder'
  BY DEF vars, provider, answers, IndInv, TypeOK, ReadsTimed, ReadInOrder
<1>2. Promoted'
  <2>1. PICK V, Q : V = ValuationTimes(clock) /\ Q = QuoteFreshness(clock)
    OBVIOUS
  <2>2. V = ValuationTimes(clock)'
    BY <2>1 DEF vars, provider, answers, ValuationTimes, PositionTimes,
       EquityAsOf, Listed
  <2>3. Q = QuoteFreshness(clock)'
    BY <2>1 DEF vars, provider, answers, QuoteFreshness
  <2>4. PICK R : R = RequiredTimes(clock)
    OBVIOUS
  <2>5. R = RequiredTimes(clock)'
    BY <2>1, <2>2, <2>4 DEF vars, answers, RequiredTimes, Listed
  <2>6. pc = "promoted" => Fresh(clock)'
    BY <2>4, <2>5 DEF IndInv, Promoted, Fresh, vars, provider
  <2> QED
    BY <2>1, <2>2, <2>3, <2>6
       DEF IndInv, Promoted, Listed, vars, provider, answers
<1> QED
  BY <1>1, <1>2 DEF IndInv

(***************************************************************************)
(* Theorems.                                                               *)
(***************************************************************************)
\* The invariant is inductive: types, the times of what was read, which reads
\* come before which, and what a promoted candidate was built from.
THEOREM Invariance == Spec => []IndInv
<1>1. IndInv /\ [Next]_vars => IndInv'
  BY ProviderKeeps, RefreshKeeps, StutterKeeps DEF Next
<1> QED
  BY <1>1, InitInv, PTL DEF Spec

\* The times a promoted candidate rests on have a least and a greatest, and
\* every quote is among them.
LEMMA TimesOfPromoted ==
  ASSUME IndInv, pc = "promoted"
  PROVE  /\ RequiredTimes(clock) \subseteq Nat
         /\ ValuationTimes(clock) \subseteq RequiredTimes(clock)
         /\ ValuationTimes(clock) # {}
         /\ \A x \in DOMAIN quotes :
              quotes[x].sourceAsOf \in ValuationTimes(clock)
         /\ \A a \in Listed :
              accounts[a].sourceAsOf \in RequiredTimes(clock)
<1>1. /\ DOMAIN options = Listed /\ DOMAIN equities = Listed
      /\ DOMAIN portfolios = Listed /\ Listed # {} /\ clock \in Nat
      /\ DOMAIN quotes = UNION {DOMAIN equities[a].rows : a \in Listed}
  BY DEF IndInv, TypeOK, ReadInOrder, Promoted, Listed
<1>2. \A a \in Listed : accounts[a].sourceAsOf \in Nat
                          /\ portfolios[a].sourceAsOf \in Nat
  BY <1>1 DEF IndInv, ReadsTimed, Listed
<1>3. \A a \in Listed : PositionTimes(a, clock) \subseteq Nat
  BY <1>1 DEF IndInv, ReadsTimed, PositionTimes, EquityAsOf
<1>4. ValuationTimes(clock) \subseteq Nat
  BY <1>2, <1>3 DEF ValuationTimes
<1>5. RequiredTimes(clock) \subseteq Nat
  BY <1>2, <1>4 DEF RequiredTimes
<1>6. ValuationTimes(clock) # {}
  BY <1>1 DEF ValuationTimes
<1>7. ASSUME NEW x \in DOMAIN quotes
      PROVE  quotes[x].sourceAsOf \in ValuationTimes(clock)
  <2>1. PICK a \in Listed : x \in DOMAIN equities[a].rows
    BY <1>1
  <2>2. quotes[x].sourceAsOf \in PositionTimes(a, clock)
    BY <2>1 DEF PositionTimes, EquityAsOf
  <2> QED
    BY <2>2 DEF ValuationTimes
<1> QED
  BY <1>5, <1>6, <1>7 DEF RequiredTimes

\* What the freshness policy then says of them.
LEMMA TimesTogether ==
  ASSUME IndInv, pc = "promoted"
  PROVE  /\ \A s, r \in RequiredTimes(clock) : s - r <= MaxSkew
         /\ \A s \in RequiredTimes(clock) : s \in Nat /\ s <= clock
         /\ \A s \in ValuationTimes(clock) : s >= candidate.asOf
<1> DEFINE R == RequiredTimes(clock)
           V == ValuationTimes(clock)
<1>1. /\ R \subseteq Nat /\ V \subseteq R /\ V # {} /\ clock \in Nat
  BY TimesOfPromoted DEF IndInv, TypeOK
<1>2. /\ \A s \in R : s <= clock
      /\ Max(R) - Min(R) <= MaxSkew
      /\ candidate.asOf = Min(V)
  BY DEF IndInv, Promoted, Fresh
<1> HIDE DEF R, V
<1>3. PICK r, v, c : r = R /\ v = V /\ c = clock
  OBVIOUS
<1>4. r \subseteq Nat /\ r # {} /\ c \in Nat /\ \A s \in r : s <= c
  BY <1>1, <1>2, <1>3
<1>5. Max(r) \in r /\ \A s \in r : Max(r) >= s
  BY <1>4, GreatestTime
<1>6. Min(r) \in r /\ \A s \in r : Min(r) <= s
  BY <1>4, LeastTime
<1>7. v \subseteq Nat /\ v # {}
  BY <1>1, <1>3
<1>8. \A s \in v : Min(v) <= s
  BY <1>7, LeastTime
<1>9. Max(r) - Min(r) <= 2
  BY <1>2, <1>3 DEF MaxSkew
<1>10. \A s, u \in r : s - u <= 2
  <2>1. PICK m, n : m = Max(r) /\ n = Min(r)
    OBVIOUS
  <2>2. m \in Nat /\ n \in Nat /\ m - n <= 2
    BY <1>4, <1>5, <1>6, <1>9, <2>1
  <2>3. \A s \in r : s \in Nat /\ m >= s /\ n <= s
    BY <1>4, <1>5, <1>6, <2>1
  <2> QED
    BY <2>2, <2>3
<1>11. Min(v) \in Nat
  BY <1>7, LeastTime
<1>12. \A s \in v : s >= candidate.asOf
  BY <1>2, <1>3, <1>7, <1>8, <1>11
<1> QED
  BY <1>3, <1>4, <1>10, <1>12 DEF R, V, MaxSkew

\* evaluateSourceFreshness over the times of valueEquityPositions: whatever
\* moves while the reads are made, the prices of a promoted snapshot were
\* traded within the skew of each other's accounts, at its time or later, and
\* outside the session not before its close.
THEOREM PricesOfOneMoment == Spec => []PricedTogether
<1>1. IndInv => PricedTogether
  <2> SUFFICES ASSUME IndInv, pc = "promoted",
                      NEW x \in DOMAIN candidate.quotes
               PROVE  LET at == candidate.quotes[x].sourceAsOf
                          t == candidate.receivedAt
                      IN
                      /\ \A a \in Listed :
                           Magnitude(at - accounts[a].sourceAsOf) <= MaxSkew
                      /\ at >= candidate.asOf
                      /\ Phase(t) # "regular" => at >= LastRegularClose(t)
    BY DEF PricedTogether
  <2> DEFINE at == quotes[x].sourceAsOf
  <2>1. candidate.quotes = quotes /\ candidate.receivedAt = clock
    BY DEF IndInv, Promoted
  <2>2. at \in ValuationTimes(clock) /\ at \in RequiredTimes(clock)
    BY <2>1, TimesOfPromoted
  <2>3. at \in Nat /\ at >= candidate.asOf
    BY <2>2, TimesTogether
  <2>4. ASSUME NEW a \in Listed
        PROVE  Magnitude(at - accounts[a].sourceAsOf) <= MaxSkew
    <3>1. accounts[a].sourceAsOf \in RequiredTimes(clock)
      BY TimesOfPromoted
    <3>2. /\ at - accounts[a].sourceAsOf <= MaxSkew
          /\ accounts[a].sourceAsOf - at <= MaxSkew
          /\ accounts[a].sourceAsOf \in Nat
      BY <2>2, <3>1, TimesTogether
    <3> QED
      BY <2>3, <3>2 DEF Magnitude, MaxSkew
  <2>5. Phase(clock) # "regular" => at >= LastRegularClose(clock)
    BY <2>2 DEF IndInv, Promoted, Fresh
  <2> QED
    BY <2>1, <2>3, <2>4, <2>5
<1> QED
  BY <1>1, Invariance, PTL

\* buildSnapshotPromotion: a promoted snapshot is never labelled as one with
\* stale quotes, on any day on which a refresh is over before the next.
THEOREM LabelledFresh == Spec => []QuotesNeverStale
<1>1. IndInv => QuotesNeverStale
  <2> SUFFICES ASSUME IndInv, pc = "promoted"
               PROVE  QuoteFreshness(clock) # "stale"
    BY DEF IndInv, Promoted, QuotesNeverStale
  <2>1. ASSUME NEW x \in DOMAIN quotes
        PROVE  /\ quotes[x].sourceAsOf <= clock
               /\ clock - quotes[x].sourceAsOf <= MaximumAge(Phase(clock))
    <3> DEFINE at == quotes[x].sourceAsOf
    <3>1. at \in RequiredTimes(clock)
      BY TimesOfPromoted
    <3>2. at \in Nat /\ at <= clock /\ clock \in Nat
      BY <3>1, TimesTogether DEF IndInv, TypeOK
    <3>3. CASE Phase(clock) # "closed"
      BY <3>1, <3>2, <3>3 DEF IndInv, Promoted, Fresh
    <3>4. CASE Phase(clock) = "closed"
      <4>1. PICK a \in Listed : TRUE
        BY DEF IndInv, Promoted
      <4>2. /\ accounts[a].sourceAsOf \in Nat
            /\ clock - accounts[a].sourceAsOf <= ticks
            /\ accounts[a].sourceAsOf \in RequiredTimes(clock)
        BY TimesOfPromoted DEF IndInv, ReadsTimed, Listed
      <4>3. accounts[a].sourceAsOf - at <= 2
        BY <3>1, <4>2, TimesTogether DEF MaxSkew
      <4>4. ticks \in Nat /\ ticks <= 1438
        BY ConstantTypes DEF IndInv, TypeOK
      <4>5. clock - at <= 1440
        BY <3>2, <4>2, <4>3, <4>4
      <4>6. MaximumAge(Phase(clock)) = 1440
        BY <3>4 DEF MaximumAge
      <4> QED
        BY <3>2, <4>5, <4>6
    <3> QED
      BY <3>3, <3>4
  <2> QED
    BY <2>1 DEF QuoteFreshness
<1> QED
  BY <1>1, Invariance, PTL

(***************************************************************************)
(* What the reads have seen.  An account that nothing happened to is still *)
(* as it was read, and so are the prices of what it holds; with one change *)
(* at the provider each read is of the world before it or of the one after *)
(* it, an account's shares of no earlier one than its cash.                *)
(***************************************************************************)
\* An answer that lists what is held, and nothing else.
Lists(rows, held, things) ==
  \A x \in things : IF x \in DOMAIN rows THEN rows[x] = held[x]
                                         ELSE held[x] = 0

PortfolioOf(w, a) ==
  /\ portfolios[a].total = Worth(w, a)
  /\ portfolios[a].cash = w.cash[a] /\ portfolios[a].other = w.other[a]

SharesOf(w, a) == Lists(equities[a].rows, w.shares[a], Symbols)

ContractsOf(w, a) == Lists(options[a], w.contracts[a], OptionIds)

AnswersTyped ==
  /\ before \in Worlds /\ moves \in Nat /\ DOMAIN accounts \subseteq Accounts
  /\ DOMAIN quotes \subseteq Symbols
  /\ \A x \in DOMAIN quotes : quotes[x].price \in Int
  /\ \A a \in DOMAIN options : DOMAIN options[a] \subseteq OptionIds
  /\ \A o \in DOMAIN optionQuotes : optionQuotes[o] \in Int
  /\ \A o \in DOMAIN optionInstruments :
       optionInstruments[o] = Multiplier[o]

\* The quotes and the instruments of the options held.
OptionsAnswered ==
  /\ pc \in {"accounts", "reading"} =>
       optionQuotes = Nothing /\ optionInstruments = Nothing
  /\ pc = "options" =>
       /\ RequestedOptions # {}
       /\ optionQuotes = Nothing \/ DOMAIN optionQuotes = RequestedOptions
       /\ \/ optionInstruments = Nothing
          \/ DOMAIN optionInstruments = RequestedOptions
  /\ pc \in {"building", "promoted"} =>
       /\ DOMAIN optionQuotes = RequestedOptions
       /\ DOMAIN optionInstruments = RequestedOptions

\* An account that nothing happened to.
UntouchedSeen ==
  \A a \in Accounts \ touched :
    /\ a \in DOMAIN portfolios => PortfolioOf(world, a)
    /\ a \in DOMAIN equities => SharesOf(world, a)
    /\ a \in DOMAIN options => ContractsOf(world, a)
    /\ \A x \in Symbols :
         world.shares[a][x] > 0 =>
           /\ world.price[x] = LastTrade(world.trades[x]).price
           /\ x \in DOMAIN quotes => quotes[x].price = world.price[x]
    /\ \A o \in DOMAIN optionQuotes :
         world.contracts[a][o] > 0 => optionQuotes[o] = world.mark[o]

OneMoveSeen ==
  /\ moves = 0 => world = before
  /\ moves = 1 => OneChange(before, world)
  /\ moves < 2 =>
       /\ \A a \in DOMAIN portfolios :
            \E v \in {before, world} :
              /\ PortfolioOf(v, a)
              /\ a \in DOMAIN equities => \E w \in {v, world} : SharesOf(w, a)
       /\ \A a \in DOMAIN options :
            \E w \in {before, world} : ContractsOf(w, a)
       /\ world.price = before.price /\ world.trades = before.trades =>
            \A x \in DOMAIN quotes : quotes[x].price = before.price[x]
       /\ world.mark = before.mark =>
            \A o \in DOMAIN optionQuotes : optionQuotes[o] = before.mark[o]

Built ==
  pc = "promoted" =>
    /\ \A a \in Listed : Reconciled(a)
    /\ candidate.total = SumFunction([a \in {b \in Listed : Included(b)} |->
                                        portfolios[a].total])
    /\ candidate.accounts = [a \in Listed |-> AccountDetail(a)]

SeenInv ==
  AnswersTyped /\ OptionsAnswered /\ UntouchedSeen /\ OneMoveSeen /\ Built

LEMMA InitSeen == Init => SeenInv
<1> SUFFICES ASSUME Init PROVE SeenInv
  OBVIOUS
<1>1. /\ DOMAIN accounts = {} /\ DOMAIN portfolios = {}
      /\ DOMAIN equities = {} /\ DOMAIN options = {} /\ DOMAIN quotes = {}
      /\ DOMAIN optionQuotes = {} /\ DOMAIN optionInstruments = {}
  BY DEF Init, Nothing
<1>2. /\ world \in Worlds /\ world = before /\ moves = 0 /\ touched = {}
      /\ pc = "accounts"
      /\ optionQuotes = Nothing /\ optionInstruments = Nothing
  BY DEF Init
<1>3. AnswersTyped
  BY <1>1, <1>2 DEF AnswersTyped
<1>4. OptionsAnswered /\ Built
  BY <1>2 DEF OptionsAnswered, Built
<1>5. UntouchedSeen
  BY <1>1, <1>2, ProviderAssumption DEF UntouchedSeen
<1>6. OneMoveSeen
  BY <1>1, <1>2 DEF OneMoveSeen
<1> QED
  BY <1>3, <1>4, <1>5, <1>6 DEF SeenInv

(***************************************************************************)
(* The provider's moves.                                                   *)
(***************************************************************************)
LEMMA SparedWorth ==
  ASSUME NEW v \in ProviderStates, NEW w \in ProviderStates,
         NEW a \in Accounts, Spared(v, w, a)
  PROVE  Worth(w, a) = Worth(v, a)
<1>1. ASSUME NEW x \in Symbols
      PROVE  w.shares[a][x] * w.price[x] = v.shares[a][x] * v.price[x]
  <2>1. PICK n, p, q : /\ n = w.shares[a][x] /\ n = v.shares[a][x]
                       /\ p = w.price[x] /\ q = v.price[x]
    BY DEF Spared
  <2>2. n \in Nat /\ p \in Int /\ q \in Int /\ (n > 0 => p = q)
    BY <2>1 DEF Spared, ProviderStates
  <2>3. n * p = n * q
    <3>1. CASE n = 0
      BY <2>2, <3>1
    <3>2. CASE n > 0
      BY <2>2, <3>2
    <3> QED
      BY <2>2, <3>1, <3>2
  <2> QED
    BY <2>1, <2>3
<1>2. StockWorth(w, a) = StockWorth(v, a)
  BY <1>1 DEF StockWorth
<1>3. ASSUME NEW o \in OptionIds
      PROVE  w.contracts[a][o] * w.mark[o] * Multiplier[o]
               = v.contracts[a][o] * v.mark[o] * Multiplier[o]
  <2>1. PICK n, p, q : /\ n = w.contracts[a][o] /\ n = v.contracts[a][o]
                       /\ p = w.mark[o] /\ q = v.mark[o]
    BY DEF Spared
  <2>2. n \in Nat /\ p \in Int /\ q \in Int /\ (n > 0 => p = q)
    BY <2>1 DEF Spared, ProviderStates
  <2>3. n * p = n * q
    <3>1. CASE n = 0
      BY <2>2, <3>1
    <3>2. CASE n > 0
      BY <2>2, <3>2
    <3> QED
      BY <2>2, <3>1, <3>2
  <2> QED
    BY <2>1, <2>3
<1>4. OptionWorth(w, a) = OptionWorth(v, a)
  BY <1>3 DEF OptionWorth
<1> QED
  BY <1>2, <1>4 DEF Worth, Spared

\* A move that spares every account but those it changes, and is one change.
LEMMA MoveSeen ==
  ASSUME IndInv, SeenInv, NEW next, NEW changed, Moves(next, changed)
  PROVE  SeenInv'
<1>0. /\ next \in ProviderStates /\ Move(next, changed)
      /\ OneChange(world, next)
      /\ \A a \in Accounts \ changed : Spared(world, next, a)
  BY DEF Moves
<1>1. /\ pc \in {"reading", "options", "building"} /\ UNCHANGED <<pc, answers>>
      /\ world' = next /\ touched' = touched \cup changed
      /\ moves' = moves + 1 /\ before' = before
  BY <1>0 DEF Move, Reading
<1>2. AnswersTyped'
  BY <1>1 DEF SeenInv, AnswersTyped, answers
<1>3. OptionsAnswered' /\ Built'
  BY <1>1 DEF SeenInv, OptionsAnswered, Built, answers, RequestedOptions
<1>4. UntouchedSeen'
  <2> SUFFICES ASSUME NEW a \in Accounts \ touched'
               PROVE  /\ a \in DOMAIN portfolios => PortfolioOf(next, a)
                      /\ a \in DOMAIN equities => SharesOf(next, a)
                      /\ a \in DOMAIN options => ContractsOf(next, a)
                      /\ \A x \in Symbols :
                           next.shares[a][x] > 0 =>
                             /\ next.price[x] = LastTrade(next.trades[x]).price
                             /\ x \in DOMAIN quotes =>
                                  quotes[x].price = next.price[x]
                      /\ \A o \in DOMAIN optionQuotes :
                           next.contracts[a][o] > 0 =>
                             optionQuotes[o] = next.mark[o]
    BY <1>1 DEF UntouchedSeen, PortfolioOf, SharesOf, ContractsOf, answers
  <2>1. a \in Accounts \ touched /\ Spared(world, next, a)
    BY <1>0, <1>1
  <2>2. Worth(next, a) = Worth(world, a)
    BY <1>0, <2>1, SparedWorth DEF IndInv, TypeOK
  <2>3. /\ a \in DOMAIN portfolios => PortfolioOf(world, a)
        /\ a \in DOMAIN equities => SharesOf(world, a)
        /\ a \in DOMAIN options => ContractsOf(world, a)
        /\ \A x \in Symbols :
             world.shares[a][x] > 0 =>
               /\ world.price[x] = LastTrade(world.trades[x]).price
               /\ x \in DOMAIN quotes => quotes[x].price = world.price[x]
        /\ \A o \in DOMAIN optionQuotes :
             world.contracts[a][o] > 0 => optionQuotes[o] = world.mark[o]
    BY <2>1 DEF SeenInv, UntouchedSeen
  <2>4. a \in DOMAIN portfolios => PortfolioOf(next, a)
    BY <2>1, <2>2, <2>3 DEF PortfolioOf, Spared
  <2>5. /\ a \in DOMAIN equities => SharesOf(next, a)
        /\ a \in DOMAIN options => ContractsOf(next, a)
    BY <2>1, <2>3 DEF SharesOf, ContractsOf, Spared
  <2>6. ASSUME NEW x \in Symbols, next.shares[a][x] > 0
        PROVE  /\ next.price[x] = LastTrade(next.trades[x]).price
               /\ x \in DOMAIN quotes => quotes[x].price = next.price[x]
    BY <2>1, <2>3, <2>6 DEF Spared
  <2>7. DOMAIN optionQuotes \subseteq OptionIds
    BY <1>1 DEF SeenInv, AnswersTyped, OptionsAnswered, Nothing,
       RequestedOptions
  <2>8. ASSUME NEW o \in DOMAIN optionQuotes, next.contracts[a][o] > 0
        PROVE  optionQuotes[o] = next.mark[o]
    BY <2>1, <2>3, <2>7, <2>8 DEF Spared
  <2> QED
    BY <2>4, <2>5, <2>6, <2>8
<1>5. OneMoveSeen'
  <2>1. CASE moves = 0
    <3>1. world = before /\ moves' = 1
      BY <1>1, <2>1 DEF SeenInv, OneMoveSeen
    <3>2. /\ \A a \in DOMAIN portfolios :
               /\ PortfolioOf(before, a)
               /\ a \in DOMAIN equities => SharesOf(before, a)
          /\ \A a \in DOMAIN options : ContractsOf(before, a)
          /\ \A x \in DOMAIN quotes : quotes[x].price = before.price[x]
          /\ \A o \in DOMAIN optionQuotes : optionQuotes[o] = before.mark[o]
      BY <2>1, <3>1 DEF SeenInv, OneMoveSeen
    <3> QED
      BY <1>0, <1>1, <3>1, <3>2
         DEF OneMoveSeen, PortfolioOf, SharesOf, ContractsOf, answers
  <2>2. CASE moves # 0
    <3>1. moves' \notin {0, 1} /\ ~(moves' < 2)
      BY <1>1, <2>2 DEF SeenInv, AnswersTyped
    <3> QED
      BY <3>1 DEF OneMoveSeen
  <2> QED
    BY <2>1, <2>2
<1> QED
  BY <1>2, <1>3, <1>4, <1>5 DEF SeenInv

LEMMA TickSeen ==
  ASSUME SeenInv, Tick
  PROVE  SeenInv'
<1>1. /\ pc \in {"reading", "options", "building"}
      /\ UNCHANGED <<world, before, touched, moves, pc, answers, candidate>>
  BY DEF Tick, Reading
<1>2. AnswersTyped' /\ OptionsAnswered'
  BY <1>1 DEF SeenInv, AnswersTyped, OptionsAnswered, answers,
     RequestedOptions
<1>3. UntouchedSeen'
  BY <1>1 DEF SeenInv, UntouchedSeen, PortfolioOf, SharesOf, ContractsOf,
     answers
<1>4. OneMoveSeen'
  BY <1>1 DEF SeenInv, OneMoveSeen, PortfolioOf, SharesOf, ContractsOf,
     answers
<1>5. Built'
  BY <1>1 DEF Built
<1> QED
  BY <1>2, <1>3, <1>4, <1>5 DEF SeenInv

(***************************************************************************)
(* The reads.                                                              *)
(***************************************************************************)
LEMMA AccountsSeen ==
  ASSUME IndInv, SeenInv, NEW listed \in SUBSET Accounts, ReadAccounts(listed)
  PROVE  SeenInv'
<1>1. /\ pc = "accounts" /\ pc' = "reading" /\ DOMAIN accounts' = listed
      /\ UNCHANGED <<world, before, touched, moves, portfolios, equities>>
      /\ UNCHANGED <<options, quotes, optionQuotes, optionInstruments>>
  BY DEF ReadAccounts, provider
<1>2. AnswersTyped' /\ OptionsAnswered'
  BY <1>1 DEF SeenInv, AnswersTyped, OptionsAnswered
<1>3. UntouchedSeen'
  BY <1>1 DEF SeenInv, UntouchedSeen, PortfolioOf, SharesOf, ContractsOf
<1>4. OneMoveSeen'
  BY <1>1 DEF SeenInv, OneMoveSeen, PortfolioOf, SharesOf, ContractsOf
<1>5. Built'
  BY <1>1 DEF Built
<1> QED
  BY <1>2, <1>3, <1>4, <1>5 DEF SeenInv

LEMMA PortfolioSeen ==
  ASSUME IndInv, SeenInv, NEW a \in Accounts, NEW complete \in BOOLEAN,
         ReadPortfolio(a, complete)
  PROVE  SeenInv'
<1>1. PICK r : /\ portfolios' = WithAnswer(portfolios, a, r)
               /\ r.total = Worth(world, a) /\ r.cash = world.cash[a]
               /\ r.other = world.other[a]
  BY DEF ReadPortfolio
<1>2. /\ pc = "reading" /\ pc' = pc /\ a \notin DOMAIN portfolios
      /\ UNCHANGED <<world, before, touched, moves, accounts, equities>>
      /\ UNCHANGED <<options, quotes, optionQuotes, optionInstruments>>
  BY DEF ReadPortfolio, provider, Started
<1>3. /\ DOMAIN portfolios' = DOMAIN portfolios \cup {a}
      /\ portfolios'[a] = r
      /\ \A b \in DOMAIN portfolios :
           b # a /\ portfolios'[b] = portfolios[b]
  <2>1. PICK f, g : f = portfolios /\ g = portfolios'
    OBVIOUS
  <2>2. g = WithAnswer(f, a, r) /\ a \notin DOMAIN f
    BY <1>1, <1>2, <2>1
  <2>3. /\ DOMAIN g = DOMAIN f \cup {a} /\ g[a] = r
        /\ \A b \in DOMAIN f : b # a /\ g[b] = f[b]
    BY <2>2 DEF WithAnswer
  <2> QED
    BY <2>1, <2>3
<1>4. a \notin DOMAIN equities
  BY <1>2 DEF IndInv, ReadInOrder
<1>5. AnswersTyped' /\ OptionsAnswered'
  BY <1>2 DEF SeenInv, AnswersTyped, OptionsAnswered
<1>6. UntouchedSeen'
  BY <1>1, <1>2, <1>3
     DEF SeenInv, UntouchedSeen, PortfolioOf, SharesOf, ContractsOf
<1>7. OneMoveSeen'
  <2>1. ASSUME NEW b \in DOMAIN portfolios', moves < 2
        PROVE  \E v \in {before, world} :
                 /\ /\ portfolios'[b].total = Worth(v, b)
                    /\ portfolios'[b].cash = v.cash[b]
                    /\ portfolios'[b].other = v.other[b]
                 /\ b \in DOMAIN equities =>
                      \E w \in {v, world} : SharesOf(w, b)
    <3>1. CASE b = a
      BY <1>1, <1>3, <1>4, <3>1
    <3>2. CASE b # a
      <4>1. b \in DOMAIN portfolios /\ portfolios'[b] = portfolios[b]
        BY <1>3, <3>2
      <4>2. PICK v \in {before, world} :
              /\ PortfolioOf(v, b)
              /\ b \in DOMAIN equities => \E w \in {v, world} : SharesOf(w, b)
        BY <2>1, <4>1 DEF SeenInv, OneMoveSeen
      <4> QED
        BY <4>1, <4>2 DEF PortfolioOf
    <3> QED
      BY <3>1, <3>2
  <2> QED
    BY <1>2, <2>1
       DEF SeenInv, OneMoveSeen, PortfolioOf, SharesOf, ContractsOf
<1>8. Built'
  BY <1>2 DEF Built
<1> QED
  BY <1>5, <1>6, <1>7, <1>8 DEF SeenInv

LEMMA EquitiesSeen ==
  ASSUME IndInv, SeenInv, NEW a \in Accounts, NEW listed \in SUBSET Symbols,
         ReadEquityPositions(a, listed)
  PROVE  SeenInv'
<1>1. PICK r : /\ equities' = WithAnswer(equities, a, r)
               /\ r.rows = [x \in listed |-> world.shares[a][x]]
  <2> DEFINE r == [rows |-> [x \in listed |-> world.shares[a][x]],
                   sourceAsOf |-> clock]
  <2>1. equities' = WithAnswer(equities, a, r)
    BY DEF ReadEquityPositions
  <2>2. r.rows = [x \in listed |-> world.shares[a][x]]
    OBVIOUS
  <2> QED
    BY <2>1, <2>2
<1>2. /\ pc = "reading" /\ pc' = pc /\ a \notin DOMAIN equities
      /\ {x \in Symbols : world.shares[a][x] > 0} \subseteq listed
      /\ UNCHANGED <<world, before, touched, moves, accounts, portfolios>>
      /\ UNCHANGED <<options, quotes, optionQuotes, optionInstruments>>
  BY DEF ReadEquityPositions, provider
<1>3. /\ DOMAIN equities' = DOMAIN equities \cup {a}
      /\ equities'[a] = r
      /\ \A b \in DOMAIN equities : b # a /\ equities'[b] = equities[b]
  <2>1. PICK f, g : f = equities /\ g = equities'
    OBVIOUS
  <2>2. g = WithAnswer(f, a, r) /\ a \notin DOMAIN f
    BY <1>1, <1>2, <2>1
  <2>3. /\ DOMAIN g = DOMAIN f \cup {a} /\ g[a] = r
        /\ \A b \in DOMAIN f : b # a /\ g[b] = f[b]
    BY <2>2 DEF WithAnswer
  <2> QED
    BY <2>1, <2>3
<1>4. Lists(r.rows, world.shares[a], Symbols)
  <2>1. \A x \in Symbols : world.shares[a][x] \in Nat
    BY DEF IndInv, TypeOK, ProviderStates
  <2> QED
    BY <1>1, <1>2, <2>1 DEF Lists
<1>5. AnswersTyped' /\ OptionsAnswered'
  BY <1>2 DEF SeenInv, AnswersTyped, OptionsAnswered
<1>6. UntouchedSeen'
  BY <1>2, <1>3, <1>4
     DEF SeenInv, UntouchedSeen, PortfolioOf, SharesOf, ContractsOf
<1>7. OneMoveSeen'
  <2>1. ASSUME NEW b \in DOMAIN portfolios, moves < 2
        PROVE  \E v \in {before, world} :
                 /\ PortfolioOf(v, b)
                 /\ b \in DOMAIN equities' =>
                      \E w \in {v, world} :
                        Lists(equities'[b].rows, w.shares[b], Symbols)
    <3>1. PICK v \in {before, world} :
            /\ PortfolioOf(v, b)
            /\ b \in DOMAIN equities => \E w \in {v, world} : SharesOf(w, b)
      BY <2>1 DEF SeenInv, OneMoveSeen
    <3> QED
      BY <1>3, <1>4, <3>1 DEF SharesOf
  <2> QED
    BY <1>2, <2>1
       DEF SeenInv, OneMoveSeen, PortfolioOf, SharesOf, ContractsOf
<1>8. Built'
  BY <1>2 DEF Built
<1> QED
  BY <1>5, <1>6, <1>7, <1>8 DEF SeenInv

LEMMA OptionsSeen ==
  ASSUME IndInv, SeenInv, NEW a \in Accounts, ReadOptionPositions(a)
  PROVE  SeenInv'
<1>1. PICK r : /\ options' = WithAnswer(options, a, r)
               /\ r = [o \in {q \in OptionIds : world.contracts[a][q] > 0}
                         |-> world.contracts[a][o]]
  BY DEF ReadOptionPositions
<1>2. /\ pc = "reading" /\ pc' = pc /\ a \notin DOMAIN options
      /\ UNCHANGED <<world, before, touched, moves, accounts, portfolios>>
      /\ UNCHANGED <<equities, quotes, optionQuotes, optionInstruments>>
  BY DEF ReadOptionPositions, provider, Finished
<1>3. /\ DOMAIN options' = DOMAIN options \cup {a}
      /\ options'[a] = r
      /\ \A b \in DOMAIN options : b # a /\ options'[b] = options[b]
  <2>1. PICK f, g : f = options /\ g = options'
    OBVIOUS
  <2>2. g = WithAnswer(f, a, r) /\ a \notin DOMAIN f
    BY <1>1, <1>2, <2>1
  <2>3. /\ DOMAIN g = DOMAIN f \cup {a} /\ g[a] = r
        /\ \A b \in DOMAIN f : b # a /\ g[b] = f[b]
    BY <2>2 DEF WithAnswer
  <2> QED
    BY <2>1, <2>3
<1>4. Lists(r, world.contracts[a], OptionIds) /\ DOMAIN r \subseteq OptionIds
  <2>1. \A o \in OptionIds : world.contracts[a][o] \in Nat
    BY DEF IndInv, TypeOK, ProviderStates
  <2> QED
    BY <1>1, <2>1 DEF Lists
<1>5. AnswersTyped' /\ OptionsAnswered'
  BY <1>2, <1>3, <1>4 DEF SeenInv, AnswersTyped, OptionsAnswered
<1>6. UntouchedSeen'
  BY <1>2, <1>3, <1>4
     DEF SeenInv, UntouchedSeen, PortfolioOf, SharesOf, ContractsOf
<1>7. OneMoveSeen'
  <2>1. ASSUME NEW b \in DOMAIN options', moves < 2
        PROVE  \E w \in {before, world} :
                 Lists(options'[b], w.contracts[b], OptionIds)
    BY <1>3, <1>4, <2>1 DEF SeenInv, OneMoveSeen, ContractsOf
  <2> QED
    BY <1>2, <2>1
       DEF SeenInv, OneMoveSeen, PortfolioOf, SharesOf, ContractsOf
<1>8. Built'
  BY <1>2 DEF Built
<1> QED
  BY <1>5, <1>6, <1>7, <1>8 DEF SeenInv

LEMMA QuotesSeen ==
  ASSUME IndInv, SeenInv, ReadEquityQuotes
  PROVE  SeenInv'
<1> DEFINE Asked == UNION {DOMAIN equities[a].rows : a \in DOMAIN equities}
<1>1. /\ quotes' = [x \in Asked |-> MapQuote(x)]
      /\ pc = "reading"
      /\ pc' = IF RequestedOptions = {} THEN "building" ELSE "options"
      /\ UNCHANGED <<world, before, touched, moves, accounts, portfolios>>
      /\ UNCHANGED <<equities, options, optionQuotes, optionInstruments>>
  BY DEF ReadEquityQuotes, provider
<1>2. /\ Asked \subseteq Symbols /\ DOMAIN quotes' = Asked
      /\ \A x \in Asked : quotes'[x].price = LastTrade(world.trades[x]).price
  BY <1>1 DEF IndInv, ReadsTimed, MapQuote
<1>3. ASSUME NEW x \in Symbols
      PROVE  LastTrade(world.trades[x]).price \in Int
  <2>1. /\ world.trades[x].regular \in Prints
        /\ world.trades[x].extended \in Prints \cup {NoPrint}
    BY DEF IndInv, TypeOK, ProviderStates
  <2> QED
    BY <2>1 DEF LastTrade, Prints
<1> HIDE DEF Asked
<1>4. AnswersTyped'
  BY <1>1, <1>2, <1>3 DEF SeenInv, AnswersTyped
<1>5. OptionsAnswered'
  <2>1. RequestedOptions' = RequestedOptions /\ DOMAIN Nothing = {}
    BY <1>1 DEF RequestedOptions, Nothing
  <2> QED
    BY <1>1, <2>1 DEF SeenInv, OptionsAnswered
<1>6. UntouchedSeen'
  BY <1>1, <1>2
     DEF SeenInv, UntouchedSeen, PortfolioOf, SharesOf, ContractsOf
<1>7. OneMoveSeen'
  <2>1. ASSUME world.trades = before.trades, NEW x \in Asked
        PROVE  quotes'[x].price = before.price[x]
    <3>1. before.price[x] = LastTrade(before.trades[x]).price
      BY <1>2, ProviderAssumption DEF SeenInv, AnswersTyped
    <3> QED
      BY <1>2, <2>1, <3>1
  <2> QED
    BY <1>1, <1>2, <2>1
       DEF SeenInv, OneMoveSeen, PortfolioOf, SharesOf, ContractsOf
<1>8. Built'
  BY <1>1 DEF Built
<1> QED
  BY <1>4, <1>5, <1>6, <1>7, <1>8 DEF SeenInv

LEMMA RequestedTyped ==
  ASSUME SeenInv
  PROVE  RequestedOptions \subseteq OptionIds
BY DEF SeenInv, AnswersTyped, RequestedOptions

LEMMA OptionQuotesSeen ==
  ASSUME IndInv, SeenInv, ReadOptionQuotes
  PROVE  SeenInv'
<1>1. /\ optionQuotes' = [o \in RequestedOptions |-> world.mark[o]]
      /\ pc = "options"
      /\ pc' = IF optionInstruments = Nothing THEN pc ELSE "building"
      /\ UNCHANGED <<world, before, touched, moves, accounts, portfolios>>
      /\ UNCHANGED <<equities, options, quotes, optionInstruments>>
  BY DEF ReadOptionQuotes, provider
<1>2. /\ RequestedOptions \subseteq OptionIds
      /\ RequestedOptions' = RequestedOptions
      /\ DOMAIN optionQuotes' = RequestedOptions
      /\ \A o \in RequestedOptions :
           optionQuotes'[o] = world.mark[o] /\ world.mark[o] \in Int
  BY <1>1, RequestedTyped
     DEF RequestedOptions, IndInv, TypeOK, ProviderStates
<1>3. AnswersTyped'
  BY <1>1, <1>2 DEF SeenInv, AnswersTyped
<1>4. OptionsAnswered'
  BY <1>1, <1>2 DEF SeenInv, OptionsAnswered
<1>5. UntouchedSeen'
  BY <1>1, <1>2
     DEF SeenInv, UntouchedSeen, PortfolioOf, SharesOf, ContractsOf
<1>6. OneMoveSeen'
  BY <1>1, <1>2
     DEF SeenInv, OneMoveSeen, PortfolioOf, SharesOf, ContractsOf
<1>7. Built'
  BY <1>1 DEF Built
<1> QED
  BY <1>3, <1>4, <1>5, <1>6, <1>7 DEF SeenInv

LEMMA OptionInstrumentsSeen ==
  ASSUME IndInv, SeenInv, ReadOptionInstruments
  PROVE  SeenInv'
<1>1. /\ optionInstruments' = [o \in RequestedOptions |-> Multiplier[o]]
      /\ pc = "options"
      /\ pc' = IF optionQuotes = Nothing THEN pc ELSE "building"
      /\ UNCHANGED <<world, before, touched, moves, accounts, portfolios>>
      /\ UNCHANGED <<equities, options, quotes, optionQuotes>>
  BY DEF ReadOptionInstruments, provider
<1>2. /\ RequestedOptions' = RequestedOptions
      /\ DOMAIN optionInstruments' = RequestedOptions
      /\ \A o \in RequestedOptions : optionInstruments'[o] = Multiplier[o]
  BY <1>1 DEF RequestedOptions
<1>3. AnswersTyped'
  BY <1>1, <1>2 DEF SeenInv, AnswersTyped
<1>4. OptionsAnswered'
  BY <1>1, <1>2 DEF SeenInv, OptionsAnswered
<1>5. UntouchedSeen'
  BY <1>1 DEF SeenInv, UntouchedSeen, PortfolioOf, SharesOf, ContractsOf
<1>6. OneMoveSeen'
  BY <1>1 DEF SeenInv, OneMoveSeen, PortfolioOf, SharesOf, ContractsOf
<1>7. Built'
  BY <1>1 DEF Built
<1> QED
  BY <1>3, <1>4, <1>5, <1>6, <1>7 DEF SeenInv

\* What is made of the answers is the same while they are.
LEMMA SameAnswers ==
  ASSUME UNCHANGED answers
  PROVE  /\ \A a : /\ AccountDetail(a)' = AccountDetail(a)
                   /\ Included(a)' = Included(a)
                   /\ Reconciled(a)' = Reconciled(a)
         /\ Listed' = Listed
BY DEF answers, AccountDetail, Included, Reconciled, Residual, Exceeds,
   Magnitude, SupportedValue, UnsupportedValue, Values, OptionValues,
   EquityValue, OptionValue, Listed

\* Where the world and the answers stay, so does what is known of them.
LEMMA SameSeen ==
  ASSUME SeenInv, UNCHANGED <<world, before, touched, moves, answers>>,
         \/ pc' = pc
         \/ pc' = "failed"
         \/ pc = "building" /\ pc' \in {"promoted", "rejected"}
  PROVE  AnswersTyped' /\ OptionsAnswered' /\ UntouchedSeen' /\ OneMoveSeen'
<1>1. AnswersTyped' /\ OptionsAnswered'
  BY DEF SeenInv, AnswersTyped, OptionsAnswered, answers, RequestedOptions
<1>2. UntouchedSeen'
  BY DEF SeenInv, UntouchedSeen, PortfolioOf, SharesOf, ContractsOf, answers
<1>3. OneMoveSeen'
  BY DEF SeenInv, OneMoveSeen, PortfolioOf, SharesOf, ContractsOf, answers
<1> QED
  BY <1>1, <1>2, <1>3

LEMMA BuildSeen ==
  ASSUME IndInv, SeenInv, BuildSnapshotPromotion
  PROVE  SeenInv'
<1>1. /\ pc = "building" /\ pc' \in {"promoted", "rejected"}
      /\ UNCHANGED <<world, before, touched, moves, answers>>
  BY DEF BuildSnapshotPromotion, provider
<1>2. Built'
  <2> SUFFICES ASSUME pc' = "promoted" PROVE Built'
    BY DEF Built
  <2>1. /\ \A a \in Listed : Reconciled(a)
        /\ candidate'.total = SumFunction([a \in {b \in Listed : Included(b)}
                                             |-> portfolios[a].total])
        /\ candidate'.accounts = [a \in Listed |-> AccountDetail(a)]
    BY DEF BuildSnapshotPromotion, Eligible, Candidate
  <2>2. [a \in Listed |-> AccountDetail(a)]'
          = [a \in Listed |-> AccountDetail(a)]
    BY <1>1, SameAnswers
  <2>3. [a \in {b \in Listed : Included(b)} |-> portfolios[a].total]'
          = [a \in {b \in Listed : Included(b)} |-> portfolios[a].total]
    BY <1>1, SameAnswers DEF answers
  <2> QED
    BY <1>1, <2>1, <2>2, <2>3, SameAnswers DEF Built
<1> QED
  BY <1>1, <1>2, SameSeen DEF SeenInv

LEMMA StutterSeen ==
  ASSUME SeenInv, UNCHANGED vars
  PROVE  SeenInv'
<1>1. UNCHANGED <<world, before, touched, moves, pc, answers, candidate>>
  BY DEF vars, provider
<1>2. Built'
  <2>1. [a \in Listed |-> AccountDetail(a)]'
          = [a \in Listed |-> AccountDetail(a)]
    BY <1>1, SameAnswers
  <2>2. [a \in {b \in Listed : Included(b)} |-> portfolios[a].total]'
          = [a \in {b \in Listed : Included(b)} |-> portfolios[a].total]
    BY <1>1, SameAnswers DEF answers
  <2> QED
    BY <1>1, <2>1, <2>2, SameAnswers DEF SeenInv, Built
<1> QED
  BY <1>1, <1>2, SameSeen DEF SeenInv

LEMMA FailSeen ==
  ASSUME SeenInv, ReadFails
  PROVE  SeenInv'
<1>1. /\ pc' = "failed"
      /\ UNCHANGED <<world, before, touched, moves, answers>>
  BY DEF ReadFails, provider
<1>2. Built'
  BY <1>1 DEF Built
<1> QED
  BY <1>1, <1>2, SameSeen DEF SeenInv

LEMMA NextSeen == IndInv /\ SeenInv /\ [Next]_vars => SeenInv'
<1> SUFFICES ASSUME IndInv, SeenInv, [Next]_vars PROVE SeenInv'
  OBVIOUS
<1>1. CASE Provider /\ ~Tick
  <2>1. PICK next, changed : Moves(next, changed)
    BY <1>1, ProviderMoves
  <2> QED
    BY <2>1, MoveSeen
<1>2. CASE Tick
  BY <1>2, TickSeen
<1>3. CASE Refresh
  <2>1. CASE \E listed \in SUBSET Accounts : ReadAccounts(listed)
    BY <2>1, AccountsSeen
  <2>2. CASE \E a \in Accounts, complete \in BOOLEAN :
               ReadPortfolio(a, complete)
    BY <2>2, PortfolioSeen
  <2>3. CASE \E a \in Accounts, listed \in SUBSET Symbols :
               ReadEquityPositions(a, listed)
    BY <2>3, EquitiesSeen
  <2>4. CASE \E a \in Accounts : ReadOptionPositions(a)
    BY <2>4, OptionsSeen
  <2>5. CASE \/ ReadEquityQuotes \/ ReadOptionQuotes \/ ReadOptionInstruments
             \/ ReadFails \/ BuildSnapshotPromotion
    BY <2>5, QuotesSeen, OptionQuotesSeen, OptionInstrumentsSeen, FailSeen,
       BuildSeen
  <2> QED
    BY <1>3, <2>1, <2>2, <2>3, <2>4, <2>5 DEF Refresh
<1>4. CASE UNCHANGED vars
  BY <1>4, StutterSeen
<1> QED
  BY <1>1, <1>2, <1>3, <1>4 DEF Next

\* What the reads have seen is an invariant of every behaviour.
THEOREM SeenInvariance == Spec => []SeenInv
<1>1. Spec => []IndInv
  BY Invariance
<1> QED
  BY <1>1, InitSeen, NextSeen, PTL DEF Spec

(***************************************************************************)
(* What a promoted snapshot shows of an account.                           *)
(***************************************************************************)
LEMMA SumFunctionIs ==
  ASSUME NEW fun
  PROVE  SumFunction(fun) = SumFunctionOnSet(fun, DOMAIN fun)
BY DEF SumFunction

LEMMA AllRead ==
  ASSUME IndInv, SeenInv, pc = "promoted", NEW a \in Listed
  PROVE  /\ a \in Accounts /\ a \in DOMAIN portfolios
         /\ a \in DOMAIN equities /\ a \in DOMAIN options
         /\ DOMAIN equities[a].rows \subseteq Symbols
         /\ DOMAIN equities[a].rows \subseteq DOMAIN quotes
         /\ DOMAIN options[a] \subseteq OptionIds
         /\ DOMAIN options[a] \subseteq DOMAIN optionQuotes
         /\ \A o \in DOMAIN options[a] : optionInstruments[o] = Multiplier[o]
         /\ candidate.accounts[a] = AccountDetail(a)
         /\ Reconciled(a)
<1>1. /\ DOMAIN options = Listed /\ DOMAIN equities = Listed
      /\ DOMAIN portfolios = Listed
      /\ DOMAIN quotes = UNION {DOMAIN equities[b].rows : b \in DOMAIN equities}
  BY DEF IndInv, ReadInOrder, Listed
<1>2. /\ DOMAIN optionQuotes = RequestedOptions
      /\ DOMAIN optionInstruments = RequestedOptions
      /\ DOMAIN options[a] \subseteq RequestedOptions
  BY <1>1 DEF SeenInv, OptionsAnswered, RequestedOptions
<1>3. a \in Accounts /\ DOMAIN options[a] \subseteq OptionIds
  BY <1>1 DEF SeenInv, AnswersTyped, Listed
<1>4. DOMAIN equities[a].rows \subseteq Symbols
  BY <1>1 DEF IndInv, ReadsTimed
<1>5. candidate.accounts[a] = AccountDetail(a) /\ Reconciled(a)
  BY DEF SeenInv, Built
<1>6. \A o \in DOMAIN options[a] : optionInstruments[o] = Multiplier[o]
  BY <1>2 DEF SeenInv, AnswersTyped
<1> QED
  BY <1>1, <1>2, <1>3, <1>4, <1>5, <1>6

\* Where the rows are the holdings of a world, priced as it prices them, the
\* positions' values add up to what the holdings are worth in it.
LEMMA StocksAddUp ==
  ASSUME IndInv, SeenInv, pc = "promoted", NEW a \in Listed,
         NEW w \in ProviderStates, SharesOf(w, a),
         \A x \in DOMAIN quotes :
           w.shares[a][x] > 0 => quotes[x].price = w.price[x]
  PROVE  /\ SumFunction(StockWorth(w, a))
              = SumFunctionOnSet(Values(a), DOMAIN Values(a) \cap Supported)
                + SumFunctionOnSet(Values(a), DOMAIN Values(a) \ Supported)
         /\ SumFunctionOnSet(Values(a), DOMAIN Values(a) \cap Supported) \in Int
         /\ SumFunctionOnSet(Values(a), DOMAIN Values(a) \ Supported) \in Int
<1> DEFINE rows == DOMAIN equities[a].rows
           worth == StockWorth(w, a)
           values == Values(a)
<1>1. /\ a \in Accounts /\ rows \subseteq Symbols /\ rows \subseteq DOMAIN quotes
      /\ IsFiniteSet(Symbols) /\ IsFiniteSet(rows)
  BY AllRead, SupportedAssumption, FS_Subset
<1>2. DOMAIN worth = Symbols /\ DOMAIN values = rows
  BY DEF StockWorth, Values
<1>3. ASSUME NEW x \in Symbols
      PROVE  /\ worth[x] \in Int
             /\ x \notin rows => worth[x] = 0
             /\ x \in rows => values[x] = worth[x]
  <2>1. PICK n, p : n = w.shares[a][x] /\ p = w.price[x]
    OBVIOUS
  <2>2. n \in Nat /\ p \in Int /\ worth[x] = n * p
    BY <1>1, <2>1 DEF ProviderStates, StockWorth
  <2>3. IF x \in rows THEN equities[a].rows[x] = n ELSE n = 0
    BY <2>1 DEF SharesOf, Lists
  <2>4. ASSUME x \in rows PROVE values[x] = n * p
    <3>1. PICK q : q = quotes[x].price
      OBVIOUS
    <3>2. q \in Int /\ (n > 0 => q = p)
      BY <1>1, <2>1, <2>4, <3>1 DEF SeenInv, AnswersTyped
    <3>3. values[x] = n * q
      BY <2>3, <2>4, <3>1 DEF Values, EquityValue
    <3>4. n * q = n * p
      <4>1. CASE n = 0
        BY <2>2, <3>2, <4>1
      <4>2. CASE n > 0
        BY <3>2, <4>2
      <4> QED
        BY <2>2, <4>1, <4>2
    <3> QED
      BY <3>3, <3>4
  <2>5. n * p \in Int /\ (n = 0 => n * p = 0)
    BY <2>2
  <2> QED
    BY <2>2, <2>3, <2>4, <2>5
<1> HIDE DEF rows, worth, values
<1>4. SumFunctionOnSet(worth, Symbols) = SumFunctionOnSet(worth, rows)
  BY <1>1, <1>3, SumPart
<1>5. SumFunctionOnSet(values, rows) = SumFunctionOnSet(worth, rows)
  <2>1. \A x \in rows : values[x] \in Int /\ values[x] = worth[x]
    BY <1>1, <1>3
  <2> QED
    BY <1>1, <2>1, SumSame
<1>6. /\ IsFiniteSet(rows \cap Supported) /\ IsFiniteSet(rows \ Supported)
      /\ \A x \in rows : values[x] \in Int
  BY <1>1, <1>3, FS_Subset
<1>7. SumFunctionOnSet(values, rows)
        = SumFunctionOnSet(values, rows \cap Supported)
            + SumFunctionOnSet(values, rows \ Supported)
  BY <1>1, <1>6, SumSplit
<1>8. /\ SumFunctionOnSet(values, rows \cap Supported) \in Int
      /\ SumFunctionOnSet(values, rows \ Supported) \in Int
  BY <1>6, SumType
<1>9. SumFunction(worth) = SumFunctionOnSet(worth, Symbols)
  BY <1>2, SumFunctionIs
<1> QED
  BY <1>2, <1>4, <1>5, <1>7, <1>8, <1>9 DEF worth, values

LEMMA OptionsAddUp ==
  ASSUME IndInv, SeenInv, pc = "promoted", NEW a \in Listed,
         NEW w \in ProviderStates, ContractsOf(w, a),
         \A o \in DOMAIN optionQuotes :
           w.contracts[a][o] > 0 => optionQuotes[o] = w.mark[o]
  PROVE  /\ SumFunction(OptionWorth(w, a)) = SumFunction(OptionValues(a))
         /\ SumFunction(OptionValues(a)) \in Int
<1> DEFINE rows == DOMAIN options[a]
           worth == OptionWorth(w, a)
           values == OptionValues(a)
<1>1. /\ a \in Accounts /\ rows \subseteq OptionIds
      /\ rows \subseteq DOMAIN optionQuotes
      /\ IsFiniteSet(OptionIds) /\ IsFiniteSet(rows)
      /\ Multiplier \in [OptionIds -> Int]
      /\ \A o \in rows : optionInstruments[o] = Multiplier[o]
  BY AllRead, SupportedAssumption, FS_Subset
<1>2. DOMAIN worth = OptionIds /\ DOMAIN values = rows
  BY DEF OptionWorth, OptionValues
<1>3. ASSUME NEW o \in OptionIds
      PROVE  /\ worth[o] \in Int
             /\ o \notin rows => worth[o] = 0
             /\ o \in rows => values[o] = worth[o]
  <2>1. PICK n, p, m : /\ n = w.contracts[a][o] /\ p = w.mark[o]
                       /\ m = Multiplier[o]
    OBVIOUS
  <2>2. n \in Nat /\ p \in Int /\ m \in Int /\ worth[o] = n * p * m
    BY <1>1, <2>1 DEF ProviderStates, OptionWorth
  <2>3. IF o \in rows THEN options[a][o] = n ELSE n = 0
    BY <2>1 DEF ContractsOf, Lists
  <2>4. ASSUME o \in rows PROVE values[o] = n * p * m
    <3>1. PICK q : q = optionQuotes[o]
      OBVIOUS
    <3>2. q \in Int /\ (n > 0 => q = p)
      BY <1>1, <2>1, <2>4, <3>1 DEF SeenInv, AnswersTyped
    <3>3. values[o] = n * q * m
      BY <1>1, <2>1, <2>3, <2>4, <3>1 DEF OptionValues, OptionValue
    <3>4. n * q = n * p
      <4>1. CASE n = 0
        BY <2>2, <3>2, <4>1
      <4>2. CASE n > 0
        BY <3>2, <4>2
      <4> QED
        BY <2>2, <4>1, <4>2
    <3> QED
      BY <3>3, <3>4
  <2>5. n * p * m \in Int /\ (n = 0 => n * p * m = 0)
    <3>1. PICK k : k = n * p
      OBVIOUS
    <3>2. k \in Int /\ (n = 0 => k = 0)
      BY <2>2, <3>1
    <3>3. k * m \in Int /\ (k = 0 => k * m = 0)
      BY <2>2, <3>2
    <3> QED
      BY <3>1, <3>2, <3>3
  <2> QED
    BY <2>2, <2>3, <2>4, <2>5
<1> HIDE DEF rows, worth, values
<1>4. SumFunctionOnSet(worth, OptionIds) = SumFunctionOnSet(worth, rows)
  BY <1>1, <1>3, SumPart
<1>5. \A o \in rows : values[o] \in Int /\ values[o] = worth[o]
  BY <1>1, <1>3
<1>6. SumFunctionOnSet(values, rows) = SumFunctionOnSet(worth, rows)
  BY <1>1, <1>5, SumSame
<1>7. SumFunctionOnSet(values, rows) \in Int
  BY <1>1, <1>5, SumType
<1>8. /\ SumFunction(worth) = SumFunctionOnSet(worth, OptionIds)
      /\ SumFunction(values) = SumFunctionOnSet(values, rows)
  BY <1>2, SumFunctionIs
<1> QED
  BY <1>4, <1>6, <1>7, <1>8 DEF worth, values

\* Altogether: whose cash and other assets are of v, and whose holdings of w.
LEMMA PartsAddUp ==
  ASSUME IndInv, SeenInv, pc = "promoted", NEW a \in Listed,
         NEW v \in ProviderStates, NEW w \in ProviderStates,
         PortfolioOf(v, a), SharesOf(w, a), ContractsOf(w, a),
         \A x \in DOMAIN quotes :
           w.shares[a][x] > 0 => quotes[x].price = w.price[x],
         \A o \in DOMAIN optionQuotes :
           w.contracts[a][o] > 0 => optionQuotes[o] = w.mark[o]
  PROVE  /\ portfolios[a].cash + SupportedValue(a) + UnsupportedValue(a)
              = v.cash[a] + v.other[a] + SumFunction(StockWorth(w, a))
                  + SumFunction(OptionWorth(w, a))
         /\ SupportedValue(a) \in Int /\ UnsupportedValue(a) \in Int
         /\ v.cash[a] \in Int /\ v.other[a] \in Int
         /\ SumFunction(StockWorth(w, a)) \in Int
         /\ SumFunction(OptionWorth(w, a)) \in Int
<1> DEFINE S == SumFunctionOnSet(Values(a), DOMAIN Values(a) \cap Supported)
           U == SumFunctionOnSet(Values(a), DOMAIN Values(a) \ Supported)
           O == SumFunction(OptionValues(a))
<1>1. SumFunction(StockWorth(w, a)) = S + U /\ S \in Int /\ U \in Int
  BY StocksAddUp
<1>2. SumFunction(OptionWorth(w, a)) = O /\ O \in Int
  BY OptionsAddUp
<1>3. /\ SupportedValue(a) = S
      /\ UnsupportedValue(a) = portfolios[a].other + U + O
  BY DEF SupportedValue, UnsupportedValue
<1>4. /\ v.cash[a] \in Int /\ v.other[a] \in Int
      /\ portfolios[a].cash = v.cash[a] /\ portfolios[a].other = v.other[a]
  BY AllRead DEF PortfolioOf, ProviderStates
<1> HIDE DEF S, U, O
<1>5. PICK c, e, t, u, o : /\ c = v.cash[a] /\ e = v.other[a]
                           /\ t = S /\ u = U /\ o = O
  OBVIOUS
<1>6. c + t + (e + u + o) = c + e + (t + u) + o
  BY <1>1, <1>2, <1>4, <1>5
<1>7. t \in Int /\ u \in Int /\ o \in Int /\ e \in Int
  BY <1>1, <1>2, <1>4, <1>5
<1> QED
  BY <1>1, <1>2, <1>3, <1>4, <1>5, <1>6, <1>7

LEMMA UntouchedAddsUp ==
  ASSUME IndInv, SeenInv, pc = "promoted", NEW a \in Listed \ touched
  PROVE  /\ portfolios[a].total = Worth(world, a)
         /\ portfolios[a].cash + SupportedValue(a) + UnsupportedValue(a)
              = Worth(world, a)
         /\ Worth(world, a) \in Int
<1>1. world \in ProviderStates
  BY DEF IndInv, TypeOK
<1>2. /\ a \in Accounts \ touched /\ a \in DOMAIN portfolios
      /\ a \in DOMAIN equities /\ a \in DOMAIN options
  BY AllRead
<1>3. /\ PortfolioOf(world, a) /\ SharesOf(world, a) /\ ContractsOf(world, a)
      /\ \A x \in DOMAIN quotes :
           world.shares[a][x] > 0 => quotes[x].price = world.price[x]
      /\ \A o \in DOMAIN optionQuotes :
           world.contracts[a][o] > 0 => optionQuotes[o] = world.mark[o]
  BY <1>2 DEF SeenInv, UntouchedSeen, AnswersTyped
<1>4. /\ portfolios[a].cash + SupportedValue(a) + UnsupportedValue(a)
           = world.cash[a] + world.other[a] + SumFunction(StockWorth(world, a))
               + SumFunction(OptionWorth(world, a))
      /\ world.cash[a] \in Int /\ world.other[a] \in Int
      /\ SumFunction(StockWorth(world, a)) \in Int
      /\ SumFunction(OptionWorth(world, a)) \in Int
  BY <1>1, <1>3, PartsAddUp
<1>5. Worth(world, a) \in Int
  BY <1>4 DEF Worth
<1> QED
  BY <1>3, <1>4, <1>5 DEF PortfolioOf, Worth

\* buildSnapshotPromotion: an account that nothing happened to while the reads
\* were made is shown as the provider has it, and the whole is theirs if
\* nothing happened to any, for any accounts and holdings: nothing is lost or
\* counted twice between supported and unsupported, listed and left out.
THEOREM ExactAccounts == Spec => []ExactWhenUntouched
<1>1. IndInv /\ SeenInv => ExactWhenUntouched
  <2> SUFFICES ASSUME IndInv, SeenInv, pc = "promoted"
               PROVE  ExactWhenUntouched
    BY DEF ExactWhenUntouched
  <2>1. ASSUME NEW a \in Listed \ touched
        PROVE  LET shown == candidate.accounts[a] IN
               /\ shown.total = Worth(world, a)
               /\ shown.cash + shown.supported + shown.unsupported
                    = shown.total
               /\ \A x \in Symbols :
                    IF x \in DOMAIN shown.shares
                    THEN shown.shares[x] = world.shares[a][x]
                    ELSE world.shares[a][x] = 0
    <3>1. candidate.accounts[a] = AccountDetail(a)
      BY AllRead
    <3>2. a \in Accounts \ touched /\ a \in DOMAIN equities
      BY AllRead
    <3>3. SharesOf(world, a)
      BY <3>2 DEF SeenInv, UntouchedSeen
    <3>4. /\ portfolios[a].total = Worth(world, a)
          /\ portfolios[a].cash + SupportedValue(a) + UnsupportedValue(a)
               = Worth(world, a)
      BY UntouchedAddsUp
    <3> QED
      BY <3>1, <3>3, <3>4 DEF AccountDetail, SharesOf, Lists
  <2>2. ASSUME touched = {}
        PROVE  candidate.total = SumFunction([a \in Listed |-> Worth(world, a)])
    <3> DEFINE counted == {b \in Listed : Included(b)}
               shown == [a \in counted |-> portfolios[a].total]
               worth == [a \in Listed |-> Worth(world, a)]
    <3>1. candidate.total = SumFunction(shown)
      BY DEF SeenInv, Built
    <3>2. \A a \in Listed : /\ portfolios[a].total = Worth(world, a)
                            /\ Worth(world, a) \in Int
      BY <2>2, UntouchedAddsUp
    <3>3. IsFiniteSet(Listed) /\ IsFiniteSet(counted)
      <4>1. Listed \subseteq Accounts /\ IsFiniteSet(Accounts)
        BY SupportedAssumption DEF SeenInv, AnswersTyped, Listed
      <4> QED
        BY <4>1, FS_Subset
    <3>4. /\ \A a \in Listed : worth[a] \in Int
          /\ \A a \in Listed \ counted : worth[a] = 0
      BY <3>2 DEF Included
    <3>5. \A a \in counted : shown[a] = worth[a] /\ shown[a] \in Int
      BY <3>2
    <3>6. DOMAIN shown = counted /\ DOMAIN worth = Listed
             /\ counted \in SUBSET Listed
      OBVIOUS
    <3> HIDE DEF counted, shown, worth
    <3>7. SumFunctionOnSet(shown, counted) = SumFunctionOnSet(worth, counted)
      BY <3>3, <3>5, SumSame
    <3>8. SumFunctionOnSet(worth, Listed) = SumFunctionOnSet(worth, counted)
      BY <3>3, <3>4, <3>6, SumPart
    <3>9. candidate.total = SumFunction(worth)
      BY <3>1, <3>6, <3>7, <3>8, SumFunctionIs
    <3> QED
      BY <3>9 DEF worth
  <2> QED
    BY <2>1, <2>2 DEF ExactWhenUntouched
<1> QED
  BY <1>1, Invariance, SeenInvariance, PTL

\* Shares that changed hands between two reads leave their price over.
LEMMA TornIsSeen ==
  ASSUME IndInv, SeenInv, pc = "promoted", moves = 1, NEW a \in Listed,
         NEW x \in Symbols, NEW n \in {-1, 1},
         Exchanged(before, world, a, x, n),
         PortfolioOf(before, a), SharesOf(world, a), ContractsOf(world, a)
  PROVE  Magnitude(Residual(a)) = Magnitude(before.price[x])
<1>1. world \in ProviderStates /\ before \in ProviderStates
  BY ConstantTypes DEF IndInv, TypeOK, SeenInv, AnswersTyped
<1>2. a \in Accounts
  BY AllRead
<1>3. /\ \A y \in DOMAIN quotes : quotes[y].price = world.price[y]
      /\ \A o \in DOMAIN optionQuotes : optionQuotes[o] = world.mark[o]
  BY DEF SeenInv, OneMoveSeen, Exchanged
<1>4. /\ portfolios[a].cash + SupportedValue(a) + UnsupportedValue(a)
           = before.cash[a] + before.other[a]
               + SumFunction(StockWorth(world, a))
               + SumFunction(OptionWorth(world, a))
      /\ SupportedValue(a) \in Int /\ UnsupportedValue(a) \in Int
      /\ before.cash[a] \in Int /\ before.other[a] \in Int
      /\ SumFunction(StockWorth(world, a)) \in Int
      /\ SumFunction(OptionWorth(world, a)) \in Int
  BY <1>1, <1>3, PartsAddUp
<1>5. OptionWorth(before, a) = OptionWorth(world, a)
  BY DEF OptionWorth, Exchanged
<1>6. SumFunction(StockWorth(world, a)) - SumFunction(StockWorth(before, a))
        = n * before.price[x]
      /\ SumFunction(StockWorth(before, a)) \in Int
  <2> DEFINE f == StockWorth(before, a)
             g == StockWorth(world, a)
  <2>1. DOMAIN f = Symbols /\ DOMAIN g = Symbols /\ IsFiniteSet(Symbols)
    BY SupportedAssumption DEF StockWorth
  <2>2. ASSUME NEW y \in Symbols
        PROVE  /\ f[y] \in Int /\ g[y] \in Int
               /\ y # x => f[y] = g[y]
    <3>1. PICK i, j, p : /\ i = before.shares[a][y] /\ j = world.shares[a][y]
                         /\ p = before.price[y]
      OBVIOUS
    <3>2. /\ i \in Nat /\ j \in Nat /\ p \in Int /\ (y # x => i = j)
          /\ p = world.price[y]
      BY <1>1, <1>2, <3>1 DEF ProviderStates, Exchanged
    <3>3. f[y] = i * p /\ g[y] = j * p
      BY <3>1, <3>2 DEF StockWorth
    <3> QED
      BY <3>2, <3>3
  <2>3. g[x] - f[x] = n * before.price[x]
    <3>1. PICK i, p : i = before.shares[a][x] /\ p = before.price[x]
      OBVIOUS
    <3>2. i \in Nat /\ p \in Int
      BY <1>1, <1>2, <3>1 DEF ProviderStates
    <3>3. f[x] = i * p /\ g[x] = (i + n) * p
      BY <3>1 DEF StockWorth, Exchanged
    <3>4. (i + n) * p - i * p = n * p
      BY <3>2
    <3> QED
      BY <3>1, <3>3, <3>4
  <2> HIDE DEF f, g
  <2>4. \A y \in Symbols : f[y] \in Int /\ g[y] \in Int
    BY <2>2
  <2>5. \A y \in Symbols \ {x} : f[y] = g[y]
    BY <2>2
  <2>6. SumFunctionOnSet(g, Symbols) - SumFunctionOnSet(f, Symbols)
          = g[x] - f[x]
    BY <2>1, <2>4, <2>5, SumChange
  <2>7. SumFunctionOnSet(f, Symbols) \in Int
    BY <2>1, <2>4, SumType
  <2>8. /\ SumFunction(f) = SumFunctionOnSet(f, Symbols)
        /\ SumFunction(g) = SumFunctionOnSet(g, Symbols)
    BY <2>1, SumFunctionIs
  <2> QED
    BY <2>3, <2>6, <2>7, <2>8 DEF f, g
<1>7. before.price[x] \in Int
  BY <1>1 DEF ProviderStates
<1>8. PICK c, e, t, r, o, s, u, p :
        /\ c = before.cash[a] /\ e = before.other[a]
        /\ t = SumFunction(StockWorth(before, a))
        /\ r = SumFunction(StockWorth(world, a))
        /\ o = SumFunction(OptionWorth(world, a))
        /\ s = SupportedValue(a) /\ u = UnsupportedValue(a)
        /\ p = before.price[x]
  OBVIOUS
<1>9. /\ c \in Int /\ e \in Int /\ t \in Int /\ r \in Int /\ o \in Int
      /\ s \in Int /\ u \in Int /\ p \in Int
      /\ c + s + u = c + e + r + o /\ r - t = n * p
  BY <1>4, <1>6, <1>7, <1>8 DEF PortfolioOf
<1>10. Residual(a) = c + e + t + o - c - s - u
  <2>1. Worth(before, a) = c + e + t + o
    BY <1>5, <1>8 DEF Worth
  <2>2. portfolios[a].total = Worth(before, a) /\ portfolios[a].cash = c
    BY <1>8 DEF PortfolioOf
  <2> QED
    BY <1>8, <1>9, <2>1, <2>2 DEF Residual
<1>11. Residual(a) = t - r
  BY <1>9, <1>10
<1>12. CASE n = 1
  <2>1. t - r = -p
    BY <1>9, <1>12
  <2> QED
    BY <1>8, <1>9, <1>11, <2>1 DEF Magnitude
<1>13. CASE n = -1
  <2>1. t - r = p
    BY <1>9, <1>13
  <2> QED
    BY <1>8, <1>9, <1>11, <2>1 DEF Magnitude
<1> QED
  BY <1>12, <1>13

\* reconcileAccount: with one change at the provider between the first read
\* and the last, no account is shown half before it and half after it, where
\* a share costs more than the tolerance, for any accounts and holdings.
THEOREM NoTornAccount == Spec => []SingleMoveSeenWhole
<1>1. IndInv /\ SeenInv => SingleMoveSeenWhole
  <2> SUFFICES ASSUME IndInv, SeenInv, pc = "promoted", moves = 1,
                      NEW a \in Listed,
                      \A x \in Symbols :
                        Exceeds(before.price[x], Worth(before, a))
               PROVE  \E w \in {before, world} :
                        /\ candidate.accounts[a].cash = w.cash[a]
                        /\ \A x \in DOMAIN candidate.accounts[a].shares :
                             candidate.accounts[a].shares[x] = w.shares[a][x]
                        /\ \A o \in DOMAIN candidate.accounts[a].contracts :
                             candidate.accounts[a].contracts[o]
                               = w.contracts[a][o]
    BY DEF SingleMoveSeenWhole
  <2>1. /\ a \in Accounts /\ a \in DOMAIN portfolios
        /\ a \in DOMAIN equities /\ a \in DOMAIN options
        /\ DOMAIN equities[a].rows \subseteq Symbols
        /\ DOMAIN options[a] \subseteq OptionIds
        /\ candidate.accounts[a] = AccountDetail(a) /\ Reconciled(a)
    BY AllRead
  <2>2. OneChange(before, world)
    BY DEF SeenInv, OneMoveSeen
  <2>3. PICK v \in {before, world} :
          PortfolioOf(v, a) /\ \E w \in {v, world} : SharesOf(w, a)
    BY <2>1 DEF SeenInv, OneMoveSeen
  <2>4. ContractsOf(before, a) /\ ContractsOf(world, a)
    BY <2>1, <2>2 DEF SeenInv, OneMoveSeen, ContractsOf, OneChange
  <2>5. SharesOf(v, a)
    <3>1. PICK w \in {v, world} : SharesOf(w, a)
      BY <2>3
    <3>2. CASE w = v \/ v = world \/ world.shares[a] = before.shares[a]
      BY <2>3, <3>1, <3>2 DEF SharesOf
    <3>3. CASE v = before /\ w = world /\ world.shares[a] # before.shares[a]
      <4>1. PICK b \in Accounts, x \in Symbols, n \in {-1, 1} :
              Exchanged(before, world, b, x, n)
        BY <2>2, <3>3 DEF OneChange
      <4>2. b = a
        BY <2>1, <3>3, <4>1 DEF Exchanged
      <4>3. Magnitude(Residual(a)) = Magnitude(before.price[x])
        BY <2>3, <2>4, <3>1, <3>3, <4>1, <4>2, TornIsSeen
      <4>4. before.price[x] \in Int
        BY ConstantTypes DEF SeenInv, AnswersTyped, ProviderStates
      <4>5. Exceeds(before.price[x], Worth(before, a))
        OBVIOUS
      <4>6. Magnitude(before.price[x]) = before.price[x]
        BY <4>4, <4>5 DEF Exceeds, Magnitude
      <4>7. Exceeds(Magnitude(Residual(a)), portfolios[a].total)
        BY <2>3, <3>3, <4>3, <4>5, <4>6 DEF PortfolioOf
      <4> QED
        BY <2>1, <4>7 DEF Reconciled
    <3> QED
      BY <2>3, <3>1, <3>2, <3>3
  <2>6. /\ candidate.accounts[a].cash = v.cash[a]
        /\ \A x \in DOMAIN candidate.accounts[a].shares :
             candidate.accounts[a].shares[x] = v.shares[a][x]
        /\ \A o \in DOMAIN candidate.accounts[a].contracts :
             candidate.accounts[a].contracts[o] = v.contracts[a][o]
    BY <2>1, <2>3, <2>4, <2>5
       DEF AccountDetail, PortfolioOf, SharesOf, ContractsOf, Lists
  <2> QED
    BY <2>6
<1> QED
  BY <1>1, Invariance, SeenInvariance, PTL
=============================================================================
