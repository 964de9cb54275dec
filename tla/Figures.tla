------------------------------ MODULE Figures ------------------------------
(***************************************************************************)
(* The figures the pages show (read-models/connected-source.ts and         *)
(* domain/metrics.ts), beside the portfolio they are about.  The portfolio *)
(* lives: prices move, the owner trades, pays in, pays out, closes an      *)
(* account.  Now and then a snapshot of it is promoted, and the figures    *)
(* are computed from what the promotion stored.                            *)
(*                                                                         *)
(* Amounts are integers of the smallest unit: the code's decimals are      *)
(* exact.  Whatever happens takes an instant of its own.  How a candidate  *)
(* is read piece by piece is SnapshotBuild's subject: here it is read at   *)
(* once.  "gained" records what the markets have made of the portfolio,    *)
(* dividends included; nothing the code does reads it.                     *)
(***************************************************************************)
EXTENDS Integers, Sequences, FiniteSetsExt

CONSTANTS
  Accounts, Securities, OptionIds,
  ClassOf,          \* asset class of a security
  Prices, Marks,    \* of a security and of an option contract
  Portfolios,       \* what there may be at first
  Roundings,        \* what the provider's total may be off by
  Amounts,          \* of money paid in or out, or received
  DayLength, CloseTick, BoundarySpan, FirstInstant, LastInstant,
  MaxEvents, MaxSnapshots, Tolerance,
  Unknown           \* a cost basis the provider does not report

VARIABLES now, portfolio, gained, events, activity, snapshots

figuresVars == <<now, portfolio, gained, events, activity, snapshots>>

SumOf(f(_), S) == SumFunctionOnSet([x \in S |-> f(x)], S)

(***************************************************************************)
(* The portfolio.  A position's basis is what was paid for it, or Unknown. *)
(***************************************************************************)
PortfolioType ==
  [shares : [Accounts -> [Securities -> Int]],
   contracts : [Accounts -> [OptionIds -> Int]],
   cash : [Accounts -> Int], other : [Accounts -> Int],
   basis : [Accounts -> [Securities -> Int \cup {Unknown}]],
   status : [Accounts -> {"active", "closed"}],
   price : [Securities -> Int], mark : [OptionIds -> Int]]

ASSUME FiguresAssumption ==
  /\ IsFiniteSet(Accounts) /\ IsFiniteSet(Securities) /\ IsFiniteSet(OptionIds)
  /\ Portfolios \subseteq PortfolioType
  /\ Prices \cup Marks \cup Roundings \cup Amounts \subseteq Int
  /\ FirstInstant \in Nat /\ DayLength \in Nat \ {0}
  /\ Unknown \notin Int /\ "unsupported-options" \notin Securities

Plus(basis, n) == IF basis = Unknown THEN Unknown ELSE basis + n

StockValue(p, a, x) == p.shares[a][x] * p.price[x]
OptionValue(p, a, o) == p.contracts[a][o] * p.mark[o]

Worth(p, a) ==
  LET stock(x) == StockValue(p, a, x)
      option(o) == OptionValue(p, a, o)
  IN p.cash[a] + p.other[a] + SumOf(stock, Securities)
       + SumOf(option, OptionIds)

PortfolioWorth(p) == LET worth(a) == Worth(p, a) IN SumOf(worth, Accounts)

FiguresInit ==
  /\ now = FirstInstant
  /\ portfolio \in Portfolios
  /\ gained = 0 /\ events = 0
  /\ activity = {} /\ snapshots = <<>>

\* Nothing is of interest after the last instant or the last snapshot.
Going == now < LastInstant /\ Len(snapshots) < MaxSnapshots

\* Something happens: p comes of it, and made of it is the markets' doing.
Happens(p, made, transactions) ==
  /\ events < MaxEvents /\ Going
  /\ events' = events + 1 /\ now' = now + 1
  /\ portfolio' = p
  /\ gained' = gained + made
  /\ activity' = activity \cup transactions
  /\ UNCHANGED snapshots

\* What becomes of an entry of the owner's statement: it is recorded with its
\* instant or with its day, its kind is not recognized, or it is not
\* imported at all.  What it was, and when, nothing the code does reads.
Recorded(kind, amount, how) ==
  [kind |-> IF how = "unrecognized" THEN "unknown" ELSE kind,
   amount |-> amount,
   effectiveAt |-> IF how = "dated" THEN now - (now % DayLength) ELSE now,
   timestampPrecision |-> IF how = "dated" THEN "date" ELSE "instant",
   imported |-> how # "missing",
   at |-> now, what |-> kind]

Hows == {"instant", "dated", "unrecognized", "missing"}

PriceMoves(x, price) ==
  LET p == [portfolio EXCEPT !.price[x] = price] IN
  /\ price # portfolio.price[x]
  /\ Happens(p, PortfolioWorth(p) - PortfolioWorth(portfolio), {})

MarkMoves(o, mark) ==
  LET p == [portfolio EXCEPT !.mark[o] = mark] IN
  /\ mark # portfolio.mark[o]
  /\ Happens(p, PortfolioWorth(p) - PortfolioWorth(portfolio), {})

PayIn(a, n, how) ==
  Happens([portfolio EXCEPT !.cash[a] = @ + n], 0,
          {Recorded("deposit", n, how)})

PayOut(a, n) ==
  Happens([portfolio EXCEPT !.cash[a] = @ - n], 0,
          {Recorded("withdrawal", -n, "instant")})

ReceiveDividend(a, n, how) ==
  Happens([portfolio EXCEPT !.cash[a] = @ + n], n,
          {Recorded("dividend", n, how)})

MoveCash(a, b, n) ==
  /\ a # b
  /\ Happens([portfolio EXCEPT !.cash[a] = @ - n, !.cash[b] = @ + n], 0,
             {Recorded("internal_transfer", n, "instant")})

BuyStock(a, x) ==
  LET price == portfolio.price[x] IN
  Happens([portfolio EXCEPT !.shares[a][x] = @ + 1, !.cash[a] = @ - price,
                            !.basis[a][x] = Plus(@, price)],
          0, {Recorded("trade", -price, "instant")})

SellOut(a, x) ==
  LET proceeds == StockValue(portfolio, a, x) IN
  /\ portfolio.shares[a][x] > 0
  /\ Happens([portfolio EXCEPT !.shares[a][x] = 0, !.basis[a][x] = 0,
                               !.cash[a] = @ + proceeds],
             0, {Recorded("trade", proceeds, "instant")})

CloseAccount(a) ==
  /\ portfolio.status[a] = "active"
  /\ Happens([portfolio EXCEPT !.status[a] = "closed"], 0, {})

NothingHappens ==
  /\ Going
  /\ now' = now + 1
  /\ UNCHANGED <<portfolio, gained, events, activity, snapshots>>

(***************************************************************************)
(* What a promotion stores: a row per account, position and option.        *)
(***************************************************************************)
Supported(x) == ClassOf[x] \in {"equity", "stock", "etf"}

PositionRow(p, a, x) ==
  [account |-> a, security |-> x, quantity |-> p.shares[a][x],
   value |-> StockValue(p, a, x), basis |-> p.basis[a][x]]

Held(p) == {ax \in Accounts \X Securities : p.shares[ax[1]][ax[2]] > 0}

PositionRows(p) == {PositionRow(p, ax[1], ax[2]) : ax \in Held(p)}

OptionRow(p, a, o) ==
  [account |-> a, option |-> o, quantity |-> p.contracts[a][o],
   value |-> OptionValue(p, a, o)]

Optioned(p) ==
  {ao \in Accounts \X OptionIds : p.contracts[ao[1]][ao[2]] # 0}

OptionRows(p) == {OptionRow(p, ao[1], ao[2]) : ao \in Optioned(p)}

Value(row) == row.value
TotalOf(rows) == SumOf(Value, rows)

AccountRow(p, a, rounding) ==
  LET held == {r \in PositionRows(p) : r.account = a}
      optioned == {r \in OptionRows(p) : r.account = a}
      detailed == {r \in held : Supported(r.security)}
      total == Worth(p, a) + rounding
      modeled == TotalOf(held) + TotalOf(optioned) + p.other[a] + p.cash[a]
  IN [providerTotal |-> total,
      cash |-> p.cash[a],
      modeledTotal |-> modeled,
      residual |-> total - modeled,
      aggregate |-> p.other[a],
      included |-> p.status[a] = "active" \/ total # 0,
      quality |-> IF held = detailed /\ optioned = {} /\ p.other[a] = 0
                  THEN "complete" ELSE "partial_known_unsupported"]

Snapshot(p, rounding) ==
  LET rows == [a \in Accounts |-> AccountRow(p, a, rounding)]
      included == {a \in Accounts : rows[a].included}
      total(a) == rows[a].providerTotal
  IN [asOf |-> now,
      accounts |-> rows,
      positions |-> PositionRows(p),
      options |-> OptionRows(p),
      totalValue |-> SumOf(total, included),
      coverage |-> IF \A a \in included : rows[a].quality = "complete"
                   THEN "complete" ELSE "partial_known_unsupported",
      rounded |-> Cardinality(Accounts) * rounding,
      gained |-> gained]

\* A promotion needs every account reconciled, and one that counts.
PromoteFigures(rounding) ==
  LET s == Snapshot(portfolio, rounding) IN
  /\ Going
  /\ \A a \in Accounts :
       s.accounts[a].residual \in -Tolerance..Tolerance
  /\ \E a \in Accounts : s.accounts[a].included
  /\ snapshots' = Append(snapshots, s)
  /\ now' = now + 1
  /\ UNCHANGED <<portfolio, gained, events, activity>>

FiguresNext ==
  \/ NothingHappens
  \/ \E r \in Roundings : PromoteFigures(r)
  \/ \E a \in Accounts : CloseAccount(a)
  \/ \E a \in Accounts, x \in Securities : BuyStock(a, x) \/ SellOut(a, x)
  \/ \E x \in Securities, n \in Prices : PriceMoves(x, n)
  \/ \E o \in OptionIds, n \in Marks : MarkMoves(o, n)
  \/ \E a, b \in Accounts, n \in Amounts : MoveCash(a, b, n)
  \/ \E a \in Accounts, n \in Amounts, how \in Hows : PayIn(a, n, how)
  \/ \E a \in Accounts, n \in Amounts : PayOut(a, n)
  \/ \E a \in Accounts, n \in Amounts, how \in Hows \ {"dated", "missing"} :
       ReceiveDividend(a, n, how)

FiguresSpec == FiguresInit /\ [][FiguresNext]_figuresVars

(***************************************************************************)
(* Holdings, over all accounts and in one of them.                         *)
(***************************************************************************)
Options == "unsupported-options"

accountRows(s) == {a \in Accounts : s.accounts[a].included}

RowsOf(s, h) ==
  IF h = Options THEN s.options ELSE {r \in s.positions : r.security = h}

Basis(rows) ==
  LET basis(r) == r.basis IN
  IF \E r \in rows : r.basis = Unknown THEN Unknown ELSE SumOf(basis, rows)

Pnl(value, basis) == IF basis = Unknown THEN Unknown ELSE value - basis

Holding(s, h) ==
  LET rows == RowsOf(s, h)
      basis == IF h = Options THEN Unknown ELSE Basis(rows)
      entry(a) == TotalOf({r \in rows : r.account = a})
  IN [marketValue |-> TotalOf(rows),
      costBasis |-> basis,
      unrealizedPnl |-> Pnl(TotalOf(rows), basis),
      support |-> h # Options /\ Supported(h),
      accounts |-> [a \in {r.account : r \in rows} |-> entry(a)]]

\* By instrument; all options are one holding.
buildHoldings(s) ==
  [h \in {r.security : r \in s.positions}
           \cup {Options : r \in s.options} |-> Holding(s, h)]

\* Mutant: the basis of the holding in all accounts.
ScopedToAll(s, holdings, a, h) ==
  LET value == holdings[h].accounts[a] IN
  [marketValue |-> value, support |-> holdings[h].support,
   unrealizedPnl |-> Pnl(value, holdings[h].costBasis)]

\* A holding as the page of an account shows it.
Scoped(s, holdings, a, h) ==
  LET rows == {r \in RowsOf(s, h) : r.account = a}
      value == holdings[h].accounts[a]
      basis == IF h = Options THEN Unknown ELSE Basis(rows)
  IN [marketValue |-> value, support |-> holdings[h].support,
      unrealizedPnl |-> Pnl(value, basis)]

AccountHoldings(s, holdings, a) ==
  [h \in {k \in DOMAIN holdings : a \in DOMAIN holdings[k].accounts}
     |-> Scoped(s, holdings, a, h)]

(***************************************************************************)
(* Allocation.                                                             *)
(***************************************************************************)
kindForAsset(h, supported) ==
  IF ~supported THEN "unsupported_detail"
  ELSE IF ClassOf[h] = "etf" THEN "etf" ELSE "equity"

\* A slice for each kind that is not nothing, the rest being the residual.
buildAllocation(holdings, cash, denominator) ==
  LET kind(h) == kindForAsset(h, holdings[h].support)
      marketValue(h) == holdings[h].marketValue
      ofKind(k) == SumOf(marketValue, {h \in DOMAIN holdings : kind(h) = k})
      kinds == {kind(h) : h \in DOMAIN holdings}
      represented == SumOf(ofKind, kinds) + cash
      slice(k) == CASE k = "cash" -> cash
                    [] k = "residual" -> denominator - represented
                    [] OTHER -> ofKind(k)
      shown == {k \in kinds \cup {"cash", "residual"} : slice(k) # 0}
  IN [k \in shown |-> slice(k)]

Slice(allocation, k) == IF k \in DOMAIN allocation THEN allocation[k] ELSE 0

CashOf(s) ==
  LET cash(a) == s.accounts[a].cash IN SumOf(cash, accountRows(s))

Allocation(s, holdings) == buildAllocation(holdings, CashOf(s), s.totalValue)

AccountAllocation(s, holdings, a) ==
  buildAllocation(AccountHoldings(s, holdings, a), s.accounts[a].cash,
                  s.accounts[a].providerTotal)

\* getAnalytics: what is supported, cash included, and what is not.
Analytics(s, holdings) ==
  LET marketValue(h) == holdings[h].marketValue
      those(supported) ==
        SumOf(marketValue,
              {h \in DOMAIN holdings : holdings[h].support = supported})
  IN [supported |-> those(TRUE) + CashOf(s), unsupported |-> those(FALSE)]

\* The list of the accounts, on their own page and on the overview.
accountSummaries(s, holdings) ==
  [a \in accountRows(s) |->
     [value |-> s.accounts[a].providerTotal,
      cash |-> s.accounts[a].cash,
      coverage |-> s.accounts[a].quality,
      holdingsCount |->
        Cardinality({h \in DOMAIN holdings :
                       a \in DOMAIN holdings[h].accounts})]]

getReconciliation(s) ==
  [a \in accountRows(s) |->
     [providerTotal |-> s.accounts[a].providerTotal,
      modeledTotal |-> s.accounts[a].modeledTotal,
      residual |-> s.accounts[a].residual,
      state |-> IF s.accounts[a].quality = "complete"
                THEN "reconciled" ELSE "partial"]]

(***************************************************************************)
(* Movement.                                                               *)
(***************************************************************************)
Unavailable(reason) == [state |-> "unavailable", reason |-> reason]

\* Mutant: dividends are taken for money the owner paid in.
ExternalKindsPaid == {"deposit", "withdrawal", "dividend"}

ExternalKinds == {"deposit", "withdrawal"}

\* The change between two snapshots, less what the owner paid in or out.
calculateDailyChange(prior, current, eligible, covered, activities) ==
  LET within == {t \in activities : /\ t.effectiveAt > prior.asOf
                                    /\ t.effectiveAt <= current.asOf}
      external == {t \in within : t.kind \in ExternalKinds}
      amount(t) == t.amount
      adjustment == SumOf(amount, external)
  IN IF ~eligible THEN Unavailable("snapshot_boundary_ineligible")
     ELSE IF ~covered THEN Unavailable("flow_coverage_incomplete")
     ELSE IF current.asOf <= prior.asOf
       THEN Unavailable("invalid_snapshot_window")
     ELSE IF \E t \in within : t.kind = "unknown"
       THEN Unavailable("flow_classification_incomplete")
     ELSE IF \E t \in external : t.timestampPrecision # "instant"
       THEN Unavailable("flow_timestamp_imprecise")
     ELSE IF \E t \in external : \/ t.kind = "deposit" /\ t.amount < 0
                                 \/ t.kind = "withdrawal" /\ t.amount > 0
       THEN Unavailable("invalid_external_flow_sign")
     ELSE [state |-> "available",
           amount |-> current.totalValue - prior.totalValue - adjustment]

PriorClose(t) == (t \div DayLength - 1) * DayLength + CloseTick

\* The first snapshot within half an hour of the close before.
Boundary(current) ==
  {i \in DOMAIN snapshots :
     snapshots[i].asOf - PriorClose(current.asOf) \in 0..BoundarySpan}

\* What the owner's records hold; the code's query leaves the window to it.
Transactions == {t \in activity : t.imported}

DailyChange(current, covered) ==
  IF Boundary(current) = {} THEN Unavailable("missing_prior_close")
  ELSE LET prior == snapshots[Min(Boundary(current))] IN
       calculateDailyChange(prior, current,
         /\ prior.coverage = "complete" /\ current.coverage = "complete",
         covered, Transactions)

\* The overview asks with covered FALSE: no source vouches for the flows.
DashboardChange(current) == DailyChange(current, FALSE)

\* From the first snapshot of the range to the last there is, as they are in
\* order of asOf, with all the flows recorded since the range began, those
\* before its first snapshot too.
performance(start) ==
  LET within == {i \in DOMAIN snapshots : snapshots[i].asOf >= start}
      points == SubSeq(snapshots, Min(within), Len(snapshots))
  IN
  [trend |-> points,
   change |-> points[Len(points)].totalValue - points[1].totalValue,
   externalFlows |-> {t \in Transactions : /\ t.kind \in {"deposit", "withdrawal"}
                                           /\ t.effectiveAt >= start}]

(***************************************************************************)
(* Properties.                                                             *)
(***************************************************************************)
Shown == snapshots[Len(snapshots)]

\* A closed account in which stock and debt are of the same worth counts for
\* nothing, and is left out, but its positions are holdings all the same.
NoStrays(s) ==
  \A r \in s.positions \cup s.options : r.account \in accountRows(s)

\* The pages agree with each other and with the headline: what is neither
\* listed nor cash is what the provider reports in sum, an account's page
\* splits its own total, and the accounts' parts of a holding, gains
\* included, are the holding.  Any trades, closures and snapshots before.
\* buildHoldings, buildAllocation, accountRows, getAccount, getAnalytics,
\* listAccounts, getReconciliation.
FiguresAgree ==
  Len(snapshots) > 0 /\ NoStrays(Shown) =>
    LET s == Shown
        holdings == buildHoldings(s)
        analytics == Analytics(s, holdings)
        listed == accountSummaries(s, holdings)
        rest(a) == s.accounts[a].aggregate + getReconciliation(s)[a].residual
        left == SumOf(rest, accountRows(s))
        value(a) == listed[a].value
    IN /\ Slice(Allocation(s, holdings), "residual") = left
       /\ analytics.supported + analytics.unsupported + left = s.totalValue
       /\ SumOf(value, DOMAIN listed) = s.totalValue
       /\ \A a \in accountRows(s) :
            /\ Slice(AccountAllocation(s, holdings, a), "residual") = rest(a)
            /\ Cardinality(DOMAIN AccountHoldings(s, holdings, a))
                 = listed[a].holdingsCount
       /\ \A h \in DOMAIN holdings :
            LET part(a) == Scoped(s, holdings, a, h).marketValue
                gain(a) == Scoped(s, holdings, a, h).unrealizedPnl
                shared == DOMAIN holdings[h].accounts
            IN /\ SumOf(part, shared) = holdings[h].marketValue
               /\ holdings[h].unrealizedPnl # Unknown =>
                    SumOf(gain, shared) = holdings[h].unrealizedPnl

\* A flow known by its day, on the day of the close, may be before or after
\* it; the code takes it to be before.
DatedAtClose(prior) ==
  \E t \in activity : /\ t.timestampPrecision = "date"
                       /\ t.effectiveAt \div DayLength = prior.asOf \div DayLength

\* A daily change that is given is what the markets did: whatever the owner
\* paid in, moved, bought, sold or closed between the two snapshots is not
\* in it and dividends are, up to what the provider's totals are rounded by.
\* calculateDailyChange, and the boundary dailyChange picks for it.
DailyChangeIsGain ==
  Len(snapshots) > 0 =>
    LET change == DailyChange(Shown, Transactions = activity) IN
    change.state = "available" =>
      LET prior == snapshots[Min(Boundary(Shown))] IN
      ~DatedAtClose(prior) =>
        change.amount - (Shown.gained - prior.gained)
          = Shown.rounded - prior.rounded

\* The records hold every flow, with its instant and its kind.
RecordedInFull ==
  \A t \in activity :
    t.imported /\ t.kind # "unknown" /\ t.timestampPrecision = "instant"

\* A reader of the performance page who takes the flows it lists for the time
\* of its trend from the change it shows is left with what the markets did,
\* whichever range was asked for.  performance, history.
PerformanceIsGain ==
  Len(snapshots) > 0 /\ RecordedInFull =>
    \A start \in FirstInstant..Shown.asOf :
      LET page == performance(start)
          first == page.trend[1]
          during == {t \in page.externalFlows : /\ t.effectiveAt > first.asOf
                                                /\ t.effectiveAt <= Shown.asOf}
          amount(t) == t.amount
      IN page.change - SumOf(amount, during) - (Shown.gained - first.gained)
           = Shown.rounded - first.rounded

ChangesAreGains == DailyChangeIsGain /\ PerformanceIsGain
=============================================================================
