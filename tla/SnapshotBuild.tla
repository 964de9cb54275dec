--------------------------- MODULE SnapshotBuild ---------------------------
(***************************************************************************)
(* How one refresh turns the provider's answers into a snapshot candidate: *)
(* the reads of RefreshService.runNext through RobinhoodReadClient, the    *)
(* mapping of their answers (apps/server/src/robinhood), and               *)
(* buildSnapshotPromotion (apps/server/src/sync/snapshot-promotion.ts).    *)
(* The reads are separate calls, and the provider moves between them:      *)
(* prices change, money and shares change hands, an account is closed.     *)
(*                                                                         *)
(* Amounts are cents and times minutes.  A read that fails, or answers     *)
(* rows twice, rows nobody asked for or a null where a row must be, ends   *)
(* the refresh; which of these it was is abstracted, all of them throw.    *)
(***************************************************************************)
EXTENDS Integers, FiniteSets, FiniteSetsExt

CONSTANTS
  Accounts,
  Symbols,      \* equities
  Supported,    \* those of class equity, stock or etf
  OptionIds,
  Multiplier,   \* trade_value_multiplier of each option
  Worlds,       \* what the provider may hold when the refresh begins
  Prices, Marks, Amount,  \* prices, option marks, what a transfer moves
  NoPrint,      \* there was no trade outside the regular session yet
  NoCandidate,
  PreviousClose, CloseAt, Starts,  \* session closes, starting times
  MaxMoves, MaxTicks               \* bounds on the provider and the clock

ASSUME SupportedAssumption ==
  /\ Supported \subseteq Symbols
  /\ IsFiniteSet(Accounts) /\ IsFiniteSet(Symbols) /\ IsFiniteSet(OptionIds)
  /\ Multiplier \in [OptionIds -> Int]
ASSUME SessionAssumption ==
  /\ PreviousClose \in Nat /\ CloseAt \in Nat /\ PreviousClose < CloseAt
  /\ Starts \subseteq Nat

\* What the provider may hold: cents, numbers of shares and contracts, and
\* the last trades in and outside the regular session.
Prints == [price : Int, at : Nat]
ProviderStates ==
  [status : [Accounts -> {"active", "closed"}],
   cash : [Accounts -> Int], other : [Accounts -> Int],
   shares : [Accounts -> [Symbols -> Nat]],
   contracts : [Accounts -> [OptionIds -> Nat]],
   price : [Symbols -> Int], mark : [OptionIds -> Int],
   trades : [Symbols -> [regular : Prints, extended : Prints \cup {NoPrint}]]]

\* The later of the last regular and the last other trade.
LastTrade(trades) ==
  IF trades.extended # NoPrint /\ trades.extended.at > trades.regular.at
  THEN trades.extended ELSE trades.regular

\* What the provider holds is worth what it last traded for.
ASSUME ProviderAssumption ==
  /\ Worlds \subseteq ProviderStates /\ NoPrint \notin Prints
  /\ \A w \in Worlds, x \in Symbols :
       w.price[x] = LastTrade(w.trades[x]).price
  /\ Prices \subseteq Int /\ Marks \subseteq Int /\ Amount \in Int

\* A refresh is over within the day.
ASSUME RefreshTimeAssumption == MaxTicks \in Nat /\ MaxTicks <= 1438

VARIABLES
  (* the provider and the clock *)
  world,       \* accounts, last trades, option marks
  before,      \* world when the refresh began
  clock,
  touched,     \* accounts that changed since the refresh began
  moves, ticks,
  (* the refresh *)
  pc,
  accounts,    \* what readAccounts answered
  portfolios,  \* what readPortfolio answered, for the accounts read so far
  equities,    \* what readEquityPositions answered
  options,     \* what readOptionPositions answered
  quotes,      \* what readEquityQuotes answered, by symbol
  optionQuotes, optionInstruments,
  candidate

provider == <<world, before, clock, touched, moves, ticks>>
answers == <<accounts, portfolios, equities, options, quotes, optionQuotes,
             optionInstruments>>
vars == <<provider, pc, answers, candidate>>

(***************************************************************************)
(* The market calendar, and the limits of the freshness policy.            *)
(***************************************************************************)
MaxSkew == 2
ExtendedMinutes == 240

Phase(t) ==
  CASE t < CloseAt -> "regular"
    [] t >= CloseAt /\ t < CloseAt + ExtendedMinutes -> "extended"
    [] OTHER -> "closed"

LastRegularClose(t) == IF t >= CloseAt THEN CloseAt ELSE PreviousClose

MaximumAge(phase) ==
  CASE phase = "regular" -> 2 [] phase = "extended" -> 15 [] OTHER -> 1440

\* isRegularCloseCheckpoint.
RegularCloseCheckpoint(t) ==
  t >= LastRegularClose(t) + 5 /\ t < LastRegularClose(t) + 65

(***************************************************************************)
(* The provider.                                                           *)
(***************************************************************************)
StockWorth(w, a) == [x \in Symbols |-> w.shares[a][x] * w.price[x]]

OptionWorth(w, a) ==
  [o \in OptionIds |-> w.contracts[a][o] * w.mark[o] * Multiplier[o]]

Worth(w, a) ==
  w.cash[a] + w.other[a]
    + SumFunction(StockWorth(w, a)) + SumFunction(OptionWorth(w, a))

\* When x last traded in and outside the regular session.
Traded(x) ==
  LET trades == world.trades[x] IN
  {t.at : t \in {trades.regular, trades.extended} \ {NoPrint}}

Reading == pc \in {"reading", "options", "building"}

Move(next, changed) ==
  /\ Reading /\ moves < MaxMoves
  /\ world' = next
  /\ touched' = touched \cup changed
  /\ moves' = moves + 1
  /\ UNCHANGED <<before, clock, ticks, pc, answers, candidate>>

\* A trade of x is reported, by a clock that may run ahead of the worker's.
Trade(x, p, at) ==
  LET kind == IF Phase(clock) = "regular" THEN "regular" ELSE "extended" IN
  /\ Phase(clock) # "closed"
  /\ Move([world EXCEPT !.price[x] = p,
                        !.trades[x][kind] = [price |-> p, at |-> at]],
          {a \in Accounts : world.shares[a][x] > 0})

Remark(o, p) ==
  Move([world EXCEPT !.mark[o] = p],
       {a \in Accounts : world.contracts[a][o] > 0})

\* The owner buys or sells one share at the last price.
Buy(a, x) ==
  Move([world EXCEPT !.shares[a][x] = @ + 1, !.cash[a] = @ - world.price[x]],
       {a})

Sell(a, x) ==
  /\ world.shares[a][x] > 0
  /\ Move([world EXCEPT !.shares[a][x] = @ - 1,
                        !.cash[a] = @ + world.price[x]], {a})

\* The owner moves money between accounts.
Transfer(a, b) ==
  /\ a # b
  /\ Move([world EXCEPT !.cash[a] = @ - Amount, !.cash[b] = @ + Amount],
          {a, b})

Close(a) ==
  /\ world.status[a] = "active"
  /\ Move([world EXCEPT !.status[a] = "closed"], {a})

Tick ==
  /\ Reading /\ ticks < MaxTicks
  /\ clock' = clock + 1
  /\ ticks' = ticks + 1
  /\ UNCHANGED <<world, before, touched, moves, pc, answers,
                 candidate>>

(***************************************************************************)
(* The reads, in the order runNext makes them.                             *)
(***************************************************************************)
Nothing == [k \in {} |-> 0]

Init ==
  /\ world \in Worlds
  /\ before = world
  /\ clock \in Starts
  /\ \A x \in Symbols : Traded(x) \subseteq 0..clock
  /\ touched = {} /\ moves = 0 /\ ticks = 0
  /\ pc = "accounts"
  /\ accounts = Nothing
  /\ portfolios = Nothing
  /\ equities = Nothing
  /\ options = Nothing
  /\ quotes = Nothing
  /\ optionQuotes = Nothing
  /\ optionInstruments = Nothing
  /\ candidate = NoCandidate

\* readAccounts and mapAccount; rows that are null are dropped.
ReadAccounts(listed) ==
  /\ pc = "accounts"
  /\ accounts' = [a \in listed |-> [status |-> world.status[a],
                                    sourceAsOf |-> clock]]
  /\ pc' = "reading"
  /\ UNCHANGED <<provider, portfolios, equities, options, quotes,
                 optionQuotes, optionInstruments, candidate>>

\* One more answer beside those there are.
WithAnswer(f, a, answer) ==
  [b \in DOMAIN f \cup {a} |-> IF b = a THEN answer ELSE f[b]]

\* Accounts are read one after the other.
Started == DOMAIN portfolios
Finished == DOMAIN options

\* readPortfolio and mapPortfolio.  An amount may be missing, or not in USD.
ReadPortfolio(a, complete) ==
  /\ pc = "reading" /\ Started = Finished
  /\ a \in DOMAIN accounts \ Started
  /\ portfolios' = WithAnswer(portfolios, a,
       [total |-> Worth(world, a), cash |-> world.cash[a],
        other |-> world.other[a], complete |-> complete,
        sourceAsOf |-> clock])
  /\ UNCHANGED <<provider, pc, accounts, equities, options, quotes,
                 optionQuotes, optionInstruments, candidate>>

\* readEquityPositions; the provider may list a share that was sold.
ReadEquityPositions(a, listed) ==
  /\ pc = "reading"
  /\ a \in Started \ DOMAIN equities
  /\ {x \in Symbols : world.shares[a][x] > 0} \subseteq listed
  /\ equities' = WithAnswer(equities, a,
       [rows |-> [x \in listed |-> world.shares[a][x]],
        sourceAsOf |-> clock])
  /\ UNCHANGED <<provider, pc, accounts, portfolios, options, quotes,
                 optionQuotes, optionInstruments, candidate>>

\* readOptionPositions asks for those that are not zero.
ReadOptionPositions(a) ==
  LET listed == {o \in OptionIds : world.contracts[a][o] > 0} IN
  /\ pc = "reading"
  /\ a \in DOMAIN equities \ Finished
  /\ options' = WithAnswer(options, a,
                           [o \in listed |-> world.contracts[a][o]])
  /\ UNCHANGED <<provider, pc, accounts, portfolios, equities,
                 quotes, optionQuotes, optionInstruments, candidate>>

MapQuote(x) ==
  LET selected == LastTrade(world.trades[x]) IN
  [price |-> selected.price, sourceAsOf |-> selected.at]

RequestedOptions == UNION {DOMAIN options[a] : a \in DOMAIN options}

ReadEquityQuotes ==
  /\ pc = "reading"
  /\ Finished = DOMAIN accounts
  /\ quotes' = [x \in UNION {DOMAIN equities[a].rows : a \in DOMAIN equities}
                  |-> MapQuote(x)]
  /\ pc' = IF RequestedOptions = {} THEN "building" ELSE "options"
  /\ UNCHANGED <<provider, accounts, portfolios, equities, options,
                 optionQuotes, optionInstruments, candidate>>

\* The quotes and the instruments of the options are read concurrently.
ReadOptionQuotes ==
  /\ pc = "options" /\ optionQuotes = Nothing
  /\ optionQuotes' = [o \in RequestedOptions |-> world.mark[o]]
  /\ pc' = IF optionInstruments = Nothing THEN pc ELSE "building"
  /\ UNCHANGED <<provider, accounts, portfolios, equities, options,
                 quotes, optionInstruments, candidate>>

ReadOptionInstruments ==
  /\ pc = "options" /\ optionInstruments = Nothing
  /\ optionInstruments' = [o \in RequestedOptions |-> Multiplier[o]]
  /\ pc' = IF optionQuotes = Nothing THEN pc ELSE "building"
  /\ UNCHANGED <<provider, accounts, portfolios, equities, options,
                 quotes, optionQuotes, candidate>>

ReadFails ==
  /\ pc \in {"accounts", "reading", "options"}
  /\ pc' = "failed"
  /\ UNCHANGED <<provider, answers, candidate>>

(***************************************************************************)
(* valueEquityPositions, valueOptionPositions, buildSnapshotPromotion.     *)
(***************************************************************************)
Listed == DOMAIN accounts

EquityValue(a, x) == equities[a].rows[x] * quotes[x].price

OptionValue(a, o) == options[a][o] * optionQuotes[o] * optionInstruments[o]

\* Mutant: a position keeps the time at which it was read.
ReadTime(a, x) == equities[a].sourceAsOf

\* A valued position is as old as the trade that values it.
EquityAsOf(a, x) == quotes[x].sourceAsOf

PositionTimes(a, t) ==
  {EquityAsOf(a, x) : x \in DOMAIN equities[a].rows}
    \cup (IF options[a] = Nothing THEN {} ELSE {t})

ValuationTimes(t) ==
  UNION {{portfolios[a].sourceAsOf} \cup PositionTimes(a, t) : a \in Listed}

\* Mutant: the positions' times are left out.
ReadTimes(t) ==
  UNION {{accounts[a].sourceAsOf, portfolios[a].sourceAsOf} : a \in Listed}

RequiredTimes(t) ==
  {accounts[a].sourceAsOf : a \in Listed} \cup ValuationTimes(t)

\* evaluateSourceFreshness; its allowance of five seconds is below a minute.
Fresh(t) ==
  /\ \A s \in RequiredTimes(t) : s <= t
  /\ Max(RequiredTimes(t)) - Min(RequiredTimes(t)) <= MaxSkew
  /\ Phase(t) # "regular" =>
       \A s \in RequiredTimes(t) : s >= LastRegularClose(t)
  /\ Phase(t) # "closed" =>
       \A s \in RequiredTimes(t) : t - s <= MaximumAge(Phase(t))

QuoteFreshness(t) ==
  LET times == {quotes[x].sourceAsOf : x \in DOMAIN quotes} IN
  IF times = {} THEN "unavailable"
  ELSE IF \A s \in times : s <= t /\ t - s <= MaximumAge(Phase(t))
       THEN "fresh" ELSE "stale"

Values(a) == [x \in DOMAIN equities[a].rows |-> EquityValue(a, x)]

OptionValues(a) == [o \in DOMAIN options[a] |-> OptionValue(a, o)]

SupportedValue(a) ==
  SumFunctionOnSet(Values(a), DOMAIN Values(a) \cap Supported)

UnsupportedValue(a) ==
  portfolios[a].other
    + SumFunctionOnSet(Values(a), DOMAIN Values(a) \ Supported)
    + SumFunction(OptionValues(a))

Residual(a) ==
  portfolios[a].total - portfolios[a].cash - SupportedValue(a)
    - UnsupportedValue(a)

Magnitude(n) == IF n < 0 THEN -n ELSE n

\* reconcileAccount: an amount is beyond the tolerance of two cents or one
\* part in ten thousand of a total.
Exceeds(amount, total) ==
  amount * 10000 > 20000 /\ amount * 10000 > Magnitude(total)

\* Mutant: only money that is missing counts, not money that is too much.
ReconciledBelow(a) == ~Exceeds(Residual(a), portfolios[a].total)

Reconciled(a) == ~Exceeds(Magnitude(Residual(a)), portfolios[a].total)

\* Mutant: a closed account is left out with the money in it.
IncludedActive(a) == accounts[a].status = "active"

Included(a) == accounts[a].status = "active" \/ portfolios[a].total # 0

Eligible(t) ==
  /\ Listed # {}
  /\ Fresh(t)
  /\ \A a \in Listed : portfolios[a].complete /\ Reconciled(a)
  /\ \E a \in Listed : Included(a)

AccountDetail(a) ==
  [included |-> Included(a), total |-> portfolios[a].total,
   cash |-> portfolios[a].cash, shares |-> equities[a].rows,
   contracts |-> options[a], supported |-> SupportedValue(a),
   unsupported |-> UnsupportedValue(a)]

Candidate(t) ==
  [total |-> SumFunction([a \in {b \in Listed : Included(b)} |->
                            portfolios[a].total]),
   asOf |-> Min(ValuationTimes(t)),
   receivedAt |-> t,
   accounts |-> [a \in Listed |-> AccountDetail(a)],
   quotes |-> quotes,
   quoteFreshness |-> QuoteFreshness(t)]

BuildSnapshotPromotion ==
  /\ pc = "building"
  /\ IF Eligible(clock)
     THEN pc' = "promoted" /\ candidate' = Candidate(clock)
     ELSE pc' = "rejected" /\ UNCHANGED candidate
  /\ UNCHANGED <<provider, answers>>

Provider ==
  \/ \E x \in Symbols, p \in Prices, at \in {clock, clock + 1} : Trade(x, p, at)
  \/ \E o \in OptionIds, p \in Marks : Remark(o, p)
  \/ \E a \in Accounts, x \in Symbols : Buy(a, x) \/ Sell(a, x)
  \/ \E a, b \in Accounts : Transfer(a, b)
  \/ \E a \in Accounts : Close(a)
  \/ Tick

Refresh ==
  \/ \E listed \in SUBSET Accounts : ReadAccounts(listed)
  \/ \E a \in Accounts :
       \/ \E complete \in BOOLEAN : ReadPortfolio(a, complete)
       \/ \E listed \in SUBSET Symbols : ReadEquityPositions(a, listed)
       \/ ReadOptionPositions(a)
  \/ ReadEquityQuotes
  \/ ReadOptionQuotes
  \/ ReadOptionInstruments
  \/ ReadFails
  \/ BuildSnapshotPromotion

Next == Provider \/ Refresh

Spec == Init /\ [][Next]_vars

-----------------------------------------------------------------------------
(***************************************************************************)
(* Properties.                                                             *)
(***************************************************************************)
\* An account nothing happened to during the refresh is shown exactly as the
\* provider has it, and so is the whole if nothing happened to any: no closed
\* account, option or unsupported asset is lost, whenever it was read.
ExactWhenUntouched ==
  pc = "promoted" =>
    /\ \A a \in Listed \ touched :
         LET shown == candidate.accounts[a] IN
         /\ shown.total = Worth(world, a)
         /\ shown.cash + shown.supported + shown.unsupported = shown.total
         /\ \A x \in Symbols :
              IF x \in DOMAIN shown.shares
              THEN shown.shares[x] = world.shares[a][x]
              ELSE world.shares[a][x] = 0
    /\ touched = {} =>
         candidate.total = SumFunction([a \in Listed |-> Worth(world, a)])

\* One change at the provider during the refresh is shown entirely or not at
\* all: a purchase whose cash was read before and whose share after it is
\* caught by the reconciliation, where every share costs more than the
\* tolerance of the account's worth.
SingleMoveSeenWhole ==
  pc = "promoted" /\ moves = 1 =>
    \A a \in Listed :
      LET shown == candidate.accounts[a] IN
      (\A x \in Symbols : Exceeds(before.price[x], Worth(before, a))) =>
      \E w \in {before, world} :
        /\ shown.cash = w.cash[a]
        /\ \A x \in DOMAIN shown.shares : shown.shares[x] = w.shares[a][x]
        /\ \A o \in DOMAIN shown.contracts :
             shown.contracts[o] = w.contracts[a][o]

\* Prices shown together are of one moment: none was traded more than the
\* allowed skew before or after the accounts were listed, none before asOf,
\* and outside the regular session none before its close.
PricedTogether ==
  pc = "promoted" =>
    \A x \in DOMAIN candidate.quotes :
      LET at == candidate.quotes[x].sourceAsOf
          t == candidate.receivedAt
      IN
      /\ \A a \in Listed : Magnitude(at - accounts[a].sourceAsOf) <= MaxSkew
      /\ at >= candidate.asOf
      /\ Phase(t) # "regular" => at >= LastRegularClose(t)

\* A promoted snapshot is never labelled with stale quotes: the positions
\* take the time of the trades that value them, and those must be fresh.
QuotesNeverStale == pc = "promoted" => candidate.quoteFreshness # "stale"
=============================================================================
