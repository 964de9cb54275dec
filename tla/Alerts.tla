------------------------------- MODULE Alerts -------------------------------
(***************************************************************************)
(* Factual alerts (apps/server/src/alerts): after a snapshot is promoted   *)
(* the worker evaluates the owner's rules against it one by one, appends   *)
(* an event for each, and marks its heartbeat (trusted-composition.ts).    *)
(* Beside it the owner saves rules, and the import of a statement adds the  *)
(* deposits it lists.                                                      *)
(*                                                                         *)
(* What the numbers are about is part of the model: the price of the one   *)
(* holding moves, deposits arrive in several accounts, and a refresh reads *)
(* one account after the other, then the quote.  Its snapshot is of the    *)
(* earliest of these moments, a trade before the reads maybe, and its      *)
(* total of later ones.  So a property can say what an alert sees without  *)
(* repeating how it is computed.                                           *)
(***************************************************************************)
EXTENDS Integers, Sequences, FiniteSetsExt

CONSTANTS
  Accounts, Holder,     \* one of them has the share
  Prices, StartCash,    \* of the share; beside it before the first deposit
  Amounts,              \* of a deposit
  MaxSkew,              \* between the earliest and the latest time it is of
  RuleIds,
  RuleForms,            \* the kinds and scopes of rules the owner may save
  Threshold,            \* of each kind: an amount, or a percentage
  Sorts,                \* sorts of snapshots: coverage, market states, close
  MaxSnaps, MaxTime, MaxDeposits,
  MaxActs,              \* bound on what the owner does
  MaxFaults,            \* bound on failed queries, failed runs and crashes
  NoRule, NoCand

Financial == {"portfolio_percentage_move", "holding_percentage_move",
              "concentration_threshold", "cash_threshold",
              "material_value_change"}
BaselineKinds == {"portfolio_percentage_move", "holding_percentage_move",
                  "material_value_change"}
RatioKinds == {"portfolio_percentage_move", "holding_percentage_move",
               "concentration_threshold"}
Kinds == Financial \cup {"data_health_failure", "stale_sync"}

\* A scope is the whole portfolio, the one holding, one that holds nothing,
\* or text the database cannot read as an identifier.
Scopes == {"portfolio", "held", "empty", "malformed"}

ASSUME AlertsAssumption ==
  /\ Holder \in Accounts
  /\ Prices \subseteq Nat /\ Prices # {}
  /\ StartCash \in Nat /\ Amounts \subseteq Int
  /\ RuleForms \subseteq [kind : Kinds, scope : Scopes]
  /\ \A k \in Kinds : Threshold[k] \in Nat
  /\ Sorts \subseteq [complete : BOOLEAN, mixed : BOOLEAN, close : BOOLEAN]
  /\ {MaxSkew, MaxSnaps, MaxTime, MaxDeposits, MaxActs, MaxFaults} \subseteq Nat

VARIABLES
  now, price,
  traded,      \* when the share was traded last
  deposits,    \* those made: when, where, how much, the time recorded,
               \* if imported
  cand,        \* what the running refresh has read
  snaps,       \* promoted snapshots; the last one is current
  rules, events, audits,
  heartbeat,   \* the snapshot after which the worker last marked it, or 0
  pc, todo,    \* the worker, and the rules it has read but not evaluated
  cut,         \* history: snapshots whose evaluation a crash cut off
  acts, faults

worldVars == <<now, price, traded, deposits>>
workerVars == <<cand, snaps, audits, pc, todo, cut, faults>>
ownerVars == <<rules, acts>>
vars == <<worldVars, workerVars, ownerVars, events, heartbeat>>

\* A rule, and how many snapshots had been promoted when it was saved.
NewRule(form, current) ==
  [kind |-> form.kind, scope |-> form.scope, after |-> current]

\* Some rules have been saved before the first snapshot.  What happened until
\* then may have used up a part of each bound.
Init ==
  /\ now \in 1..MaxTime /\ traded \in 1..now
  /\ price = Min(Prices)
  /\ deposits = <<>> /\ snaps = <<>>
  /\ cand = NoCand
  /\ rules \in [RuleIds -> {NoRule} \cup {NewRule(f, 0) : f \in RuleForms}]
  /\ events = {} /\ audits = {} /\ cut = {}
  /\ heartbeat = 0
  /\ pc = "idle" /\ todo = {}
  /\ acts \in 0..MaxActs /\ faults \in 0..MaxFaults

(***************************************************************************)
(* The world: one share, money, and the statement that lists the deposits. *)
(* A deposit has an instant of its own; a statement that gives only its    *)
(* date records it earlier.                                                *)
(***************************************************************************)
SumOf(ds) ==
  SumFunctionOnSet([i \in DOMAIN deposits |-> deposits[i].amount], ds)

Into(account) == {i \in DOMAIN deposits : deposits[i].account = account}

\* Time goes by, and the share is traded meanwhile or not.
TimePasses(trades) ==
  /\ now < MaxTime
  /\ now' = now + 1
  /\ traded' = IF trades THEN now' ELSE traded

\* The price moves, if it does, by a trade.
Tick(p, trades) ==
  /\ TimePasses(trades)
  /\ trades \/ p = price
  /\ price' = p
  /\ UNCHANGED <<deposits, workerVars, ownerVars, events, heartbeat>>

Deposit(a, account, dated, trades) ==
  /\ Len(deposits) < MaxDeposits
  /\ TimePasses(trades)
  /\ deposits' = Append(deposits,
       [at |-> now', account |-> account, amount |-> a, imported |-> FALSE,
        recorded |-> IF dated THEN now ELSE now'])
  /\ UNCHANGED <<price, workerVars, ownerVars, events, heartbeat>>

Import(i) ==
  /\ ~deposits[i].imported
  /\ deposits' = [deposits EXCEPT ![i].imported = TRUE]
  /\ UNCHANGED <<now, price, traded, workerVars, ownerVars, events, heartbeat>>

(***************************************************************************)
(* What evaluateAlertRule makes of a rule's observations.  The code also   *)
(* has a rule that is disabled, a baseline the owner fixes and an outlier  *)
(* to be confirmed: no operation of the program disables a rule, chooses a *)
(* baseline or calls a value suspicious.                                   *)
(***************************************************************************)
Current == Len(snaps)

\* The snapshots the baseline query chooses from, and those it returns.
Closes(s) == {b \in DOMAIN snaps : /\ snaps[b].asOf < s.asOf
                                   /\ snaps[b].sort.complete
                                   /\ snaps[b].sort.close}

Baselines(s) == {b \in Closes(s) : \A c \in Closes(s) :
                                     snaps[c].asOf <= snaps[b].asOf}

\* Mutant: a deposit the baseline already holds is counted again.
FlowsFromBase(b, s) ==
  SumOf({i \in DOMAIN deposits :
           /\ deposits[i].imported
           /\ snaps[b].asOf <= deposits[i].recorded
           /\ deposits[i].recorded <= s.asOf})

\* Deposits and withdrawals on record after one snapshot, up to another.
Flows(b, s) ==
  SumOf({i \in DOMAIN deposits :
           /\ deposits[i].imported
           /\ snaps[b].asOf < deposits[i].recorded
           /\ deposits[i].recorded <= s.asOf})

Distance(x, y) == IF x < y THEN y - x ELSE x - y

\* A part reaches a percentage of the whole.
AtLeast(part, whole, percent) == 100 * part >= percent * whole

\* The observations a rule needs were made; b is 0 without a baseline.
Observed(rule, s, b) ==
  CASE rule.kind \in {"data_health_failure", "stale_sync"} -> TRUE
    [] rule.kind = "cash_threshold" -> rule.scope # "empty"
    [] rule.kind = "concentration_threshold" ->
         s.total # 0 /\ rule.scope # "empty"
    [] rule.kind = "portfolio_percentage_move" ->
         b # 0 /\ snaps[b].total # 0
    [] rule.kind = "holding_percentage_move" ->
         b # 0 /\ rule.scope = "held" /\ snaps[b].holding # 0
    [] rule.kind = "material_value_change" -> b # 0

thresholdBreached(rule, s, b) ==
  LET bound == Threshold[rule.kind] IN
  CASE rule.kind = "data_health_failure" -> ~s.sort.complete
    [] rule.kind = "stale_sync" -> now - s.asOf >= bound
    [] rule.kind = "cash_threshold" -> s.total - s.holding <= bound
    [] rule.kind = "concentration_threshold" ->
         AtLeast(s.holding, s.total, bound)
    [] rule.kind = "portfolio_percentage_move" ->
         AtLeast(Distance(s.total, snaps[b].total + Flows(b, s)),
                 snaps[b].total, bound)
    [] rule.kind = "holding_percentage_move" ->
         AtLeast(Distance(s.holding, snaps[b].holding),
                 snaps[b].holding, bound)
    [] rule.kind = "material_value_change" ->
         Distance(s.total, snaps[b].total + Flows(b, s)) >= bound

\* A promoted snapshot is always fresh and reconciled.
financialQuality(s) == s.sort.complete /\ ~s.sort.mixed /\ s.total # 0

evaluateAlertRule(rule, s, b) ==
  IF \/ rule.kind \in Financial /\ ~financialQuality(s)
     \/ ~Observed(rule, s, b)
  THEN "suppressed"
  ELSE IF thresholdBreached(rule, s, b) THEN "breach_confirmed"
                                        ELSE "within_threshold"

\* Looking up the rule's scope fails in the database.
Malformed(rule) ==
  /\ rule.scope = "malformed"
  /\ \/ rule.kind = "cash_threshold"
     \/ rule.kind = "concentration_threshold" /\ snaps[Current].total # 0
     \/ /\ rule.kind = "holding_percentage_move"
        /\ snaps[Current].total # 0 \/ Closes(snaps[Current]) # {}

(***************************************************************************)
(* The worker.  A refresh reads the portfolio of each account, at a moment *)
(* of its own, and then the quote.  The list of accounts is left out.      *)
(***************************************************************************)
StartRun ==
  /\ pc = "idle"
  /\ pc' = "refreshing"
  /\ cand' = [read |-> [a \in Accounts |-> 0], quoted |-> 0,
              holding |-> 0, total |-> 0]
  /\ UNCHANGED <<worldVars, snaps, audits, todo, cut, faults, ownerVars,
                 events, heartbeat>>

\* What the provider says an account is worth.
PortfolioTotal(account) ==
  (IF account = Holder THEN price + StartCash ELSE 0) + SumOf(Into(account))

ReadPortfolio(account) ==
  /\ pc = "refreshing" /\ cand.read[account] = 0
  /\ cand' = [cand EXCEPT
       !.read[account] = now,
       !.holding = IF account = Holder THEN price ELSE @,
       !.total = @ + PortfolioTotal(account)]
  /\ UNCHANGED <<worldVars, snaps, audits, pc, todo, cut, faults, ownerVars,
                 events, heartbeat>>

AllRead == \A a \in Accounts : cand.read[a] # 0

\* The quote is of the last trade.  It reconciles with the portfolio only if
\* the price has not moved in between.
ReadQuotes ==
  /\ pc = "refreshing" /\ AllRead /\ cand.quoted = 0
  /\ price = cand.holding
  /\ cand' = [cand EXCEPT !.quoted = traded]
  /\ UNCHANGED <<worldVars, snaps, audits, pc, todo, cut, faults, ownerVars,
                 events, heartbeat>>

valuationSourceTimes(c) == {c.quoted} \cup {c.read[a] : a \in Accounts}

\* A snapshot is of the earliest time of its sources.
AsOf(c) == Min(valuationSourceTimes(c))

Skewed(c) == \E t \in valuationSourceTimes(c) : t > AsOf(c) + MaxSkew

\* What the worker read has the fingerprint of what it promoted before.
Repeated ==
  \E k \in DOMAIN snaps : /\ snaps[k].read = cand.read
                         /\ snaps[k].quoted = cand.quoted
                         /\ snaps[k].holding = cand.holding

\* The current snapshot is of a later time.
Stale == Current > 0 /\ snaps[Current].asOf > AsOf(cand)

\* A read fails, or what was read is refused.
RunFails ==
  /\ pc = "refreshing"
  /\ \/ faults < MaxFaults /\ faults' = faults + 1
     \/ /\ \/ AllRead /\ cand.quoted = 0 /\ price # cand.holding
           \/ cand.quoted # 0 /\ Skewed(cand)
           \/ cand.quoted # 0 /\ ~Repeated /\ Stale
        /\ UNCHANGED faults
  /\ pc' = "idle" /\ cand' = NoCand
  /\ UNCHANGED <<worldVars, snaps, audits, todo, cut, ownerVars,
                 events, heartbeat>>

PromoteNothing ==
  /\ pc = "refreshing" /\ cand.quoted # 0 /\ ~Skewed(cand) /\ Repeated
  /\ pc' = "idle" /\ cand' = NoCand
  /\ UNCHANGED <<worldVars, snaps, audits, todo, cut, faults, ownerVars,
                 events, heartbeat>>

Promote(sort) ==
  /\ pc = "refreshing" /\ cand.quoted # 0 /\ Current < MaxSnaps
  /\ ~Skewed(cand) /\ ~Repeated /\ ~Stale
  /\ pc' = "promoted" /\ cand' = NoCand
  /\ snaps' = Append(snaps, [asOf |-> AsOf(cand), read |-> cand.read,
                             quoted |-> cand.quoted, holding |-> cand.holding,
                             total |-> cand.total, sort |-> sort])
  /\ UNCHANGED <<worldVars, audits, todo, cut, faults, ownerVars, events,
                 heartbeat>>

\* The evaluator reads the snapshot, then all rules of the owner.
ReadRules ==
  /\ pc = "promoted"
  /\ pc' = "evaluating"
  /\ todo' = {r \in RuleIds : rules[r] # NoRule}
  /\ UNCHANGED <<worldVars, cand, snaps, audits, cut, faults,
                 ownerVars, events, heartbeat>>

\* An event with the fingerprint of another is not stored.
AppendEvent(e) ==
  events' = IF \E f \in events : /\ f.rule = e.rule /\ f.snap = e.snap
                                 /\ f.state = e.state
            THEN events ELSE events \cup {e}

\* Mutant: a rule that cannot be judged ends the evaluation.
StopAtSuppressed(r) ==
  /\ pc = "evaluating" /\ r \in todo
  /\ ~Malformed(rules[r])
  /\ LET s == snaps[Current]
         state == evaluateAlertRule(rules[r], s, 0)
     IN  /\ AppendEvent([rule |-> r, snap |-> Current, base |-> 0,
                         state |-> state, known |-> {}])
         /\ todo' = IF state = "suppressed" THEN {} ELSE todo \ {r}
  /\ UNCHANGED <<worldVars, cand, snaps, audits, pc, cut, faults,
                 ownerVars, heartbeat>>

\* Rules come in no order.
EvaluateRule(r) ==
  /\ pc = "evaluating" /\ r \in todo
  /\ ~Malformed(rules[r])
  /\ LET s == snaps[Current] IN
     \E b \in IF rules[r].kind \in BaselineKinds /\ Baselines(s) # {}
              THEN Baselines(s) ELSE {0} :
       AppendEvent([rule |-> r, snap |-> Current, base |-> b,
                    state |-> evaluateAlertRule(rules[r], s, b),
                    known |-> {i \in DOMAIN deposits : deposits[i].imported}])
  /\ todo' = todo \ {r}
  /\ UNCHANGED <<worldVars, cand, snaps, audits, pc, cut, faults,
                 ownerVars, heartbeat>>

\* The first query that fails ends the evaluation.
EvaluationFails ==
  /\ \/ /\ pc = "evaluating"
        /\ \E r \in todo : Malformed(rules[r])
        /\ UNCHANGED faults
     \/ /\ pc \in {"promoted", "evaluating"} /\ faults < MaxFaults
        /\ faults' = faults + 1
  /\ pc' = "failed" /\ todo' = {}
  /\ UNCHANGED <<worldVars, cand, snaps, audits, cut, ownerVars,
                 events, heartbeat>>

AuditFailure ==
  /\ pc = "failed"
  /\ pc' = "idle"
  /\ audits' = audits \cup {Current}
  /\ UNCHANGED <<worldVars, cand, snaps, todo, cut, faults,
                 ownerVars, events, heartbeat>>

\* Mutant: the heartbeat is marked beside the evaluation.
MarkAnyway ==
  /\ pc = "evaluating"
  /\ heartbeat' = Current
  /\ pc' = IF todo = {} THEN "idle" ELSE pc
  /\ UNCHANGED <<worldVars, cand, snaps, audits, todo, cut, faults,
                 ownerVars, events>>

MarkHeartbeat ==
  /\ pc = "evaluating" /\ todo = {}
  /\ pc' = "idle"
  /\ heartbeat' = Current
  /\ UNCHANGED <<worldVars, cand, snaps, audits, todo, cut, faults,
                 ownerVars, events>>

\* The process dies, or not even the failure can be recorded.  A refresh
\* that was cut off is repeated, an evaluation is not.
Crash ==
  /\ pc # "idle" /\ faults < MaxFaults
  /\ pc' = "idle" /\ todo' = {} /\ cand' = NoCand
  /\ cut' = IF pc = "refreshing" THEN cut ELSE cut \cup {Current}
  /\ faults' = faults + 1
  /\ UNCHANGED <<worldVars, snaps, audits, ownerVars, events,
                 heartbeat>>

(***************************************************************************)
(* The owner saves rules.  Marking an event as read and muting a rule are  *)
(* left out: the worker reads neither.                                     *)
(***************************************************************************)
Acts == acts < MaxActs /\ acts' = acts + 1

SaveRule(r, form) ==
  /\ Acts
  /\ rules[r] = NoRule
  /\ rules' = [rules EXCEPT ![r] = NewRule(form, Current)]
  /\ UNCHANGED <<worldVars, workerVars, events, heartbeat>>

Next ==
  \/ \E p \in Prices, trades \in BOOLEAN : Tick(p, trades)
  \/ \E a \in Amounts, account \in Accounts, dated, trades \in BOOLEAN :
       Deposit(a, account, dated, trades)
  \/ \E i \in DOMAIN deposits : Import(i)
  \/ StartRun \/ (\E account \in Accounts : ReadPortfolio(account))
  \/ ReadQuotes \/ RunFails
  \/ (\E sort \in Sorts : Promote(sort)) \/ PromoteNothing
  \/ ReadRules \/ (\E r \in RuleIds : EvaluateRule(r))
  \/ EvaluationFails \/ AuditFailure \/ MarkHeartbeat \/ Crash
  \/ \E r \in RuleIds, form \in RuleForms : SaveRule(r, form)

Spec == Init /\ [][Next]_vars

(***************************************************************************)
(* Properties.                                                             *)
(***************************************************************************)
SavedBefore(i) == {r \in RuleIds : rules[r] # NoRule /\ rules[r].after < i}

Evaluated(i) ==
  \A r \in SavedBefore(i) : \E e \in events : e.rule = r /\ e.snap = i

\* No promoted snapshot loses its alerts unnoticed: once the worker has
\* moved on, every rule saved before the promotion has an event for it, or
\* the failure is on record, unless the process died in between (it is not
\* evaluated then, ever).  refresh-service.ts afterSnapshotPromoted.
EvaluatedOrAudited ==
  \A i \in DOMAIN snaps \ cut :
    i < Current \/ pc \in {"idle", "refreshing"}
      => i \in audits \/ Evaluated(i)

\* The heartbeat the health page and the live label rest on says more than
\* that a worker lives: the alerts of some promoted snapshot were evaluated
\* to the last rule.  createWorkerComposition evaluates, then marks.
HeartbeatAttestsAlerts == heartbeat # 0 => Evaluated(heartbeat)

\* Deposits the evaluation could not place: not imported yet, or recorded
\* on the other side of either snapshot.
Placed(e, i) ==
  LET within(t) == snaps[e.base].asOf < t /\ t <= snaps[e.snap].asOf
  IN  /\ within(deposits[i].at) => i \in e.known
      /\ within(deposits[i].at) <=> within(deposits[i].recorded)

\* Deposits the total of a snapshot holds though they came after the moment
\* it is of, while its accounts were read.
Ahead(s) == {i \in DOMAIN deposits :
               /\ s.asOf < deposits[i].at
               /\ deposits[i].at <= s.read[deposits[i].account]}

\* The market's move, which the evaluation cannot tell from the deposits that
\* came while either snapshot was read: those of the later one pass for a
\* gain, those of the earlier one are on record too and pass for a loss.
MoveSeen(e) ==
  LET s == snaps[e.snap]
      b == snaps[e.base]
  IN  Distance(s.holding + SumOf(Ahead(s)), b.holding + SumOf(Ahead(b)))

\* An alert on the portfolio's movement measures the market's move from the
\* last close before the snapshot and misses none.  No deposit that is on
\* record in the right window counts, however reads, snapshots, imports and
\* evaluations interleave, but for one that came while either snapshot was
\* read, by which the alert is off.  A portfolio that was worth nothing at
\* that close has moved by no percentage.
AlertsSeeMarketMoves ==
  \A e \in events :
    LET kind == rules[e.rule].kind
        s == snaps[e.snap]
    IN
    kind \in {"portfolio_percentage_move", "material_value_change"} =>
      /\ e.base # 0 => /\ snaps[e.base].asOf < s.asOf
                       /\ \A c \in Closes(s) :
                            snaps[c].asOf <= snaps[e.base].asOf
      /\ e.state = "suppressed" =>
           \/ ~financialQuality(s)
           \/ Closes(s) = {}
           \/ /\ kind = "portfolio_percentage_move"
              /\ snaps[e.base].total = 0
      /\ /\ e.state # "suppressed"
         /\ \A i \in DOMAIN deposits : Placed(e, i)
         => (e.state = "breach_confirmed" <=>
               IF kind = "material_value_change"
               THEN MoveSeen(e) >= Threshold[kind]
               ELSE AtLeast(MoveSeen(e), snaps[e.base].total,
                            Threshold[kind]))
=============================================================================
