---------------------------- MODULE AlertsProofs ----------------------------
(***************************************************************************)
(* No promoted snapshot loses its alerts unnoticed, the heartbeat attests  *)
(* an evaluation, and an alert on the portfolio's movement measures the    *)
(* market's: for every set of rules, prices, deposits and sorts of         *)
(* snapshots and for any number of runs and failures.                      *)
(*                                                                         *)
(* Two facts carry the first two.  A snapshot that was evaluated stays so: *)
(* no event is ever dropped, and a rule saved later is not one the         *)
(* snapshot owes an event.  And while the worker evaluates, each rule it   *)
(* no longer has to do that the snapshot owes an event has one.  The third *)
(* rests on what snapshots and events are made of (SightInv): each total   *)
(* is the holding and all money paid into an account before it was read.   *)
(* Beyond the money paid in by the moment the snapshot is of, that is what *)
(* came during the reads.  So the totals of two snapshots differ by the    *)
(* market's move, the deposits between, and those that came as they were   *)
(* read.                                                                   *)
(***************************************************************************)
EXTENDS Alerts, Sums

Phases == {"idle", "refreshing", "promoted", "evaluating", "failed"}

\* What a snapshot's numbers are does not matter here.
TypeInv ==
  /\ \E S : snaps \in Seq(S)
  /\ rules \in [RuleIds -> {NoRule} \cup
                             [kind : Kinds, scope : Scopes, after : Nat]]
  /\ pc \in Phases
  /\ heartbeat \in 0..Current

HasEvent(r, i) == \E e \in events : e.rule = r /\ e.snap = i

\* The rules that are left are all the current snapshot still owes.
OthersDone ==
  pc = "evaluating" =>
    \A r \in SavedBefore(Current) \ todo : HasEvent(r, Current)

IndInv ==
  /\ TypeInv
  /\ OthersDone
  /\ EvaluatedOrAudited
  /\ HeartbeatAttestsAlerts

LEMMA CurrentType == TypeInv => Current \in Nat /\ DOMAIN snaps = 1..Current
  BY DEF TypeInv, Current

LEMMA EvaluatedIs ==
  \A i : Evaluated(i) <=> \A r \in SavedBefore(i) : HasEvent(r, i)
  BY DEF Evaluated, HasEvent

-----------------------------------------------------------------------------
\* A step that drops no event and saves no rule but such as no snapshot owes an
\* event leaves what was evaluated evaluated.
LEMMA EvaluatedStays ==
  ASSUME \A e \in events : e \in events',
         NEW i, SavedBefore(i)' \subseteq SavedBefore(i), Evaluated(i)
  PROVE  Evaluated(i)'
  BY DEF Evaluated

LEMMA SavedAlone ==
  ASSUME NEW i, UNCHANGED rules
  PROVE  SavedBefore(i)' = SavedBefore(i)
  BY DEF SavedBefore

\* A step that leaves the snapshots, the rules and the heartbeat alone, and
\* drops neither events nor audits, keeps the properties of all snapshots,
\* unless the worker moves on with it.
LEMMA WorkerBusy ==
  ASSUME IndInv, UNCHANGED <<snaps, rules, heartbeat, cut>>,
         audits \subseteq audits', events \subseteq events',
         \/ pc' \notin {"idle", "refreshing"}
         \/ pc \in {"idle", "refreshing"}
         \/ Current \in audits'
         \/ Evaluated(Current)
  PROVE  EvaluatedOrAudited' /\ HeartbeatAttestsAlerts'
<1>1. \A i : Evaluated(i) => Evaluated(i)'
  BY EvaluatedStays, SavedAlone
<1>2. Current' = Current
  BY DEF Current
<1>3. EvaluatedOrAudited'
  <2> SUFFICES ASSUME NEW i \in DOMAIN snaps \ cut,
                      i < Current \/ pc' \in {"idle", "refreshing"}
               PROVE  i \in audits' \/ Evaluated(i)'
    BY <1>2 DEF EvaluatedOrAudited
  <2>1. i \in 1..Current
    BY CurrentType DEF IndInv
  <2>2. i < Current \/ i = Current
    BY <2>1, CurrentType DEF IndInv
  <2>3. i < Current \/ pc \in {"idle", "refreshing"}
          => i \in audits \/ Evaluated(i)
    BY DEF IndInv, EvaluatedOrAudited
  <2> QED
    BY <1>1, <2>2, <2>3
<1>4. HeartbeatAttestsAlerts'
  <2>1. heartbeat' # 0 => Evaluated(heartbeat)
    BY DEF IndInv, HeartbeatAttestsAlerts
  <2>2. heartbeat' # 0 => (\A e \in events : e \in events')
    OBVIOUS
  <2>3. heartbeat' # 0 => \A r \in SavedBefore(heartbeat) :
                            \E e \in events' : e.rule = r /\ e.snap = heartbeat
    BY <2>1, <2>2 DEF Evaluated
  <2> QED
    BY <2>3 DEF HeartbeatAttestsAlerts, Evaluated, SavedBefore
<1> QED
  BY <1>3, <1>4

-----------------------------------------------------------------------------
LEMMA Initially == Init => IndInv
<1> SUFFICES ASSUME Init PROVE IndInv
  OBVIOUS
<1>1. Current = 0 /\ snaps \in Seq({})
  BY DEF Init, Current
<1>2. TypeInv
  <2>1. \A f \in RuleForms :
          NewRule(f, 0) \in [kind : Kinds, scope : Scopes, after : Nat]
    BY AlertsAssumption DEF NewRule
  <2> QED
    BY <1>1, <2>1 DEF Init, TypeInv, Phases
<1> QED
  BY <1>1, <1>2 DEF Init, IndInv, OthersDone, EvaluatedOrAudited,
                    HeartbeatAttestsAlerts

\* The world, the runs that promote nothing, and the failures.
LEMMA NothingPromoted ==
  ASSUME IndInv, UNCHANGED <<snaps, rules, heartbeat, cut, audits, events>>,
         pc' \in Phases,
         \/ pc' = pc /\ todo' = todo
         \/ pc' \notin {"idle", "refreshing", "evaluating"}
         \/ pc' # "evaluating" /\ pc \in {"idle", "refreshing"}
  PROVE  IndInv'
<1>1. TypeInv'
  BY DEF IndInv, TypeInv, Current
<1>2. OthersDone'
  BY DEF IndInv, OthersDone, SavedBefore, HasEvent, Current
<1>3. EvaluatedOrAudited' /\ HeartbeatAttestsAlerts'
  BY WorkerBusy DEF IndInv
<1> QED
  BY <1>1, <1>2, <1>3 DEF IndInv

LEMMA PromoteKeeps ==
  ASSUME IndInv, NEW sort \in Sorts, Promote(sort)
  PROVE  IndInv'
<1> DEFINE new == [asOf |-> AsOf(cand), read |-> cand.read,
                   quoted |-> cand.quoted, holding |-> cand.holding,
                   total |-> cand.total, sort |-> sort]
<1>1. /\ snaps' = Append(snaps, new) /\ pc = "refreshing" /\ pc' = "promoted"
      /\ UNCHANGED <<rules, events, audits, cut, heartbeat>>
  BY DEF Promote, ownerVars
<1> HIDE DEF new
<1>2. PICK S : snaps \in Seq(S)
  BY DEF IndInv, TypeInv
<1>3. snaps \in Seq(S \cup {new})
  BY <1>2
<1>4. snaps' \in Seq(S \cup {new}) /\ Current' = Current + 1
  BY <1>1, <1>3 DEF Current
<1>5. TypeInv'
  BY <1>1, <1>4, CurrentType DEF IndInv, TypeInv, Phases
<1>6. OthersDone'
  BY <1>1 DEF OthersDone
<1>7. \A i : Evaluated(i)' = Evaluated(i)
  BY <1>1 DEF Evaluated, SavedBefore
<1>8. EvaluatedOrAudited'
  <2> SUFFICES ASSUME NEW i \in DOMAIN snaps', i \notin cut, i < Current'
               PROVE  i \in audits \/ Evaluated(i)'
    BY <1>1 DEF EvaluatedOrAudited
  <2>1. i \in DOMAIN snaps
    BY <1>4, <1>2, CurrentType DEF IndInv, Current
  <2> QED
    BY <1>1, <1>7, <2>1 DEF IndInv, EvaluatedOrAudited
<1>9. HeartbeatAttestsAlerts'
  BY <1>1 DEF IndInv, HeartbeatAttestsAlerts, Evaluated, SavedBefore
<1> QED
  BY <1>5, <1>6, <1>8, <1>9 DEF IndInv

LEMMA ReadRulesKeeps == IndInv /\ ReadRules => IndInv'
<1> SUFFICES ASSUME IndInv, ReadRules PROVE IndInv'
  OBVIOUS
<1>1. /\ pc = "promoted" /\ pc' = "evaluating"
      /\ todo' = {r \in RuleIds : rules[r] # NoRule}
      /\ UNCHANGED <<snaps, rules, heartbeat, cut, audits, events>>
  BY DEF ReadRules, ownerVars
<1>2. TypeInv'
  BY <1>1 DEF IndInv, TypeInv, Current, Phases
<1>3. OthersDone'
  BY <1>1 DEF OthersDone, SavedBefore, Current
<1>4. EvaluatedOrAudited' /\ HeartbeatAttestsAlerts'
  BY <1>1, WorkerBusy
<1> QED
  BY <1>2, <1>3, <1>4 DEF IndInv

\* Appending drops no event, and the event is there, or one with its
\* fingerprint.
LEMMA Appended ==
  ASSUME NEW e, AppendEvent(e)
  PROVE  /\ events \subseteq events'
         /\ \E f \in events' : f.rule = e.rule /\ f.snap = e.snap
  BY DEF AppendEvent

LEMMA EvaluateRuleKeeps ==
  ASSUME IndInv, NEW r \in RuleIds, EvaluateRule(r)
  PROVE  IndInv'
<1>1. /\ pc = "evaluating" /\ pc' = pc /\ todo' = todo \ {r}
      /\ UNCHANGED <<snaps, rules, heartbeat, cut, audits>>
  BY DEF EvaluateRule, ownerVars
<1>2. PICK e : AppendEvent(e) /\ e.rule = r /\ e.snap = Current
  <2>1. PICK b : AppendEvent(
                   [rule |-> r, snap |-> Current, base |-> b,
                    state |-> evaluateAlertRule(rules[r], snaps[Current], b),
                    known |-> {i \in DOMAIN deposits : deposits[i].imported}])
    BY DEF EvaluateRule, ownerVars
  <2> QED
    BY <2>1
<1>3. events \subseteq events' /\ HasEvent(r, Current)'
  BY <1>1, <1>2, Appended DEF HasEvent, Current
<1>4. TypeInv'
  BY <1>1 DEF IndInv, TypeInv, Current
<1>5. OthersDone'
  <2> SUFFICES ASSUME NEW q \in SavedBefore(Current), q \notin todo \/ q = r
               PROVE  \E f \in events' : f.rule = q /\ f.snap = Current
    BY <1>1 DEF OthersDone, SavedBefore, HasEvent, Current
  <2> QED
    BY <1>1, <1>2, <1>3, Appended DEF IndInv, OthersDone, HasEvent
<1>6. EvaluatedOrAudited' /\ HeartbeatAttestsAlerts'
  BY <1>1, <1>3, WorkerBusy
<1> QED
  BY <1>4, <1>5, <1>6 DEF IndInv

LEMMA AuditFailureKeeps == IndInv /\ AuditFailure => IndInv'
<1> SUFFICES ASSUME IndInv, AuditFailure PROVE IndInv'
  OBVIOUS
<1>1. /\ pc' = "idle" /\ audits' = audits \cup {Current}
      /\ UNCHANGED <<snaps, rules, heartbeat, cut, events>>
  BY DEF AuditFailure, ownerVars
<1>2. TypeInv' /\ OthersDone'
  BY <1>1 DEF IndInv, TypeInv, OthersDone, Current, Phases
<1>3. EvaluatedOrAudited' /\ HeartbeatAttestsAlerts'
  BY <1>1, WorkerBusy
<1> QED
  BY <1>2, <1>3 DEF IndInv

LEMMA MarkHeartbeatKeeps == IndInv /\ MarkHeartbeat => IndInv'
<1> SUFFICES ASSUME IndInv, MarkHeartbeat PROVE IndInv'
  OBVIOUS
<1>1. /\ pc = "evaluating" /\ todo = {} /\ pc' = "idle"
      /\ heartbeat' = Current
      /\ UNCHANGED <<snaps, rules, cut, audits, events>>
  BY DEF MarkHeartbeat, ownerVars
<1>2. TypeInv' /\ OthersDone'
  BY <1>1, CurrentType DEF IndInv, TypeInv, OthersDone, Current, Phases
<1>3. Evaluated(Current)
  BY <1>1, EvaluatedIs DEF IndInv, OthersDone
<1>4. \A i : Evaluated(i)' = Evaluated(i)
  BY <1>1 DEF Evaluated, SavedBefore
<1>5. EvaluatedOrAudited'
  <2> SUFFICES ASSUME NEW i \in DOMAIN snaps \ cut
               PROVE  i \in audits \/ Evaluated(i)'
    BY <1>1 DEF EvaluatedOrAudited
  <2>1. i = Current \/ i < Current
    BY CurrentType DEF IndInv
  <2> QED
    BY <1>3, <1>4, <2>1 DEF IndInv, EvaluatedOrAudited
<1>6. HeartbeatAttestsAlerts'
  BY <1>1, <1>3 DEF HeartbeatAttestsAlerts, Evaluated, SavedBefore, Current
<1> QED
  BY <1>2, <1>5, <1>6 DEF IndInv

LEMMA CrashKeeps == IndInv /\ Crash => IndInv'
<1> SUFFICES ASSUME IndInv, Crash PROVE IndInv'
  OBVIOUS
<1>1. /\ pc # "idle" /\ pc' = "idle"
      /\ \/ pc = "refreshing" /\ cut' = cut
         \/ pc # "refreshing" /\ cut' = cut \cup {Current}
      /\ UNCHANGED <<snaps, rules, heartbeat, audits, events>>
  BY DEF Crash, ownerVars
<1>2. TypeInv' /\ OthersDone'
  BY <1>1 DEF IndInv, TypeInv, OthersDone, Current, Phases
<1>3. \A i : Evaluated(i)' = Evaluated(i)
  BY <1>1 DEF Evaluated, SavedBefore
<1>4. EvaluatedOrAudited'
  <2> SUFFICES ASSUME NEW i \in DOMAIN snaps, i \notin cut'
               PROVE  i \in audits \/ Evaluated(i)'
    BY <1>1 DEF EvaluatedOrAudited
  <2>1. i = Current \/ i < Current
    BY CurrentType DEF IndInv
  <2> QED
    BY <1>1, <1>3, <2>1 DEF IndInv, EvaluatedOrAudited
<1>5. HeartbeatAttestsAlerts'
  BY <1>1 DEF IndInv, HeartbeatAttestsAlerts, Evaluated, SavedBefore
<1> QED
  BY <1>2, <1>4, <1>5 DEF IndInv

\* A rule that is saved now is owed an event by later snapshots only.
LEMMA SaveRuleKeeps ==
  ASSUME IndInv, NEW r \in RuleIds, NEW form \in RuleForms, SaveRule(r, form)
  PROVE  IndInv'
<1>1. /\ rules' = [rules EXCEPT ![r] = NewRule(form, Current)]
      /\ UNCHANGED <<snaps, pc, todo, heartbeat, cut, audits, events>>
  BY DEF SaveRule, workerVars
<1>2. NewRule(form, Current) \in [kind : Kinds, scope : Scopes, after : Nat]
      /\ NewRule(form, Current).after = Current
  BY AlertsAssumption, CurrentType DEF NewRule, IndInv
<1>3. TypeInv'
  BY <1>1, <1>2 DEF IndInv, TypeInv, Current
<1>4. rules'[r].after = Current /\ \A q \in RuleIds \ {r} : rules'[q] = rules[q]
  BY <1>1, <1>2 DEF IndInv, TypeInv
<1>5. \A i \in 0..Current : SavedBefore(i)' \subseteq SavedBefore(i)
  <2> SUFFICES ASSUME NEW i \in 0..Current, NEW q \in SavedBefore(i)'
               PROVE  q \in SavedBefore(i)
    OBVIOUS
  <2>1. q \in RuleIds /\ rules'[q] # NoRule /\ rules'[q].after < i
    BY DEF SavedBefore
  <2>2. q # r
    BY <1>4, <2>1, CurrentType DEF IndInv
  <2> QED
    BY <1>4, <2>1, <2>2 DEF SavedBefore
<1>6. \A i \in 0..Current : Evaluated(i) => Evaluated(i)'
  BY <1>1, <1>5, EvaluatedStays
<1>7. OthersDone'
  <2>1. SavedBefore(Current)' \subseteq SavedBefore(Current)
    <3>1. Current' = Current /\ Current \in 0..Current
      BY <1>1, CurrentType DEF IndInv, Current
    <3>2. PICK n \in 0..Current : n = Current
      BY <3>1
    <3>3. SavedBefore(n)' \subseteq SavedBefore(n)
      BY <1>5
    <3> QED
      BY <3>1, <3>2, <3>3 DEF SavedBefore
  <2> QED
    BY <1>1, <2>1 DEF IndInv, OthersDone, HasEvent, Current
<1>8. EvaluatedOrAudited'
  <2>1. DOMAIN snaps \subseteq 0..Current
    BY CurrentType DEF IndInv
  <2> QED
    BY <1>1, <1>6, <2>1 DEF IndInv, EvaluatedOrAudited, Current
<1>9. HeartbeatAttestsAlerts'
  <2>1. PICK n \in 0..Current : n = heartbeat
    BY DEF IndInv, TypeInv
  <2>2. heartbeat' = n /\ (n # 0 => Evaluated(n)')
    BY <1>1, <1>6, <2>1 DEF IndInv, HeartbeatAttestsAlerts
  <2> QED
    BY <2>2 DEF HeartbeatAttestsAlerts, Evaluated, SavedBefore
<1> QED
  BY <1>3, <1>7, <1>8, <1>9 DEF IndInv

LEMMA Inductive == IndInv /\ [Next]_vars => IndInv'
<1> SUFFICES ASSUME IndInv, [Next]_vars PROVE IndInv'
  OBVIOUS
<1> USE DEF worldVars, workerVars, ownerVars, Phases
<1>1. ASSUME NEW p \in Prices, NEW trades \in BOOLEAN, Tick(p, trades)
      PROVE  IndInv'
  BY <1>1, NothingPromoted DEF Tick, IndInv, TypeInv
<1>2. ASSUME NEW a \in Amounts, NEW account \in Accounts,
             NEW dated \in BOOLEAN, NEW trades \in BOOLEAN,
             Deposit(a, account, dated, trades)
      PROVE  IndInv'
  BY <1>2, NothingPromoted DEF Deposit, IndInv, TypeInv
<1>3. ASSUME NEW i \in DOMAIN deposits, Import(i) PROVE IndInv'
  BY <1>3, NothingPromoted DEF Import, IndInv, TypeInv
<1>4. CASE \/ StartRun \/ ReadQuotes \/ RunFails \/ PromoteNothing
           \/ \E account \in Accounts : ReadPortfolio(account)
  BY <1>4, NothingPromoted DEF StartRun, ReadPortfolio, ReadQuotes, RunFails,
     PromoteNothing
<1>5. CASE EvaluationFails
  BY <1>5, NothingPromoted DEF EvaluationFails
<1>6. CASE UNCHANGED vars
  BY <1>6, NothingPromoted DEF vars, IndInv, TypeInv
<1> QED
  BY <1>1, <1>2, <1>3, <1>4, <1>5, <1>6, PromoteKeeps, ReadRulesKeeps,
     EvaluateRuleKeeps, AuditFailureKeeps, MarkHeartbeatKeeps, CrashKeeps,
     SaveRuleKeeps DEF Next

\* IndInv holds in every state that is reached.
THEOREM Invariant == Spec => []IndInv
  BY Initially, Inductive, PTL DEF Spec

\* Once the worker has moved on from a promotion, each rule saved before it has
\* its event, or the failure is on record.
THEOREM NoAlertsLost == Spec => []EvaluatedOrAudited
<1>1. IndInv => EvaluatedOrAudited
  BY DEF IndInv
<1> QED
  BY <1>1, Invariant, PTL

\* The heartbeat stands for an evaluation that went through every rule.
THEOREM HeartbeatTrue == Spec => []HeartbeatAttestsAlerts
<1>1. IndInv => HeartbeatAttestsAlerts
  BY DEF IndInv
<1> QED
  BY <1>1, Invariant, PTL

(***************************************************************************)
(* What an alert on the portfolio's movement has seen.  A snapshot's total *)
(* is the holding and all money paid into an account before it was read,   *)
(* and an event is what the evaluation made of the deposits known then:    *)
(* neither changes with what comes later.                                  *)
(***************************************************************************)
MoveKinds == {"portfolio_percentage_move", "material_value_change"}

SnapType == [asOf : Nat, read : [Accounts -> Nat], quoted : Nat,
             holding : Nat, total : Int, sort : Sorts]
CandType == [read : [Accounts -> Nat], quoted : Nat, holding : Nat,
             total : Int]
DepositType == [at : Nat \ {0}, account : Accounts, amount : Int,
                imported : BOOLEAN, recorded : Nat]

Made(t) == {i \in DOMAIN deposits : deposits[i].at <= t}

\* Deposits that were there when their account was read, if it was.
Held(read) ==
  {i \in DOMAIN deposits : deposits[i].at <= read[deposits[i].account]}

\* Read in the past, not before the moment it is of, with what there was.
TrueTo(s) ==
  /\ \A a \in Accounts : s.asOf <= s.read[a] /\ s.read[a] <= now
  /\ s.total = s.holding + (StartCash + SumOf(Held(s.read)))

\* The accounts read so far, with what there was.
SumsUp(c) ==
  /\ \A a \in Accounts : c.read[a] <= now
  /\ c.quoted # 0 => c.read[Holder] # 0
  /\ c.total = (IF c.read[Holder] = 0 THEN 0 ELSE c.holding + StartCash)
                 + SumOf(Held(c.read))

WorldTyped ==
  /\ now \in Nat \ {0} /\ price \in Nat /\ traded \in Nat
  /\ deposits \in Seq(DepositType)
  /\ \A i \in DOMAIN deposits : deposits[i].at <= now

SnapsTrue ==
  /\ snaps \in Seq(SnapType)
  /\ \A k \in DOMAIN snaps : /\ TrueTo(snaps[k])
                            /\ snaps[k].asOf <= snaps[Current].asOf
  /\ pc \in {"promoted", "evaluating"} => Len(snaps) > 0
  /\ pc = "refreshing" => cand \in CandType /\ SumsUp(cand)

KnownFlows(e) ==
  SumOf({i \in e.known : /\ snaps[e.base].asOf < deposits[i].recorded
                         /\ deposits[i].recorded <= snaps[e.snap].asOf})

\* The rule was breached by what the evaluation took for the movement.
Moved(kind, s, b, flows) ==
  LET move == Distance(s.total, b.total + flows) IN
  IF kind = "material_value_change" THEN move >= Threshold[kind]
  ELSE AtLeast(move, b.total, Threshold[kind])

Unjudged(kind, s, base) ==
  \/ ~financialQuality(s)
  \/ base = 0
  \/ kind = "portfolio_percentage_move" /\ snaps[base].total = 0

Judged(e) ==
  /\ e.rule \in RuleIds /\ rules[e.rule] # NoRule
  /\ e.snap \in DOMAIN snaps /\ e.known \subseteq DOMAIN deposits
  /\ rules[e.rule].kind \in MoveKinds =>
       LET kind == rules[e.rule].kind
           s == snaps[e.snap]
       IN /\ e.base = 0 => Closes(s) = {}
          /\ e.base # 0 => e.base \in Baselines(s)
          /\ e.state = IF Unjudged(kind, s, e.base) THEN "suppressed"
                       ELSE IF Moved(kind, s, snaps[e.base], KnownFlows(e))
                            THEN "breach_confirmed" ELSE "within_threshold"

SightInv == WorldTyped /\ SnapsTrue /\ (\A e \in events : Judged(e))

LEMMA ConstantsTyped ==
  /\ Prices \subseteq Nat /\ Prices # {} /\ StartCash \in Nat
  /\ Amounts \subseteq Int /\ Holder \in Accounts
BY AlertsAssumption

LEMMA InitialSight == Init => SightInv
<1> SUFFICES ASSUME Init PROVE SightInv
  OBVIOUS
<1>1. Min(Prices) \in Nat
  <2>1. \E m \in Prices : \A y \in Prices : m <= y
    BY ConstantsTyped, LeastNatural
  <2> QED
    BY <2>1, ConstantsTyped DEF Min
<1>2. WorldTyped
  BY <1>1 DEF Init, WorldTyped
<1>3. SnapsTrue
  BY DEF Init, SnapsTrue
<1> QED
  BY <1>2, <1>3 DEF Init, SightInv

-----------------------------------------------------------------------------
\* Time goes on, deposits are added, none is changed but for being imported.
WorldGrows ==
  /\ now <= now' /\ DOMAIN deposits \subseteq DOMAIN deposits'
  /\ \A i \in DOMAIN deposits : /\ deposits'[i].at = deposits[i].at
                                /\ deposits'[i].amount = deposits[i].amount
                                /\ deposits'[i].account = deposits[i].account
                                /\ deposits'[i].recorded = deposits[i].recorded
  /\ \A i \in DOMAIN deposits' \ DOMAIN deposits :
       /\ deposits'[i].at \in Nat /\ deposits'[i].at > now
       /\ deposits'[i].account \in Accounts

LEMMA DepositsTyped ==
  ASSUME WorldTyped
  PROVE  /\ DOMAIN deposits = 1..Len(deposits) /\ Len(deposits) \in Nat
         /\ \A i \in DOMAIN deposits : deposits[i] \in DepositType
BY DEF WorldTyped

\* A sum is that of the deposits it counts.
LEMMA SumKept ==
  ASSUME WorldTyped, WorldGrows, NEW ds \in SUBSET DOMAIN deposits
  PROVE  /\ SumOf(ds)' = SumOf(ds)
         /\ SumOf(ds) \in Int
<1> DEFINE f == [i \in DOMAIN deposits |-> deposits[i].amount]
           g == [i \in DOMAIN deposits' |-> deposits'[i].amount]
<1>1. IsFiniteSet(ds)
  <2>1. DOMAIN deposits = 1..Len(deposits) /\ Len(deposits) \in Nat
    BY DEF WorldTyped
  <2>2. IsFiniteSet(1..Len(deposits))
    BY <2>1, FS_Interval
  <2> QED
    BY <2>1, <2>2, FS_Subset
<1>2. \A i \in ds : f[i] \in Int /\ f[i] = g[i]
  BY DepositsTyped DEF WorldGrows, DepositType
<1> HIDE DEF f, g
<1>3. SumFunctionOnSet(f, ds) = SumFunctionOnSet(g, ds)
  BY <1>1, <1>2, SumSame
<1>4. SumFunctionOnSet(f, ds) \in Int
  BY <1>1, <1>2, SumType
<1> QED
  BY <1>3, <1>4 DEF SumOf, f, g

LEMMA HeldKept ==
  ASSUME WorldTyped, WorldGrows, NEW read \in [Accounts -> Nat],
         \A a \in Accounts : read[a] <= now
  PROVE  /\ SumOf(Held(read))' = SumOf(Held(read))
         /\ SumOf(Held(read)) \in Int
<1>1. Held(read)' = Held(read)
  <2>1. \A i \in DOMAIN deposits' \ DOMAIN deposits :
          ~(deposits'[i].at <= read[deposits'[i].account])
    <3> SUFFICES ASSUME NEW i \in DOMAIN deposits' \ DOMAIN deposits
                 PROVE  ~(deposits'[i].at <= read[deposits'[i].account])
      OBVIOUS
    <3>1. /\ deposits'[i].at \in Nat /\ deposits'[i].at > now
          /\ deposits'[i].account \in Accounts
      BY DEF WorldGrows
    <3>2. read[deposits'[i].account] \in Nat
          /\ read[deposits'[i].account] <= now
      BY <3>1
    <3> QED
      BY <3>1, <3>2 DEF WorldTyped
  <2> QED
    BY <2>1 DEF Held, WorldGrows
<1>2. PICK ds : ds = Held(read)
  OBVIOUS
<1>3. ds \in SUBSET DOMAIN deposits
  BY <1>2 DEF Held
<1>4. SumOf(ds)' = SumOf(ds) /\ SumOf(ds) \in Int
  BY <1>3, SumKept
<1> QED
  BY <1>1, <1>2, <1>4 DEF SumOf

LEMMA TrueToKept ==
  ASSUME WorldTyped, WorldGrows, now' \in Nat,
         NEW s, s.read \in [Accounts -> Nat]
  PROVE  /\ TrueTo(s) => TrueTo(s)'
         /\ SumsUp(s) => SumsUp(s)'
<1>1. PICK read \in [Accounts -> Nat] : read = s.read
  OBVIOUS
<1>2. ASSUME \A a \in Accounts : read[a] <= now
      PROVE  /\ \A a \in Accounts : read[a] <= now'
             /\ SumOf(Held(read))' = SumOf(Held(read))
  BY <1>2, HeldKept DEF WorldTyped, WorldGrows
<1>3. PICK x : x = SumOf(Held(read))
  OBVIOUS
<1>4. (\A a \in Accounts : read[a] <= now) => SumOf(Held(s.read))' = x
  BY <1>1, <1>2, <1>3
<1>5. SumOf(Held(s.read)) = x
  BY <1>1, <1>3
<1>6. TrueTo(s) => TrueTo(s)'
  BY <1>1, <1>2, <1>4, <1>5 DEF TrueTo
<1>7. SumsUp(s) => SumsUp(s)'
  BY <1>1, <1>2, <1>4, <1>5 DEF SumsUp
<1> QED
  BY <1>6, <1>7

\* Snapshots are added, none earlier than another, and rules, for those that
\* were free.
SnapsGrow ==
  /\ DOMAIN snaps \subseteq DOMAIN snaps'
  /\ \A k \in DOMAIN snaps : snaps'[k] = snaps[k]
  /\ \A k \in DOMAIN snaps' \ DOMAIN snaps :
       /\ snaps'[k].asOf \in Nat
       /\ \A j \in DOMAIN snaps : snaps[j].asOf <= snaps'[k].asOf

RulesKept == \A r \in RuleIds : rules[r] # NoRule => rules'[r] = rules[r]

LEMMA SnapTyped ==
  ASSUME SnapsTrue
  PROVE  /\ DOMAIN snaps = 1..Len(snaps) /\ Len(snaps) \in Nat
         /\ \A k \in DOMAIN snaps : snaps[k] \in SnapType
BY DEF SnapsTrue

LEMMA ClosesKept ==
  ASSUME SnapsTrue, SnapsGrow, NEW i \in DOMAIN snaps, NEW s, s = snaps[i]
  PROVE  Closes(s)' = Closes(s) /\ Baselines(s)' = Baselines(s)
<1>1. \A k \in DOMAIN snaps' \ DOMAIN snaps : ~(snaps'[k].asOf < s.asOf)
  <2> TAKE k \in DOMAIN snaps' \ DOMAIN snaps
  <2>1. snaps'[k].asOf \in Nat /\ s.asOf <= snaps'[k].asOf
    BY DEF SnapsGrow
  <2>2. s.asOf \in Nat
    BY SnapTyped DEF SnapType
  <2> QED
    BY <2>1, <2>2
<1>2. Closes(s)' = Closes(s)
  BY <1>1 DEF Closes, SnapsGrow
<1>3. Closes(s) \subseteq DOMAIN snaps
  BY DEF Closes
<1> QED
  BY <1>2, <1>3 DEF Baselines, SnapsGrow

LEMMA FlowsKept ==
  ASSUME WorldTyped, WorldGrows, SnapsGrow, NEW e,
         e.known \subseteq DOMAIN deposits,
         e.snap \in DOMAIN snaps, e.base \in DOMAIN snaps
  PROVE  KnownFlows(e)' = KnownFlows(e)
<1> DEFINE ds == {i \in e.known : /\ snaps[e.base].asOf < deposits[i].recorded
                                  /\ deposits[i].recorded <= snaps[e.snap].asOf}
<1>1. ds' = ds
  BY DEF SnapsGrow, WorldGrows
<1>2. PICK d : d = ds
  OBVIOUS
<1>3. d \in SUBSET DOMAIN deposits
  BY <1>2
<1>4. SumOf(d)' = SumOf(d)
  BY <1>3, SumKept
<1>5. KnownFlows(e) = SumOf(d)
  BY <1>2 DEF KnownFlows
<1>6. KnownFlows(e)' = SumOf(d)'
  BY <1>1, <1>2 DEF KnownFlows, SumOf
<1> QED
  BY <1>4, <1>5, <1>6

LEMMA JudgedKept ==
  ASSUME WorldTyped, SnapsTrue, WorldGrows, SnapsGrow, RulesKept,
         NEW e, Judged(e)
  PROVE  Judged(e)'
<1>1. /\ e.rule \in RuleIds /\ rules[e.rule] # NoRule
      /\ rules'[e.rule] = rules[e.rule]
      /\ e.snap \in DOMAIN snaps /\ e.known \subseteq DOMAIN deposits
      /\ e.snap \in DOMAIN snaps' /\ e.known \subseteq DOMAIN deposits'
      /\ snaps'[e.snap] = snaps[e.snap]
  BY DEF Judged, RulesKept, SnapsGrow, WorldGrows
<1>2. CASE rules[e.rule].kind \notin MoveKinds
  BY <1>1, <1>2 DEF Judged
<1>3. CASE rules[e.rule].kind \in MoveKinds
  <2>1. PICK kind, s, b : /\ kind = rules[e.rule].kind /\ s = snaps[e.snap]
                          /\ b = e.base
    OBVIOUS
  <2>2. Closes(s)' = Closes(s) /\ Baselines(s)' = Baselines(s)
    BY <1>1, <2>1, ClosesKept
  <2>3. /\ b = 0 => Closes(s) = {}
        /\ b # 0 => b \in Baselines(s)
        /\ e.state = IF Unjudged(kind, s, b) THEN "suppressed"
                     ELSE IF Moved(kind, s, snaps[b], KnownFlows(e))
                          THEN "breach_confirmed" ELSE "within_threshold"
    BY <1>3, <2>1 DEF Judged
  <2>4. CASE b = 0
    <3>1. Unjudged(kind, s, b) /\ Unjudged(kind, s, b)'
      BY <2>4 DEF Unjudged
    <3>2. e.state = "suppressed"
      BY <2>3, <3>1
    <3> QED
      BY <1>1, <2>1, <2>2, <2>3, <2>4, <3>1, <3>2 DEF Judged, Unjudged
  <2>5. CASE b # 0
    <3>1. b \in DOMAIN snaps
      BY <2>3, <2>5 DEF Baselines, Closes
    <3>2. snaps'[b] = snaps[b]
      BY <3>1 DEF SnapsGrow
    <3>3. KnownFlows(e)' = KnownFlows(e)
      BY <1>1, <2>1, <3>1, FlowsKept
    <3>4. PICK flows : flows = KnownFlows(e)
      OBVIOUS
    <3>5. /\ Unjudged(kind, s, b)' = Unjudged(kind, s, b)
          /\ Moved(kind, s, snaps[b], flows)' = Moved(kind, s, snaps[b], flows)
      BY <3>2 DEF Unjudged, Moved
    <3>6. e.state = IF Unjudged(kind, s, b)' THEN "suppressed"
                    ELSE IF Moved(kind, s, snaps[b], flows)'
                         THEN "breach_confirmed" ELSE "within_threshold"
      BY <2>3, <3>4, <3>5
    <3> QED
      BY <1>1, <2>1, <2>2, <2>3, <2>5, <3>3, <3>4, <3>6
         DEF Judged, Unjudged, Moved
  <2> QED
    BY <2>4, <2>5
<1> QED
  BY <1>2, <1>3

-----------------------------------------------------------------------------
LEMMA SightKept ==
  ASSUME SightInv, WorldTyped', WorldGrows, SnapsGrow, RulesKept, SnapsTrue',
         \A e \in events' : e \in events \/ Judged(e)'
  PROVE  SightInv'
<1>1. \A e \in events : Judged(e)'
  BY JudgedKept DEF SightInv
<1> QED
  BY <1>1 DEF SightInv

LEMMA SnapsStay ==
  ASSUME UNCHANGED <<snaps, rules>>
  PROVE  SnapsGrow /\ RulesKept
BY DEF SnapsGrow, RulesKept

\* The world goes on beside the worker.
LEMMA WorldSight ==
  ASSUME SightInv, WorldTyped', WorldGrows,
         UNCHANGED <<snaps, rules, events, cand, pc>>
  PROVE  SightInv'
<1>1. now' \in Nat
  BY DEF WorldTyped
<1>2. SnapsTrue'
  <2>1. ASSUME NEW k \in DOMAIN snaps PROVE TrueTo(snaps[k])'
    <3>1. PICK s : s = snaps[k]
      OBVIOUS
    <3>2. s.read \in [Accounts -> Nat] /\ TrueTo(s)
      BY <3>1, SnapTyped DEF SightInv, SnapsTrue, SnapType
    <3>3. TrueTo(s)'
      BY <1>1, <3>2, TrueToKept DEF SightInv
    <3> QED
      BY <3>1, <3>3 DEF TrueTo, SumOf, Held
  <2>2. ASSUME pc = "refreshing" PROVE SumsUp(cand)'
    <3>1. PICK c : c = cand
      OBVIOUS
    <3>2. c.read \in [Accounts -> Nat] /\ SumsUp(c)
      BY <2>2, <3>1 DEF SightInv, SnapsTrue, CandType
    <3>3. SumsUp(c)'
      BY <1>1, <3>2, TrueToKept DEF SightInv
    <3> QED
      BY <3>1, <3>3 DEF SumsUp, SumOf, Held
  <2> QED
    BY <2>1, <2>2 DEF SightInv, SnapsTrue, Current
<1> QED
  BY <1>2, SightKept, SnapsStay DEF SightInv

LEMMA TickSight ==
  ASSUME SightInv, NEW p \in Prices, NEW trades \in BOOLEAN,
         Tick(p, trades)
  PROVE  SightInv'
<1>1. /\ now' = now + 1 /\ price' = p /\ UNCHANGED deposits
      /\ traded' = now' \/ traded' = traded
      /\ UNCHANGED <<snaps, rules, events, cand, pc>>
  BY DEF Tick, TimePasses, workerVars, ownerVars
<1>2. now \in Nat /\ \A i \in DOMAIN deposits : deposits[i].at \in Nat
  BY DepositsTyped DEF SightInv, WorldTyped, DepositType
<1>3. WorldTyped'
  BY <1>1, <1>2, ConstantsTyped DEF SightInv, WorldTyped
<1>4. WorldGrows
  BY <1>1, <1>2 DEF WorldGrows
<1> QED
  BY <1>1, <1>3, <1>4, WorldSight

LEMMA DepositSight ==
  ASSUME SightInv, NEW a \in Amounts, NEW account \in Accounts,
         NEW dated \in BOOLEAN, NEW trades \in BOOLEAN,
         Deposit(a, account, dated, trades)
  PROVE  SightInv'
<1> DEFINE d == [at |-> now', account |-> account, amount |-> a,
                 imported |-> FALSE,
                 recorded |-> IF dated THEN now ELSE now']
<1>1. /\ now' = now + 1 /\ deposits' = Append(deposits, d) /\ UNCHANGED price
      /\ traded' = now' \/ traded' = traded
      /\ UNCHANGED <<snaps, rules, events, cand, pc>>
  BY DEF Deposit, TimePasses, workerVars, ownerVars
<1>2. /\ now \in Nat \ {0} /\ now' \in Nat \ {0}
      /\ d \in DepositType /\ d.at = now' /\ d.account = account
      /\ deposits \in Seq(DepositType)
  BY <1>1, ConstantsTyped DEF SightInv, WorldTyped, DepositType
<1> HIDE DEF d
<1>3. /\ deposits' \in Seq(DepositType)
      /\ DOMAIN deposits' = DOMAIN deposits \cup {Len(deposits) + 1}
      /\ deposits'[Len(deposits) + 1] = d
      /\ \A i \in DOMAIN deposits : deposits'[i] = deposits[i]
  BY <1>1, <1>2
<1>4. \A i \in DOMAIN deposits : deposits[i].at \in Nat /\ deposits[i].at <= now
  BY DepositsTyped DEF SightInv, WorldTyped, DepositType
<1>5. WorldTyped'
  BY <1>1, <1>2, <1>3, <1>4 DEF SightInv, WorldTyped
<1>6. WorldGrows
  BY <1>1, <1>2, <1>3 DEF WorldGrows
<1> QED
  BY <1>1, <1>5, <1>6, WorldSight

LEMMA ImportSight ==
  ASSUME SightInv, NEW i \in DOMAIN deposits, Import(i)
  PROVE  SightInv'
<1>1. /\ deposits' = [deposits EXCEPT ![i].imported = TRUE]
      /\ UNCHANGED <<now, price, traded>>
      /\ UNCHANGED <<snaps, rules, events, cand, pc>>
  BY DEF Import, workerVars, ownerVars
<1>2. /\ deposits \in Seq(DepositType) /\ now \in Nat \ {0}
      /\ DOMAIN deposits' = DOMAIN deposits
  BY <1>1 DEF SightInv, WorldTyped
<1>3. \A j \in DOMAIN deposits : /\ deposits'[j].at = deposits[j].at
                                 /\ deposits'[j].amount = deposits[j].amount
                                 /\ deposits'[j].account = deposits[j].account
                                 /\ deposits'[j].recorded
                                      = deposits[j].recorded
                                 /\ deposits'[j] \in DepositType
  BY <1>1, <1>2, DepositsTyped DEF SightInv, DepositType
<1>4. deposits' \in Seq(DepositType)
  <2>1. PICK n \in Nat : DOMAIN deposits = 1..n
    BY <1>2
  <2>2. deposits' \in [1..n -> DepositType]
    <3> DEFINE d == [deposits[i] EXCEPT !.imported = TRUE]
    <3>1. deposits' = [deposits EXCEPT ![i] = d]
      BY <1>1
    <3>2. d \in DepositType
      BY <1>1, <1>3
    <3>3. deposits \in [1..n -> DepositType]
      BY <1>2, <2>1
    <3> HIDE DEF d
    <3> QED
      BY <3>1, <3>2, <3>3
  <2> QED
    BY <2>2
<1>5. WorldTyped'
  BY <1>1, <1>2, <1>3, <1>4 DEF SightInv, WorldTyped
<1>6. WorldGrows
  BY <1>1, <1>2, <1>3 DEF WorldGrows
<1> QED
  BY <1>1, <1>5, <1>6, WorldSight

\* The worker, the owner: the world is as it was.
LEMMA WorldStays ==
  ASSUME SightInv, UNCHANGED worldVars
  PROVE  /\ WorldTyped' /\ WorldGrows
         /\ \A s : TrueTo(s)' = TrueTo(s) /\ SumsUp(s)' = SumsUp(s)
BY DEF SightInv, WorldTyped, WorldGrows, worldVars, TrueTo, SumsUp, Held, SumOf

\* A refresh goes on to read.
LEMMA ReadingSight ==
  ASSUME SightInv, UNCHANGED worldVars, UNCHANGED <<snaps, rules, events>>,
         pc' = "refreshing", NEW c \in CandType, cand' = c, SumsUp(c)
  PROVE  SightInv'
<1>1. SumsUp(c)' /\ \A k \in DOMAIN snaps : TrueTo(snaps[k])'
  BY WorldStays DEF SightInv, SnapsTrue
<1>2. SumsUp(cand)'
  BY <1>1 DEF SumsUp, SumOf, Held
<1>3. SnapsTrue'
  BY <1>1, <1>2 DEF SightInv, SnapsTrue, Current
<1> QED
  BY <1>3, SightKept, SnapsStay, WorldStays DEF SightInv

LEMMA StartSight ==
  ASSUME SightInv, StartRun
  PROVE  SightInv'
<1> DEFINE c == [read |-> [a \in Accounts |-> 0], quoted |-> 0,
                 holding |-> 0, total |-> 0]
<1>1. /\ pc' = "refreshing" /\ UNCHANGED <<snaps, rules, events>>
      /\ cand' = c /\ UNCHANGED worldVars
  BY DEF StartRun, ownerVars
<1>2. Held(c.read) = {}
  <2> SUFFICES ASSUME NEW i \in DOMAIN deposits
               PROVE  ~(deposits[i].at <= c.read[deposits[i].account])
    BY DEF Held
  <2>1. deposits[i].at \in Nat \ {0} /\ deposits[i].account \in Accounts
    BY DepositsTyped DEF SightInv, DepositType
  <2> QED
    BY <2>1
<1>3. SumOf(Held(c.read)) = 0
  BY <1>2, SumEmpty DEF SumOf
<1>4. c \in CandType /\ SumsUp(c)
  BY <1>3, ConstantsTyped DEF CandType, SumsUp, SightInv, WorldTyped
<1> HIDE DEF c
<1> QED
  BY <1>1, <1>4, ReadingSight

\* What an account's portfolio adds are the deposits into it.
LEMMA HeldMore ==
  ASSUME WorldTyped, NEW account \in Accounts, NEW read \in [Accounts -> Nat],
         read[account] = 0
  PROVE  /\ SumOf(Held([read EXCEPT ![account] = now]))
              = SumOf(Held(read)) + SumOf(Into(account))
         /\ SumOf(Held(read)) \in Int /\ SumOf(Into(account)) \in Int
<1> DEFINE f == [i \in DOMAIN deposits |-> deposits[i].amount]
           all == Held([read EXCEPT ![account] = now])
<1>1. \A i \in DOMAIN deposits :
        /\ deposits[i].at \in Nat \ {0} /\ deposits[i].account \in Accounts
        /\ deposits[i].at <= now /\ f[i] \in Int
  BY DepositsTyped DEF WorldTyped, DepositType
<1>2. all \cap Held(read) = Held(read) /\ all \ Held(read) = Into(account)
  <2>1. \A i \in DOMAIN deposits :
          deposits[i].account = account => i \in all /\ i \notin Held(read)
    BY <1>1 DEF Held
  <2>2. \A i \in DOMAIN deposits :
          deposits[i].account # account => (i \in all <=> i \in Held(read))
    BY <1>1 DEF Held
  <2>3. all \subseteq DOMAIN deposits /\ Held(read) \subseteq DOMAIN deposits
    BY DEF Held
  <2> HIDE DEF all
  <2> QED
    BY <2>1, <2>2, <2>3 DEF Into
<1>3. /\ all \subseteq DOMAIN deposits /\ Held(read) \subseteq DOMAIN deposits
      /\ Into(account) \subseteq DOMAIN deposits
  BY DEF Held, Into
<1>4. IsFiniteSet(DOMAIN deposits)
  BY DepositsTyped, FS_Interval
<1> HIDE DEF f, all
<1>5. IsFiniteSet(all) /\ IsFiniteSet(Held(read)) /\ IsFiniteSet(Into(account))
  BY <1>3, <1>4, FS_Subset
<1>6. SumFunctionOnSet(f, all)
        = SumFunctionOnSet(f, all \cap Held(read))
            + SumFunctionOnSet(f, all \ Held(read))
  BY <1>1, <1>3, <1>5, SumSplit
<1>7. /\ SumFunctionOnSet(f, Held(read)) \in Int
      /\ SumFunctionOnSet(f, Into(account)) \in Int
  BY <1>1, <1>3, <1>5, SumType
<1> QED
  BY <1>2, <1>6, <1>7 DEF SumOf, f, all

LEMMA PortfolioSight ==
  ASSUME SightInv, NEW account \in Accounts, ReadPortfolio(account)
  PROVE  SightInv'
<1> DEFINE read == [cand.read EXCEPT ![account] = now]
           holding == IF account = Holder THEN price ELSE cand.holding
           total == cand.total + PortfolioTotal(account)
           c == [read |-> read, quoted |-> cand.quoted, holding |-> holding,
                 total |-> total]
<1>1. /\ pc = "refreshing" /\ pc' = "refreshing" /\ cand.read[account] = 0
      /\ UNCHANGED <<snaps, rules, events>> /\ UNCHANGED worldVars
      /\ cand' = [cand EXCEPT !.read[account] = now,
                              !.holding = IF account = Holder THEN price ELSE @,
                              !.total = @ + PortfolioTotal(account)]
  BY DEF ReadPortfolio, ownerVars
<1>2. cand \in CandType /\ SumsUp(cand)
  BY <1>1 DEF SightInv, SnapsTrue
<1>3. cand' = c
  BY <1>1, <1>2 DEF CandType
<1>4. /\ cand.read \in [Accounts -> Nat] /\ cand.quoted \in Nat
      /\ cand.holding \in Nat /\ cand.total \in Int
      /\ now \in Nat \ {0} /\ price \in Nat
      /\ StartCash \in Nat /\ Holder \in Accounts
  BY <1>2, ConstantsTyped DEF CandType, SightInv, WorldTyped
<1>5. PICK x, y : x = SumOf(Held(cand.read)) /\ y = SumOf(Into(account))
  OBVIOUS
<1>6. SumOf(Held(read)) = x + y /\ x \in Int /\ y \in Int
  BY <1>1, <1>4, <1>5, HeldMore DEF SightInv
<1>7. PortfolioTotal(account)
        = (IF account = Holder THEN price + StartCash ELSE 0) + y
  BY <1>5 DEF PortfolioTotal
<1>8. /\ \A a \in Accounts : cand.read[a] <= now
      /\ cand.quoted # 0 => cand.read[Holder] # 0
      /\ cand.total = (IF cand.read[Holder] = 0 THEN 0
                       ELSE cand.holding + StartCash) + x
  BY <1>2, <1>5 DEF SumsUp
<1>9. c \in CandType
  <2>1. total \in Int
    BY <1>4, <1>6, <1>7
  <2> QED
    BY <1>4, <2>1 DEF CandType
<1>10. /\ read \in [Accounts -> Nat]
       /\ \A a \in Accounts : read[a] <= now
       /\ cand.quoted # 0 => read[Holder] # 0
  BY <1>4, <1>8
<1>11. total = (IF read[Holder] = 0 THEN 0 ELSE holding + StartCash) + (x + y)
  <2>1. CASE account = Holder
    <3>1. cand.total = x /\ read[Holder] = now /\ holding = price
      BY <1>1, <1>4, <1>6, <1>8, <2>1
    <3> QED
      BY <1>4, <1>6, <1>7, <2>1, <3>1
  <2>2. CASE account # Holder
    <3>1. read[Holder] = cand.read[Holder] /\ holding = cand.holding
      BY <1>4, <2>2
    <3>2. total = cand.total + y
      BY <1>4, <1>6, <1>7, <2>2
    <3> HIDE DEF read, holding, total
    <3> QED
      BY <1>4, <1>6, <1>8, <3>1, <3>2
  <2> QED
    BY <2>1, <2>2
<1>12. SumsUp(c)
  <2>1. /\ c.read = read /\ c.quoted = cand.quoted /\ c.holding = holding
        /\ c.total = total
    OBVIOUS
  <2> HIDE DEF c, read, holding, total
  <2> QED
    BY <1>6, <1>10, <1>11, <2>1 DEF SumsUp
<1> HIDE DEF c
<1> QED
  BY <1>1, <1>3, <1>9, <1>12, ReadingSight

LEMMA QuotesSight ==
  ASSUME SightInv, ReadQuotes
  PROVE  SightInv'
<1> DEFINE c == [cand EXCEPT !.quoted = traded]
<1>1. /\ pc = "refreshing" /\ pc' = "refreshing" /\ AllRead /\ cand' = c
      /\ UNCHANGED <<snaps, rules, events>> /\ UNCHANGED worldVars
  BY DEF ReadQuotes, ownerVars
<1>2. cand \in CandType /\ SumsUp(cand) /\ traded \in Nat
  BY <1>1 DEF SightInv, SnapsTrue, WorldTyped
<1>3. c \in CandType /\ SumsUp(c)
  <2>1. /\ c \in CandType /\ c.read = cand.read
        /\ c.holding = cand.holding /\ c.total = cand.total
    BY <1>2 DEF CandType
  <2>2. cand.read[Holder] # 0
    BY <1>1, ConstantsTyped DEF AllRead
  <2> HIDE DEF c
  <2> QED
    BY <1>2, <2>1, <2>2 DEF SumsUp
<1> HIDE DEF c
<1> QED
  BY <1>1, <1>3, ReadingSight

\* A snapshot is of no later time than one of its sources.
LEMMA AsOfLeast ==
  ASSUME NEW c \in CandType
  PROVE  AsOf(c) \in Nat /\ \A a \in Accounts : AsOf(c) <= c.read[a]
<1> DEFINE T == valuationSourceTimes(c)
<1>1. /\ T \subseteq Nat /\ T # {}
      /\ \A a \in Accounts : c.read[a] \in T
  BY DEF valuationSourceTimes, CandType
<1>2. AsOf(c) = Min(T)
  BY DEF AsOf
<1> HIDE DEF T
<1>3. \E m \in T : \A y \in T : m <= y
  BY <1>1, LeastNatural
<1>4. Min(T) \in T /\ \A y \in T : Min(T) <= y
  BY <1>3 DEF Min
<1> QED
  BY <1>1, <1>2, <1>4

LEMMA PromoteSight ==
  ASSUME SightInv, NEW sort \in Sorts, Promote(sort)
  PROVE  SightInv'
<1> DEFINE new == [asOf |-> AsOf(cand), read |-> cand.read,
                   quoted |-> cand.quoted, holding |-> cand.holding,
                   total |-> cand.total, sort |-> sort]
<1>1. /\ pc = "refreshing" /\ pc' = "promoted" /\ snaps' = Append(snaps, new)
      /\ UNCHANGED worldVars /\ UNCHANGED <<rules, events>>
  BY DEF Promote, ownerVars
<1>2. /\ cand \in CandType /\ SumsUp(cand) /\ snaps \in Seq(SnapType)
      /\ cand.quoted # 0 /\ ~Stale
  BY <1>1 DEF SightInv, SnapsTrue, Promote
<1>3. PICK t : t = AsOf(cand)
  OBVIOUS
<1>4. t \in Nat /\ \A a \in Accounts : t <= cand.read[a]
  BY <1>2, <1>3, AsOfLeast
<1>5. \A k \in DOMAIN snaps : snaps[k].asOf \in Nat /\ snaps[k].asOf <= t
  <2> SUFFICES ASSUME NEW k \in DOMAIN snaps
               PROVE  snaps[k].asOf \in Nat /\ snaps[k].asOf <= t
    OBVIOUS
  <2>1. /\ Current \in DOMAIN snaps /\ Current > 0
        /\ snaps[k].asOf <= snaps[Current].asOf
    BY SnapTyped DEF SightInv, SnapsTrue, Current
  <2>2. snaps[k].asOf \in Nat /\ snaps[Current].asOf \in Nat
    BY <2>1, SnapTyped DEF SightInv, SnapType
  <2>3. ~(snaps[Current].asOf > t)
    BY <1>2, <1>3, <2>1 DEF Stale
  <2> QED
    BY <1>4, <2>1, <2>2, <2>3
<1>6. new \in SnapType /\ TrueTo(new) /\ new.asOf = t
  <2>1. /\ new.asOf = t /\ new.read = cand.read
        /\ new.holding = cand.holding /\ new.total = cand.total
    BY <1>3
  <2>2. new \in SnapType
    BY <1>2, <1>3, <1>4 DEF SnapType, CandType
  <2>3. /\ cand.read[Holder] # 0
        /\ \A a \in Accounts : cand.read[a] <= now
        /\ cand.total = (cand.holding + StartCash) + SumOf(Held(cand.read))
    BY <1>2 DEF SumsUp
  <2>4. SumOf(Held(cand.read)) \in Int
    <3>1. PICK ds \in SUBSET DOMAIN deposits : ds = Held(cand.read)
      BY DEF Held
    <3> QED
      BY <1>1, <3>1, SumKept, WorldStays DEF SightInv
  <2>5. cand.holding \in Int /\ StartCash \in Int
    BY <1>2, ConstantsTyped DEF CandType
  <2> HIDE DEF new
  <2>6. new.total = new.holding + (StartCash + SumOf(Held(new.read)))
    BY <2>1, <2>3, <2>4, <2>5
  <2> QED
    BY <1>4, <2>1, <2>2, <2>3, <2>6 DEF TrueTo
<1> HIDE DEF new
<1>7. /\ snaps' \in Seq(SnapType) /\ Len(snaps') > 0
      /\ DOMAIN snaps' = DOMAIN snaps \cup {Current'}
      /\ snaps'[Current'] = new /\ Current' \notin DOMAIN snaps
      /\ \A k \in DOMAIN snaps : snaps'[k] = snaps[k]
  BY <1>1, <1>2, <1>6 DEF Current
<1>8. SnapsGrow
  BY <1>4, <1>5, <1>6, <1>7 DEF SnapsGrow
<1>9. SnapsTrue'
  <2>1. ASSUME NEW k \in DOMAIN snaps'
        PROVE  TrueTo(snaps[k])' /\ snaps'[k].asOf <= snaps'[Current'].asOf
    <3>1. PICK s : s = snaps'[k]
      OBVIOUS
    <3>2. TrueTo(s)
      BY <1>6, <1>7, <3>1 DEF SightInv, SnapsTrue
    <3>3. TrueTo(s)'
      BY <1>1, <3>2, WorldStays
    <3>4. s.asOf <= t
      BY <1>4, <1>5, <1>6, <1>7, <3>1
    <3> QED
      BY <1>6, <1>7, <3>1, <3>3, <3>4 DEF TrueTo, SumOf, Held
  <2> QED
    BY <1>1, <1>7, <2>1 DEF SnapsTrue
<1>10. RulesKept
  BY <1>1 DEF RulesKept
<1> QED
  BY <1>1, <1>8, <1>9, <1>10, SightKept, WorldStays

\* Where the worker promotes nothing and starts nothing.
LEMMA WorkerSight ==
  ASSUME SightInv, UNCHANGED worldVars, UNCHANGED snaps, RulesKept,
         pc' = "refreshing" => pc = "refreshing" /\ cand' = cand,
         pc' \in {"promoted", "evaluating"} =>
           pc \in {"promoted", "evaluating"},
         \A e \in events' : e \in events \/ Judged(e)'
  PROVE  SightInv'
<1>1. \A k \in DOMAIN snaps : TrueTo(snaps[k])'
  BY WorldStays DEF SightInv, SnapsTrue
<1>2. ASSUME pc' = "refreshing" PROVE SumsUp(cand)'
  <2>1. PICK c : c = cand
    OBVIOUS
  <2>2. SumsUp(c)'
    BY <1>2, <2>1, WorldStays DEF SightInv, SnapsTrue
  <2> QED
    BY <1>2, <2>1, <2>2 DEF SumsUp, SumOf, Held
<1>3. SnapsTrue'
  BY <1>1, <1>2 DEF SightInv, SnapsTrue, Current
<1>4. SnapsGrow
  BY DEF SnapsGrow
<1> QED
  BY <1>3, <1>4, SightKept, WorldStays

\* Of any closes there is a last one.
LEMMA LastClose ==
  ASSUME SightInv, NEW s, Closes(s) # {}
  PROVE  Baselines(s) # {}
<1> DEFINE T == {now - snaps[c].asOf : c \in Closes(s)}
<1>1. \A c \in Closes(s) : /\ snaps[c].asOf \in Nat /\ now \in Nat
                           /\ snaps[c].asOf <= now
  <2> SUFFICES ASSUME NEW c \in Closes(s)
               PROVE  /\ snaps[c].asOf \in Nat /\ now \in Nat
                      /\ snaps[c].asOf <= now
    OBVIOUS
  <2>1. PICK b : b = snaps[c] /\ b \in SnapType /\ TrueTo(b)
    BY SnapTyped DEF SightInv, SnapsTrue, Closes
  <2>2. /\ b.asOf \in Nat /\ b.read[Holder] \in Nat /\ now \in Nat
        /\ b.asOf <= b.read[Holder] /\ b.read[Holder] <= now
    BY <2>1, ConstantsTyped DEF SnapType, TrueTo, SightInv, WorldTyped
  <2> QED
    BY <2>1, <2>2
<1>2. T \subseteq Nat /\ T # {}
  BY <1>1
<1>3. PICK m \in T : \A y \in T : m <= y
  <2> HIDE DEF T
  <2> QED
    BY <1>2, LeastNatural
<1>4. PICK b \in Closes(s) : m = now - snaps[b].asOf
  BY <1>3
<1>5. \A c \in Closes(s) : snaps[c].asOf <= snaps[b].asOf
  <2> TAKE c \in Closes(s)
  <2>1. now - snaps[b].asOf <= now - snaps[c].asOf
    BY <1>3, <1>4
  <2> QED
    BY <1>1, <2>1
<1> QED
  BY <1>5 DEF Baselines

\* evaluateAlertRule on a rule about the movement.
LEMMA MoveRule ==
  ASSUME NEW rule, rule.kind \in MoveKinds, NEW s, NEW b
  PROVE  evaluateAlertRule(rule, s, b)
           = IF Unjudged(rule.kind, s, b) THEN "suppressed"
             ELSE IF Moved(rule.kind, s, snaps[b], Flows(b, s))
                  THEN "breach_confirmed" ELSE "within_threshold"
<1>1. CASE rule.kind = "portfolio_percentage_move"
  BY <1>1 DEF evaluateAlertRule, Financial, Observed, thresholdBreached,
     Unjudged, Moved
<1>2. CASE rule.kind = "material_value_change"
  BY <1>2 DEF evaluateAlertRule, Financial, Observed, thresholdBreached,
     Unjudged, Moved
<1> QED
  BY <1>1, <1>2 DEF MoveKinds

LEMMA EvaluateSight ==
  ASSUME SightInv, NEW r \in RuleIds, rules[r] # NoRule, EvaluateRule(r)
  PROVE  SightInv'
<1> DEFINE s == snaps[Current]
           imported == {i \in DOMAIN deposits : deposits[i].imported}
<1>1. /\ pc = "evaluating" /\ pc' = pc /\ UNCHANGED worldVars
      /\ UNCHANGED <<snaps, rules, cand>>
  BY DEF EvaluateRule, ownerVars
<1>2. PICK b : /\ b \in IF rules[r].kind \in BaselineKinds /\ Baselines(s) # {}
                        THEN Baselines(s) ELSE {0}
               /\ AppendEvent([rule |-> r, snap |-> Current, base |-> b,
                               state |-> evaluateAlertRule(rules[r], s, b),
                               known |-> imported])
  BY DEF EvaluateRule
<1>3. PICK e : /\ e.rule = r /\ e.snap = Current /\ e.base = b
               /\ e.state = evaluateAlertRule(rules[r], s, b)
               /\ e.known = imported
               /\ AppendEvent(e)
  <2> DEFINE e == [rule |-> r, snap |-> Current, base |-> b,
                   state |-> evaluateAlertRule(rules[r], s, b),
                   known |-> imported]
  <2>1. /\ e.rule = r /\ e.snap = Current /\ e.base = b
        /\ e.state = evaluateAlertRule(rules[r], s, b)
        /\ e.known = imported
    OBVIOUS
  <2>2. AppendEvent(e)
    BY <1>2
  <2> HIDE DEF e, s, imported
  <2> QED
    BY <2>1, <2>2
<1>4. Current \in DOMAIN snaps
  BY <1>1, SnapTyped DEF SightInv, SnapsTrue, Current
<1>5. Judged(e)
  <2> SUFFICES ASSUME rules[r].kind \in MoveKinds
               PROVE  /\ b = 0 => Closes(s) = {}
                      /\ b # 0 => b \in Baselines(s)
                      /\ e.state = IF Unjudged(rules[r].kind, s, b)
                                   THEN "suppressed"
                                   ELSE IF Moved(rules[r].kind, s, snaps[b],
                                                 KnownFlows(e))
                                        THEN "breach_confirmed"
                                        ELSE "within_threshold"
    BY <1>3, <1>4 DEF Judged
  <2>1. rules[r].kind \in BaselineKinds
    BY DEF MoveKinds, BaselineKinds
  <2>2. 0 \notin Baselines(s)
    BY SnapTyped DEF SightInv, Baselines, Closes
  <2>3. b = 0 => Closes(s) = {}
    BY <1>2, <2>1, <2>2, LastClose
  <2>4. b # 0 => b \in Baselines(s)
    BY <1>2, <2>1
  <2>5. KnownFlows(e) = Flows(b, s)
    <3>1. {i \in e.known : /\ snaps[e.base].asOf < deposits[i].recorded
                           /\ deposits[i].recorded <= snaps[e.snap].asOf}
            = {i \in DOMAIN deposits :
                 /\ deposits[i].imported
                 /\ snaps[b].asOf < deposits[i].recorded
                 /\ deposits[i].recorded <= s.asOf}
      BY <1>3
    <3> QED
      BY <3>1 DEF KnownFlows, Flows
  <2> HIDE DEF s
  <2> QED
    BY <1>3, <2>3, <2>4, <2>5, MoveRule
<1>6. Judged(e)'
  BY <1>1, <1>5 DEF Judged, Closes, Baselines, Unjudged, Moved, KnownFlows,
     SumOf, worldVars
<1>7. \A f \in events' : f \in events \/ f = e
  BY <1>3 DEF AppendEvent
<1>8. \A f \in events' : f \in events \/ Judged(f)'
  BY <1>6, <1>7
<1>9. RulesKept
  BY <1>1 DEF RulesKept
<1> QED
  BY <1>1, <1>8, <1>9, WorkerSight

\* What is left to evaluate are rules that were saved.
TodoSaved == todo \subseteq {r \in RuleIds : rules[r] # NoRule}

LEMMA TodoStays == TodoSaved /\ [Next]_vars => TodoSaved'
<1> SUFFICES ASSUME TodoSaved, [Next]_vars PROVE TodoSaved'
  OBVIOUS
<1>1. CASE UNCHANGED <<todo, rules>>
  BY <1>1 DEF TodoSaved
<1>2. CASE ReadRules
  BY <1>2 DEF ReadRules, TodoSaved, ownerVars
<1>3. ASSUME NEW r \in RuleIds, EvaluateRule(r) PROVE TodoSaved'
  BY <1>3 DEF EvaluateRule, TodoSaved, ownerVars
<1>4. CASE EvaluationFails \/ Crash
  BY <1>4 DEF EvaluationFails, Crash, TodoSaved
<1>5. ASSUME NEW r \in RuleIds, NEW form \in RuleForms, SaveRule(r, form)
      PROVE  TodoSaved'
  <2>1. \A x \in RuleIds : rules[x] # NoRule => rules'[x] = rules[x]
    BY <1>5 DEF SaveRule
  <2>2. todo' = todo
    BY <1>5 DEF SaveRule, workerVars
  <2> QED
    BY <2>1, <2>2 DEF TodoSaved
<1>6. \/ UNCHANGED <<todo, rules>> \/ ReadRules \/ EvaluationFails \/ Crash
      \/ \E r \in RuleIds : EvaluateRule(r)
      \/ \E r \in RuleIds, form \in RuleForms : SaveRule(r, form)
  <2>1. CASE UNCHANGED vars
    BY <2>1 DEF vars, workerVars, ownerVars
  <2>2. CASE \/ \E p \in Prices, trades \in BOOLEAN : Tick(p, trades)
             \/ \E a \in Amounts, account \in Accounts,
                    dated, trades \in BOOLEAN :
                  Deposit(a, account, dated, trades)
             \/ \E i \in DOMAIN deposits : Import(i)
    BY <2>2 DEF Tick, Deposit, Import, workerVars, ownerVars
  <2>3. CASE \/ StartRun \/ ReadQuotes \/ RunFails \/ PromoteNothing
             \/ \E account \in Accounts : ReadPortfolio(account)
             \/ \E sort \in Sorts : Promote(sort)
    BY <2>3 DEF StartRun, ReadPortfolio, ReadQuotes, RunFails,
       PromoteNothing, Promote, ownerVars
  <2>4. CASE AuditFailure \/ MarkHeartbeat
    BY <2>4 DEF AuditFailure, MarkHeartbeat, ownerVars
  <2> QED
    BY <2>1, <2>2, <2>3, <2>4 DEF Next
<1> QED
  BY <1>1, <1>2, <1>3, <1>4, <1>5, <1>6

LEMMA QuietSight ==
  ASSUME SightInv,
         \/ RunFails \/ PromoteNothing \/ ReadRules \/ EvaluationFails
         \/ AuditFailure \/ MarkHeartbeat \/ Crash \/ UNCHANGED vars
  PROVE  SightInv'
<1>1. UNCHANGED worldVars /\ UNCHANGED <<snaps, rules, events>>
  BY DEF RunFails, PromoteNothing, ReadRules, EvaluationFails, AuditFailure,
     MarkHeartbeat, Crash, vars, workerVars, ownerVars
<1>2. /\ pc' = "refreshing" => pc = "refreshing" /\ cand' = cand
      /\ pc' \in {"promoted", "evaluating"} => pc \in {"promoted", "evaluating"}
  BY DEF RunFails, PromoteNothing, ReadRules, EvaluationFails, AuditFailure,
     MarkHeartbeat, Crash, vars, workerVars
<1>3. RulesKept
  BY <1>1 DEF RulesKept
<1> QED
  BY <1>1, <1>2, <1>3, WorkerSight

LEMMA SaveSight ==
  ASSUME SightInv, NEW r \in RuleIds, NEW form \in RuleForms, SaveRule(r, form)
  PROVE  SightInv'
<1>1. /\ UNCHANGED worldVars
      /\ UNCHANGED <<snaps, events, cand, pc>>
  BY DEF SaveRule, workerVars
<1>2. RulesKept
  BY DEF SaveRule, RulesKept
<1> QED
  BY <1>1, <1>2, WorkerSight

LEMMA SightInductive ==
  SightInv /\ TodoSaved /\ [Next]_vars => SightInv' /\ TodoSaved'
<1> SUFFICES ASSUME SightInv, TodoSaved, [Next]_vars PROVE SightInv'
  BY TodoStays
<1>1. ASSUME NEW r \in RuleIds, EvaluateRule(r) PROVE SightInv'
  <2>1. rules[r] # NoRule
    BY <1>1 DEF EvaluateRule, TodoSaved
  <2> QED
    BY <1>1, <2>1, EvaluateSight
<1> QED
  BY <1>1, TickSight, DepositSight, ImportSight, StartSight, PortfolioSight,
     QuotesSight, PromoteSight, QuietSight, SaveSight DEF Next

\* Each snapshot's total is the holding and what had been paid into its
\* accounts when each was read, not before the moment the snapshot is of, and
\* each event is what the rules made of the snapshots and of the deposits known
\* when it was evaluated (refresh-service.ts, postgres-evaluator.ts).
THEOREM SightInvariance == Spec => [](SightInv /\ TodoSaved)
<1>1. Init => SightInv /\ TodoSaved
  BY InitialSight DEF Init, TodoSaved
<1> QED
  BY <1>1, SightInductive, PTL DEF Spec

-----------------------------------------------------------------------------
\* The flows of an event all of whose deposits could be placed are what was
\* paid in between its snapshots.
LEMMA FlowsTrue ==
  ASSUME SightInv, NEW e, Judged(e), e.base \in DOMAIN snaps,
         snaps[e.base].asOf < snaps[e.snap].asOf,
         \A i \in DOMAIN deposits : Placed(e, i)
  PROVE  /\ SumOf(Made(snaps[e.snap].asOf))
              = SumOf(Made(snaps[e.base].asOf)) + KnownFlows(e)
         /\ SumOf(Made(snaps[e.base].asOf)) \in Int
         /\ KnownFlows(e) \in Int
<1> DEFINE f == [i \in DOMAIN deposits |-> deposits[i].amount]
<1>1. PICK s, b : s = snaps[e.snap].asOf /\ b = snaps[e.base].asOf
  OBVIOUS
<1>2. s \in Nat /\ b \in Nat /\ b < s
  BY <1>1, SnapTyped DEF SightInv, Judged, SnapType
<1>3. \A i \in DOMAIN deposits : f[i] \in Int /\ deposits[i].at \in Nat
  BY DepositsTyped DEF SightInv, DepositType
<1>4. IsFiniteSet(DOMAIN deposits)
  <2>1. PICK n \in Nat : DOMAIN deposits = 1..n
    BY DepositsTyped DEF SightInv
  <2> QED
    BY <2>1, FS_Interval
<1>5. /\ Made(s) \subseteq DOMAIN deposits /\ Made(b) \subseteq DOMAIN deposits
      /\ Made(s) \cap Made(b) = Made(b)
  BY <1>2, <1>3 DEF Made
<1>6. {i \in e.known : b < deposits[i].recorded /\ deposits[i].recorded <= s}
        = Made(s) \ Made(b)
  <2>1. \A i \in DOMAIN deposits :
          i \in Made(s) \ Made(b) <=> b < deposits[i].at /\ deposits[i].at <= s
    BY <1>2, <1>3 DEF Made
  <2>2. \A i \in DOMAIN deposits :
          /\ b < deposits[i].at /\ deposits[i].at <= s => i \in e.known
          /\ b < deposits[i].at /\ deposits[i].at <= s
               <=> b < deposits[i].recorded /\ deposits[i].recorded <= s
    BY <1>1 DEF Placed
  <2>3. e.known \subseteq DOMAIN deposits
    BY DEF Judged
  <2> QED
    BY <1>5, <2>1, <2>2, <2>3
<1>7. KnownFlows(e) = SumOf(Made(s) \ Made(b))
  BY <1>1, <1>6 DEF KnownFlows
<1>8. IsFiniteSet(Made(s)) /\ IsFiniteSet(Made(b))
  BY <1>4, <1>5, FS_Subset
<1>9. IsFiniteSet(Made(s) \ Made(b))
  BY <1>8, FS_Subset
<1> HIDE DEF f
<1>10. SumFunctionOnSet(f, Made(s))
         = SumFunctionOnSet(f, Made(s) \cap Made(b))
             + SumFunctionOnSet(f, Made(s) \ Made(b))
  BY <1>3, <1>5, <1>8, SumSplit
<1>11. /\ SumFunctionOnSet(f, Made(b)) \in Int
       /\ SumFunctionOnSet(f, Made(s) \ Made(b)) \in Int
  BY <1>3, <1>5, <1>8, <1>9, SumType
<1> QED
  BY <1>1, <1>5, <1>7, <1>10, <1>11 DEF SumOf, f

\* The deposits a total holds are those made by the snapshot's moment and
\* those that came while its accounts were read.
LEMMA HeldSplits ==
  ASSUME SightInv, NEW s \in SnapType, TrueTo(s)
  PROVE  /\ SumOf(Held(s.read)) = SumOf(Made(s.asOf)) + SumOf(Ahead(s))
         /\ SumOf(Made(s.asOf)) \in Int /\ SumOf(Ahead(s)) \in Int
<1> DEFINE f == [i \in DOMAIN deposits |-> deposits[i].amount]
<1>1. \A i \in DOMAIN deposits :
        /\ deposits[i].at \in Nat /\ f[i] \in Int
        /\ s.read[deposits[i].account] \in Nat
        /\ s.asOf <= s.read[deposits[i].account]
  BY DepositsTyped DEF SightInv, DepositType, SnapType, TrueTo
<1>2. s.asOf \in Nat
  BY DEF SnapType
<1>3. /\ Held(s.read) \cap Made(s.asOf) = Made(s.asOf)
      /\ Held(s.read) \ Made(s.asOf) = Ahead(s)
  BY <1>1, <1>2 DEF Held, Made, Ahead
<1>4. /\ Held(s.read) \subseteq DOMAIN deposits
      /\ Made(s.asOf) \subseteq DOMAIN deposits
      /\ Ahead(s) \subseteq DOMAIN deposits
  BY DEF Held, Made, Ahead
<1>5. IsFiniteSet(DOMAIN deposits)
  BY DepositsTyped, FS_Interval DEF SightInv
<1> HIDE DEF f
<1>6. /\ IsFiniteSet(Held(s.read)) /\ IsFiniteSet(Made(s.asOf))
      /\ IsFiniteSet(Ahead(s))
  BY <1>4, <1>5, FS_Subset
<1>7. SumFunctionOnSet(f, Held(s.read))
        = SumFunctionOnSet(f, Held(s.read) \cap Made(s.asOf))
            + SumFunctionOnSet(f, Held(s.read) \ Made(s.asOf))
  BY <1>1, <1>4, <1>6, SumSplit
<1>8. /\ SumFunctionOnSet(f, Made(s.asOf)) \in Int
      /\ SumFunctionOnSet(f, Ahead(s)) \in Int
  BY <1>1, <1>4, <1>6, SumType
<1> QED
  BY <1>3, <1>7, <1>8 DEF SumOf, f

\* What the evaluation took for the movement is that of the market and what
\* was paid in during the reads.
LEMMA MoveTrue ==
  ASSUME SightInv, NEW e, Judged(e), e.base \in DOMAIN snaps,
         snaps[e.base].asOf < snaps[e.snap].asOf,
         \A i \in DOMAIN deposits : Placed(e, i)
  PROVE  Distance(snaps[e.snap].total, snaps[e.base].total + KnownFlows(e))
           = MoveSeen(e)
<1>1. PICK s, b : s = snaps[e.snap] /\ b = snaps[e.base]
  OBVIOUS
<1>2. s \in SnapType /\ b \in SnapType /\ TrueTo(s) /\ TrueTo(b)
  <2>1. e.snap \in DOMAIN snaps
    BY DEF Judged
  <2> QED
    BY <1>1, <2>1, SnapTyped DEF SightInv, SnapsTrue
<1>3. PICK x, y, u, v : /\ x = SumOf(Made(b.asOf)) /\ y = KnownFlows(e)
                        /\ u = SumOf(Ahead(s)) /\ v = SumOf(Ahead(b))
  OBVIOUS
<1>4. /\ x \in Int /\ y \in Int /\ u \in Int /\ v \in Int
      /\ SumOf(Made(s.asOf)) = x + y
  BY <1>1, <1>2, <1>3, FlowsTrue, HeldSplits
<1>5. /\ SumOf(Held(s.read)) = (x + y) + u
      /\ SumOf(Held(b.read)) = x + v
  BY <1>2, <1>3, <1>4, HeldSplits
<1>6. /\ s.holding \in Int /\ b.holding \in Int /\ StartCash \in Int
      /\ s.total = s.holding + (StartCash + ((x + y) + u))
      /\ b.total = b.holding + (StartCash + (x + v))
  BY <1>2, <1>5, ConstantsTyped DEF SnapType, TrueTo
<1>7. Distance(s.total, b.total + y) = Distance(s.holding + u, b.holding + v)
  BY <1>4, <1>6 DEF Distance
<1> QED
  BY <1>1, <1>3, <1>7 DEF MoveSeen

\* An alert on the portfolio's movement measures what the market did since the
\* last close before its snapshot, but for what was paid in while either was
\* read, and keeps silent only without a close or numbers to judge by
\* (postgres-evaluator.ts, evaluate-rule.ts).
THEOREM MovesSeen == Spec => []AlertsSeeMarketMoves
<1>1. SightInv => AlertsSeeMarketMoves
  <2> SUFFICES ASSUME SightInv, NEW e \in events,
                      rules[e.rule].kind \in MoveKinds
               PROVE  LET kind == rules[e.rule].kind
                          s == snaps[e.snap]
                      IN
                      /\ e.base # 0 => /\ snaps[e.base].asOf < s.asOf
                                       /\ \A c \in Closes(s) :
                                            snaps[c].asOf <= snaps[e.base].asOf
                      /\ e.state = "suppressed" =>
                           \/ ~financialQuality(s)
                           \/ Closes(s) = {}
                           \/ /\ kind = "portfolio_percentage_move"
                              /\ snaps[e.base].total = 0
                      /\ /\ e.state # "suppressed"
                         /\ \A i \in DOMAIN deposits : Placed(e, i)
                         => (e.state = "breach_confirmed" <=>
                               IF kind = "material_value_change"
                               THEN MoveSeen(e) >= Threshold[kind]
                               ELSE AtLeast(MoveSeen(e), snaps[e.base].total,
                                            Threshold[kind]))
    BY DEF AlertsSeeMarketMoves, MoveKinds
  <2>1. Judged(e)
    BY DEF SightInv
  <2>2. PICK kind, s : kind = rules[e.rule].kind /\ s = snaps[e.snap]
    OBVIOUS
  <2>3. /\ e.base = 0 => Closes(s) = {}
        /\ e.base # 0 => e.base \in Baselines(s)
        /\ e.state = IF Unjudged(kind, s, e.base) THEN "suppressed"
                     ELSE IF Moved(kind, s, snaps[e.base], KnownFlows(e))
                          THEN "breach_confirmed" ELSE "within_threshold"
    BY <2>1, <2>2 DEF Judged
  <2>4. e.base # 0 => /\ e.base \in DOMAIN snaps
                      /\ snaps[e.base].asOf < s.asOf
                      /\ \A c \in Closes(s) :
                           snaps[c].asOf <= snaps[e.base].asOf
    BY <2>3 DEF Baselines, Closes
  <2>5. e.state = "suppressed" =>
          \/ ~financialQuality(s)
          \/ Closes(s) = {}
          \/ kind = "portfolio_percentage_move" /\ snaps[e.base].total = 0
    BY <2>3 DEF Unjudged
  <2>6. ASSUME e.state # "suppressed",
               \A i \in DOMAIN deposits : Placed(e, i)
        PROVE  e.state = "breach_confirmed" <=>
                 IF kind = "material_value_change"
                 THEN MoveSeen(e) >= Threshold[kind]
                 ELSE AtLeast(MoveSeen(e), snaps[e.base].total,
                              Threshold[kind])
    <3>1. ~Unjudged(kind, s, e.base) /\ e.base # 0
      BY <2>3, <2>6 DEF Unjudged
    <3>2. Distance(s.total, snaps[e.base].total + KnownFlows(e))
            = MoveSeen(e)
      BY <2>1, <2>2, <2>4, <2>6, <3>1, MoveTrue
    <3>3. e.state = "breach_confirmed" <=>
            Moved(kind, s, snaps[e.base], KnownFlows(e))
      BY <2>3, <3>1
    <3> QED
      BY <3>2, <3>3 DEF Moved
  <2> QED
    BY <2>2, <2>4, <2>5, <2>6
<1> QED
  BY <1>1, SightInvariance, PTL
=============================================================================
