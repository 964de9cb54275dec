------------------------------ MODULE Overview ------------------------------
(***************************************************************************)
(* The overview page (getDashboard of read-models/connected-source.ts)     *)
(* beside the worker that refreshes and promotes.  The page is put         *)
(* together from queries that see the database each at its own moment: the *)
(* current snapshot, then whether the latest sync failed, then the trend,  *)
(* last the grant and the worker's heartbeat.  Its live label follows from *)
(* what the first, the second and the last of them found.                  *)
(*                                                                         *)
(* What a snapshot is worth is left to Figures; here it is its valuation   *)
(* time.  One page at a time is loading: pages change nothing.  An answer  *)
(* is looked at before anything else happens.                              *)
(***************************************************************************)
EXTENDS Integers, Sequences, FiniteSetsExt

CONSTANTS
  FreshFor,      \* age up to which a snapshot is fresh, in an open market
  StalledAfter,  \* age up to which a heartbeat says the worker is healthy
  TrendFor,      \* length of the trend
  MaxTime, MaxSnaps

ASSUME OverviewAssumption ==
  {FreshFor, StalledAfter, TrendFor, MaxTime, MaxSnaps} \subseteq Nat

VARIABLES
  clock,
  valuedAt,      \* of the snapshots, in the order they were promoted
  latestRun,     \* status of the sync run started last
  owed,          \* a promotion's alerts are being evaluated
  heartbeatAt,   \* 0 if it was never marked
  enrolled,      \* the provider's grant is stored and verified
  page           \* the page that is being put together

systemVars == <<clock, valuedAt, latestRun, owed, heartbeatAt, enrolled>>
overviewVars == <<systemVars, page>>

\* step: closed, opened, loaded, charted or answered; shown: the snapshot it
\* shows; failed and fresh: what load has found; trend: snapshots.
Closed == [step |-> "closed", shown |-> 0, openedAt |-> 0, failed |-> FALSE,
           fresh |-> FALSE, trend |-> {}, label |-> "none"]

OverviewInit ==
  /\ clock = 1 /\ valuedAt = <<>>
  /\ latestRun = "none" /\ owed = FALSE
  /\ heartbeatAt = 0 /\ enrolled = TRUE
  /\ page = Closed

(***************************************************************************)
(* The worker and the owner.                                               *)
(***************************************************************************)
Newest == Len(valuedAt)

Tick ==
  /\ clock < MaxTime
  /\ clock' = clock + 1
  /\ UNCHANGED <<valuedAt, latestRun, owed, heartbeatAt, enrolled>>

StartRun ==
  /\ latestRun' = "running"
  /\ UNCHANGED <<clock, valuedAt, owed, heartbeatAt, enrolled>>

FailRun ==
  /\ latestRun = "running"
  /\ latestRun' = "failed"
  /\ UNCHANGED <<clock, valuedAt, owed, heartbeatAt, enrolled>>

\* Mutant: a refresh that was overtaken replaces what is shown.
PromoteStale(t) ==
  /\ latestRun = "running" /\ Newest < MaxSnaps
  /\ latestRun' = "succeeded"
  /\ valuedAt' = Append(valuedAt, t)
  /\ owed' = TRUE
  /\ UNCHANGED <<clock, heartbeatAt, enrolled>>

\* What is older than the current snapshot is not promoted.
Promote(t) ==
  /\ latestRun = "running" /\ Newest < MaxSnaps
  /\ Newest > 0 => t >= valuedAt[Newest]
  /\ latestRun' = "succeeded"
  /\ valuedAt' = Append(valuedAt, t)
  /\ owed' = TRUE
  /\ UNCHANGED <<clock, heartbeatAt, enrolled>>

\* The evaluation ends; only one that did not fail marks the heartbeat, and
\* without a grant there is no row to mark.
EndEvaluation(ok) ==
  /\ owed
  /\ owed' = FALSE
  /\ heartbeatAt' = IF ok /\ enrolled THEN clock ELSE heartbeatAt
  /\ UNCHANGED <<clock, valuedAt, latestRun, enrolled>>

Disconnect ==
  /\ enrolled
  /\ enrolled' = FALSE
  /\ heartbeatAt' = 0
  /\ UNCHANGED <<clock, valuedAt, latestRun, owed>>

SystemNext ==
  \/ Tick \/ StartRun \/ FailRun \/ Disconnect
  \/ \E t \in 1..clock : Promote(t)
  \/ \E ok \in BOOLEAN : EndEvaluation(ok)

(***************************************************************************)
(* The page.                                                               *)
(***************************************************************************)
OpenPage ==
  /\ page.step = "closed" /\ Newest > 0
  /\ page' = [Closed EXCEPT !.step = "opened", !.shown = Newest,
                            !.openedAt = clock]

\* Mutant: freshness is taken as it was stored with the snapshot.
freshAsStored(i) == TRUE

\* Freshness is judged when the page loads.
freshnessAtRead(i) == clock - valuedAt[i] <= FreshFor

LoadPage ==
  /\ page.step = "opened"
  /\ page' = [page EXCEPT !.step = "loaded",
                          !.failed = (latestRun = "failed"),
                          !.fresh = freshnessAtRead(page.shown)]

\* From a span before the snapshot shown up to whatever there is by now.
history(i) == {j \in 1..Newest : valuedAt[j] >= valuedAt[i] - TrendFor}

ReadTrend ==
  /\ page.step = "loaded"
  /\ page' = [page EXCEPT !.step = "charted", !.trend = history(page.shown)]

\* What the row of the grant says.
connectedHealthProbe ==
  [providerVerified |-> enrolled, workerHeartbeatAt |-> heartbeatAt]

\* A probe that cannot be read counts as a provider that is not verified.
readOperationalProbe(read) ==
  IF read THEN connectedHealthProbe
  ELSE [providerVerified |-> FALSE, workerHeartbeatAt |-> 0]

evaluateConnectedHealth(probe) ==
  /\ probe.providerVerified /\ probe.workerHeartbeatAt # 0
  /\ clock - probe.workerHeartbeatAt <= StalledAfter

AnswerPage(read) ==
  /\ page.step = "charted"
  /\ page' = [page EXCEPT !.step = "answered",
       !.label = IF page.failed THEN "source_error"
                 ELSE IF /\ page.fresh
                         /\ evaluateConnectedHealth(readOperationalProbe(read))
                 THEN "live" ELSE "disconnected"]

ClosePage ==
  /\ page.step = "answered"
  /\ page' = Closed

PageNext ==
  \/ OpenPage \/ LoadPage \/ ReadTrend \/ ClosePage
  \/ \E read \in BOOLEAN : AnswerPage(read)

OverviewNext ==
  \/ page.step # "answered" /\ SystemNext /\ UNCHANGED page
  \/ PageNext /\ UNCHANGED systemVars

OverviewSpec == OverviewInit /\ [][OverviewNext]_overviewVars

(***************************************************************************)
(* Properties.                                                             *)
(***************************************************************************)
\* A page put together from several reads is not torn: its trend holds the
\* headline's snapshot, and a point valued later than the headline was
\* promoted while the page was loading.  currentSnapshot, history.
TrendMeetsHeadline ==
  page.step = "answered" =>
    /\ page.shown \in page.trend
    /\ \A i \in page.trend :
         valuedAt[i] > valuedAt[page.shown] => i > page.shown

\* The live label is never on old values: the snapshot under it was fresh
\* when the page began to load, give or take the time it took, no matter
\* how often runs failed and started and the grant came and went meanwhile.
\* "The app refuses to represent Demo or stale data as live."
LiveIsFresh ==
  page.label = "live" =>
    /\ page.openedAt - valuedAt[page.shown] <= FreshFor
    /\ enrolled
    /\ \E i \in 1..Newest : valuedAt[i] <= heartbeatAt
=============================================================================
