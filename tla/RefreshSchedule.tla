-------------------------- MODULE RefreshSchedule --------------------------
(***************************************************************************)
(* When a portfolio is refreshed and what the refreshes leave behind: the  *)
(* scheduler (apps/server/src/sync/scheduler.ts) reads the outcome of past *)
(* refreshes and requests the next one; whether that one succeeds and      *)
(* counts as the day's close checkpoint depends on the market calendar,    *)
(* the freshness policy and the time it runs.  One owner, one process: the *)
(* scheduler and the worker loop live and die together (worker.ts).        *)
(*                                                                         *)
(* The slots of SessionHours are short against the policy's intervals and  *)
(* long against a tick.                                                    *)
(***************************************************************************)
EXTENDS SessionHours

CONSTANTS
  SessionInterval, OffInterval,         \* of the background refresh
  Grace, CheckpointWindow,              \* of the close checkpoint
  MaxSkew, SessionAge, ExtendedAge,     \* of the freshness policy
  QuoteLags,        \* how old the last trade of a holding may be
  MaxWait,          \* slots a refresh waits to start, and then to be promoted
  MaxFaults,        \* bound on failed reads, failed promotions and crashes
  MaxManuals,       \* bound on manual requests
  Never

ASSUME ScheduleAssumption ==
  /\ Calendar \in Seq({"full", "early", "weekend", "holiday"})
  /\ {DaySlots, Open, Close, EarlyClose, ExtendedOpen, ExtendedClose,
      SessionInterval, OffInterval, Grace, CheckpointWindow, MaxSkew,
      SessionAge, ExtendedAge, MaxWait, MaxFaults, MaxManuals}
       \subseteq Nat
  /\ ExtendedOpen <= Open /\ Open < EarlyClose /\ EarlyClose <= Close
  /\ Close <= ExtendedClose /\ ExtendedClose <= DaySlots
  /\ QuoteLags \subseteq Nat
  /\ Never \notin Int

\* A refresh that begins in the window of a close ends on the same day: the
\* window of an hour begins five minutes after four o'clock.
ASSUME WindowAssumption ==
  Close + Grace + CheckpointWindow + MaxWait <= DaySlots

\* The time in which a running process is sure to have a refresh done that it
\* asks for in every slot: the tick, the two waits, and again after a failure.
OneRefresh == 2 * MaxWait + 1
Patience == (1 + MaxFaults) * OneRefresh

\* The same for a scheduled refresh, before which the one under way and every
\* manual one may go, each with a quote that the next one's is older than.
ClosePatience == Patience + (1 + MaxManuals) * (OneRefresh + MaxSkew)

\* The holdings trade often enough for the freshness policy, and a refresh is
\* short against the policy's hours: it asks for a snapshot every 15 minutes of
\* a session of quotes no more than 2 minutes apart, and an hour for the close,
\* which the extended session outlasts.
ASSUME PromptAssumption ==
  /\ \A lag \in QuoteLags : /\ lag <= MaxSkew /\ lag <= SessionAge
                            /\ lag <= ExtendedAge /\ lag <= Grace
  /\ MaxSkew + MaxWait <= SessionInterval /\ SessionInterval <= Open
  /\ ClosePatience < CheckpointWindow
  /\ Close + Grace + ClosePatience < ExtendedClose

VARIABLES
  holdsEquities,    \* whether the portfolio's value depends on quotes
  now,
  up,           \* whether the process runs
  ticked,       \* whether the scheduler has ticked in this slot
  due,          \* tick has found a refresh due and is about to request it
  job,          \* the refresh job
  wait,         \* slots the job has been in its state
  lastSuccess,  \* completion of the last successful sync run
  shown,        \* as_of of the current snapshot
  checkpoint,   \* greatest as_of of the snapshots eligible as a close
  faults, crashes, manuals

vars == <<holdsEquities, now, up, ticked, due, job, wait, lastSuccess, shown,
          checkpoint, faults, crashes, manuals>>

(***************************************************************************)
(* The freshness policy, over what a refresh at time t reads: accounts and *)
(* portfolio are stamped with t, equity positions with their last trade.   *)
(***************************************************************************)
\* The last time at which anything could trade.
LastTrade(t) ==
  IF InSession(t) \/ InExtended(t) THEN t
  ELSE Max({ExtendedClose - DaySlots} \cup
           {Midnight(d) + ExtendedClose - 1 : d \in {e \in Days :
              TradingDay(e) /\ Midnight(e) + ExtendedClose <= t}})

QuoteTimes(t) ==
  IF holdsEquities THEN {LastTrade(t) - lag : lag \in QuoteLags} ELSE {t}

\* evaluateSourceFreshness, for required source times t and quote <= t.
Fresh(t, quote) ==
  /\ t - quote <= MaxSkew
  /\ ~InSession(t) => quote >= LastRegularClose(t)
  /\ InSession(t) => t - quote <= SessionAge
  /\ InExtended(t) => t - quote <= ExtendedAge

\* isRegularCloseCheckpoint, and the condition under which it is asked.
CloseEligible(trigger, t) ==
  LET first == LastRegularClose(t) + Grace IN
  trigger = "scheduled" /\ first <= t /\ t < first + CheckpointWindow

(***************************************************************************)
(* The scheduler's decision: RefreshScheduler.tick and evaluateSchedule.   *)
(***************************************************************************)
\* Mutant: the hourly interval at all times.
BackgroundHourly ==
  /\ Calendar[Day(now)] # "holiday"
  /\ lastSuccess = Never \/ now - lastSuccess >= OffInterval

BackgroundEligible ==
  /\ Calendar[Day(now)] # "holiday"
  /\ \/ lastSuccess = Never
     \/ now - lastSuccess >= IF InSession(now) THEN SessionInterval
                                               ELSE OffInterval

CheckpointTaken(d) == checkpoint # Never /\ checkpoint >= CloseAt(d)

\* Mutant: any snapshot valued after the close passes for the checkpoint.
CloseDueUnlessShown ==
  LET d == Day(now) IN
  /\ TradingDay(d)
  /\ now >= CloseAt(d) + Grace
  /\ ~(shown # Never /\ shown >= CloseAt(d))

RegularCloseSnapshotDue ==
  LET d == Day(now) IN
  /\ TradingDay(d)
  /\ now >= CloseAt(d) + Grace
  /\ ~CheckpointTaken(d)

\* Mutant: the checkpoint of an earlier day counts.
OffHoursDueOnce ==
  /\ ~InSession(now)
  /\ Calendar[Day(now)] # "holiday"
  /\ lastSuccess = Never \/ InSession(lastSuccess)

OffHoursCheckpointDue ==
  /\ ~InSession(now)
  /\ Calendar[Day(now)] # "holiday"
  /\ ~ /\ lastSuccess # Never
       /\ ~InSession(lastSuccess)
       /\ Day(lastSuccess) = Day(now)

RefreshDue ==
  BackgroundEligible \/ RegularCloseSnapshotDue \/ OffHoursCheckpointDue

-----------------------------------------------------------------------------
Idle == [status |-> "idle"]
Queued(trigger) == [status |-> "queued", trigger |-> trigger]
Built(trigger, asOf, eligible) ==
  [status |-> "built", trigger |-> trigger, asOf |-> asOf,
   eligible |-> eligible]

\* enqueueUnique: a job that is queued or running keeps its trigger.
Requested(trigger) == IF job = Idle THEN Queued(trigger) ELSE job

Init ==
  /\ holdsEquities \in BOOLEAN
  /\ now = 0
  /\ up = TRUE /\ ticked = FALSE /\ due = FALSE
  /\ job = Idle /\ wait = 0
  /\ lastSuccess = Never /\ shown = Never /\ checkpoint = Never
  /\ faults = 0 /\ crashes = 0 /\ manuals = 0

\* tick, up to the answer of listOwnerRefreshStates.
TickReads ==
  /\ up /\ ~due
  /\ ticked' = TRUE
  /\ due' = RefreshDue
  /\ UNCHANGED <<holdsEquities, now, up, job, wait, lastSuccess, shown,
                 checkpoint, faults, crashes, manuals>>

\* tick, after that answer.
TickRequests ==
  /\ up /\ due
  /\ due' = FALSE
  /\ job' = Requested("scheduled")
  /\ wait' = IF job' = job THEN wait ELSE 0
  /\ UNCHANGED <<holdsEquities, now, up, ticked, lastSuccess, shown,
                 checkpoint, faults, crashes, manuals>>

\* The API's refresh button.
RequestManual ==
  /\ manuals < MaxManuals
  /\ manuals' = manuals + 1
  /\ job' = Requested("manual")
  /\ wait' = IF job' = job THEN wait ELSE 0
  /\ UNCHANGED <<holdsEquities, now, up, ticked, due, lastSuccess, shown,
                 checkpoint, faults, crashes>>

Failed ==
  /\ job' = Idle /\ wait' = 0
  /\ UNCHANGED <<holdsEquities, now, up, ticked, due, lastSuccess, shown,
                 checkpoint, crashes, manuals>>

\* The worker claims the job, reads the provider and builds the candidate.
BuildPromotion(quote) ==
  /\ up /\ job.status = "queued"
  /\ Fresh(now, quote)
  /\ job' = Built(job.trigger, quote, CloseEligible(job.trigger, now))
  /\ wait' = 0
  /\ UNCHANGED <<holdsEquities, now, up, ticked, due, lastSuccess, shown,
                 checkpoint, faults, crashes, manuals>>

RejectCandidate(quote) ==
  /\ up /\ job.status = "queued"
  /\ ~Fresh(now, quote)
  /\ Failed
  /\ UNCHANGED faults

\* Mutant: a refresh that read later is taken to be valued later.
NeverStale == FALSE

StaleCandidate == shown # Never /\ shown > job.asOf

PromoteSnapshot ==
  /\ up /\ job.status = "built"
  /\ ~StaleCandidate
  /\ job' = Idle /\ wait' = 0
  /\ lastSuccess' = now
  /\ shown' = job.asOf
  /\ checkpoint' =
       IF job.eligible
       THEN Max({job.asOf} \cup ({checkpoint} \ {Never})) ELSE checkpoint
  /\ UNCHANGED <<holdsEquities, now, up, ticked, due, faults, crashes,
                 manuals>>

RejectStale ==
  /\ up /\ job.status = "built"
  /\ StaleCandidate
  /\ Failed
  /\ UNCHANGED faults

\* A provider read, or the promotion, fails.
RefreshFails ==
  /\ up /\ job # Idle
  /\ faults + crashes < MaxFaults
  /\ faults' = faults + 1
  /\ Failed

\* The process ends; what it was running is claimed again after the restart.
Crash ==
  /\ up /\ faults + crashes < MaxFaults
  /\ crashes' = crashes + 1
  /\ up' = FALSE /\ due' = FALSE
  /\ job' = IF job = Idle THEN Idle ELSE Queued(job.trigger)
  /\ wait' = 0
  /\ UNCHANGED <<holdsEquities, now, ticked, lastSuccess, shown, checkpoint,
                 faults, manuals>>

Restart ==
  /\ ~up
  /\ up' = TRUE
  /\ UNCHANGED <<holdsEquities, now, ticked, due, job, wait, lastSuccess,
                 shown, checkpoint, faults, crashes, manuals>>

\* A running scheduler ticks in every slot, no tick lasts beyond its slot, and
\* a running worker keeps up.
NextSlot ==
  /\ now + 1 < Len(Calendar) * DaySlots
  /\ up => ticked /\ ~due /\ (job # Idle => wait < MaxWait)
  /\ now' = now + 1
  /\ ticked' = FALSE
  /\ wait' = IF up /\ job # Idle THEN wait + 1 ELSE wait
  /\ UNCHANGED <<holdsEquities, up, due, job, lastSuccess, shown, checkpoint,
                 faults, crashes, manuals>>

Next ==
  \/ TickReads
  \/ TickRequests
  \/ RequestManual
  \/ \E quote \in QuoteTimes(now) : BuildPromotion(quote)
  \/ \E quote \in QuoteTimes(now) : RejectCandidate(quote)
  \/ PromoteSnapshot
  \/ RejectStale
  \/ RefreshFails
  \/ Crash
  \/ Restart
  \/ NextSlot

Spec == Init /\ [][Next]_vars

-----------------------------------------------------------------------------
(***************************************************************************)
(* Properties.                                                             *)
(***************************************************************************)
\* A snapshot that counts as a day's close is valued at that close or later,
\* so that the scheduler's own test for the checkpoint recognises it.
CheckpointIsCloseValued ==
  job.status = "built" /\ job.eligible
    => \E d \in Days : /\ TradingDay(d) /\ job.asOf >= CloseAt(d)
                       /\ CloseAt(d) <= now /\ now < Midnight(d) + DaySlots

\* The current snapshot is never valued before the close checkpoint, the
\* baseline of the daily change, although a quote may be older than the last.
CheckpointNotAhead ==
  checkpoint # Never => shown # Never /\ shown >= checkpoint

\* While the process runs, every trading day has its close checkpoint soon
\* after the grace period, whatever manual refreshes come first and some
\* failures.
CloseCheckpointTaken ==
  LET d == Day(now) IN
  crashes = 0 /\ TradingDay(d) /\ now > CloseAt(d) + Grace + ClosePatience
    => CheckpointTaken(d)

\* While the process runs, the snapshot of an open market is never older than
\* the interval of the background refresh and the time to get one done.
KeptFreshInSession ==
  LET bound == SessionInterval + Patience IN
  crashes = 0 /\ InSession(now) /\ now > OpenAt(Day(now)) + bound
    => lastSuccess # Never /\ now - lastSuccess <= bound

\* While the process runs and no quote is needed, every day but a holiday
\* begins with a refresh.
EveryDayRefreshed ==
  /\ crashes = 0 /\ ~holdsEquities
  /\ Calendar[Day(now)] # "holiday" /\ now > Midnight(Day(now)) + Patience
  => lastSuccess # Never /\ lastSuccess >= Midnight(Day(now))

\* docs/superpowers/specs/2026-08-25-robinhood-portfolio-dashboard-design.md:
\* "one regular-session-close or next-available daily snapshot per trading
\* day": once a scheduled refresh succeeded after the close of the day, the
\* day has its close snapshot.
NextAvailableClose ==
  lastSuccess # Never /\ TradingDay(Day(lastSuccess))
    /\ lastSuccess >= CloseAt(Day(lastSuccess)) + Grace
    => CheckpointTaken(Day(lastSuccess))

=============================================================================
