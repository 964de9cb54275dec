# A formal model of the portfolio dashboard

The repository is a private dashboard over Robinhood accounts: a worker reads
the provider, builds a snapshot of all accounts and promotes it; a scheduler
decides when that happens; alerts are evaluated on what was promoted; an API
and a web application show the current snapshot and take the owner's requests;
files exported from the provider can be imported, confirmed and forgotten. This
directory holds TLA+ models of these parts, the TLC runs that check them and
the TLAPS proofs about most of them. Paths below are relative to
`src/apps/server/src/` unless they say otherwise; `PROJECT.json` maps every
definition to the lines it models, lists the hazards of the code with the
properties that cover them, and says of every property which change of the code
would break it.

## Inventory

| component | state | operations | what is hard | modelled in |
|---|---|---|---|---|
| job queue `db/jobs.ts` | table `jobs`: status, lease owner, lease expiry, one row per dedupe key | enqueueUnique, claimNext, renewLease, complete, fail | a lease expires under a live worker; requests coalesce with a job in any state | `JobRows`, `JobLease`, `RefreshWorker` |
| refresh service `sync/refresh-service.ts`, loop `sync/worker-loop.ts` | locals of `runNext`, a heartbeat timer | runNext, request | every provider read is an await; errors, lost answers and takeovers at each of them | `RefreshWorker` |
| portfolio repository `db/repositories.ts` | `sync_runs`, `portfolio_snapshots`, `accounts`, `account_snapshots`, the credentials row | startSyncRun, promoteSnapshot, recordFailedRun, reads | one transaction of several statements, fenced by the job's row | `RefreshWorker`, `SnapshotLedger`, `RefreshSchedule`, `Enrollment`, `Alerts` |
| scheduler `sync/scheduler.ts`, policy `sync/schedule-policy.ts` | none of its own: the last success and the last close checkpoint of each owner | tick, evaluateSchedule | which of the day's refreshes count, after failures, waits and outages | `RefreshSchedule` |
| calendar `sync/market-calendar.ts`, freshness `sync/freshness-policy.ts` | none | resolveUsEquitySession, evaluateSourceFreshness | weekends, holidays, early closes, changes of the clocks, the edges of each window | `MarketCalendar`, `SessionHours`, `RefreshSchedule`, `SnapshotBuild` |
| snapshot building `sync/snapshot-promotion.ts`, `robinhood/mapper.ts` | none | buildSnapshotPromotion | reads torn by a moving provider, totals of partial data, reconciliation | `SnapshotBuild` |
| worker process `worker.ts` | two loops, one transport, one pool | startWorker | one loop ends while the other is in a refresh | `RefreshWorker`, `RefreshSchedule`, `Connection`, `Enrollment` |
| provider client `robinhood/client.ts`, transport `robinhood/transport.ts` | one MCP client, one connection attempt | call, close, paging | a shared attempt fails; close during an attempt; cursors that cycle | `Connection` |
| OAuth enrollment `robinhood/connect-cli.ts`, `oauth-provider.ts`, `oauth-store.ts` | one credentials row per owner, shared with the worker | enroll, save and refresh tokens, disconnect | two processes write one row without a lock | `Enrollment` |
| alerts `alerts/*`, `routes/alert-actions.ts` | rules, events | evaluate after a promotion, mark as read, snooze, mute | baselines and deposits known late; a failing evaluation | `Alerts`, `Inbox` |
| read models `read-models/connected-source.ts`, domain `src/packages/domain` | none | overview, holdings, accounts, allocation, performance, daily change | pages put together from several reads; figures summed separately that must agree | `Overview`, `Figures` |
| imports `imports/*` | previews, confirmed identities, evidence objects | previewImport, confirmImport, deleteImportEvidence | calls of one owner side by side; two stores without a common transaction | `ImportFlow`, `CsvReader` |
| API `app.ts`, `routes/*`, `auth/*`, `security/*` | sessions, rate buckets | authorize, check the token, export, delete | the browser's session changes between the two fetches of a mutation | `Requests` |
| web application `src/apps/web` | state of the screens | alert centre, import screen, controls | answers in any order; what is shown before an answer and put back after a refusal | `Inbox`, `ImportScreen`, `Requests` |

How they interact: the scheduler and the API's `requestRefresh` put a job into
the queue; the worker loop claims it, reads the provider through client and
transport with the enrolled credentials, builds a candidate with the calendar,
the freshness policy and the domain package, promotes it through the
repository, evaluates alerts and marks its heartbeat; the read models show what
is current, labelled by its freshness, the last run, the grant and the
heartbeat. The scheduler reads the outcome back from the repository. Imports
share nothing with refreshes but the transactions that alerts and the daily
change read.

What makes each part correct, in a sentence: the queue gives a job to one
owner at a time and loses no request; a promotion is made by the owner of the
job, never goes back in time, never drops an account the owner still has, and
its outcome is recorded once and for all; the scheduler takes every regular
close and every off-hours day when refreshes succeed, and keeps an open market
fresh; a candidate shows an account exactly, at prices of one moment, or not at
all; the credentials row is marked connected only when it is complete; a
promotion's rules are evaluated or the failure is on record; pages agree with
each other and never show old values as live; an import is previewed once per
file, no transaction is confirmed twice, and evidence exists exactly as long as
the previews say; what a control says of a request is what became of it.

## Modules

### The refresh worker

`JobRows` holds the row of the jobs table and, as operators on a row, what each
statement of `db/jobs.ts` does to it. `JobLease` is the abstract specification
of the queue: a job moves only by Enqueue, Claim, Renew, Finish and the clock.
`SnapshotData` describes candidates: what state each account is in and which
accounts a snapshot covers. `SnapshotLedger` is the abstract specification of
promotion: a user's snapshots only grow, in order of valuation, and none drops
an account the one before it had to keep.

`RefreshWorker` is the program: `runNext` for several workers, one action per
statement between two awaits, over the tables. A worker has a program counter
(`pc`), the locals of the call (`mine`, `run`, `todo`, `cand`, ...) and its
heartbeat. The promotion transaction is entered by `BeginPromotion`, which
takes the lock of the job's row (`for update`, repositories.ts:282-296) and
commits or rolls back by actions of its own; while it is open, other statements
on the row wait or, in claimNext, skip it. An error at any point goes to
`Throw`, and the catch block follows step by step: the lease is renewed to learn
whether the job is still owned, the failed run is recorded, the job failed.

What it leaves out: payload and attempt count of a job, audit rows, and what
the alert hook does (that is `Alerts`); the branches for an unknown job kind or
a malformed payload, which no request produces; the branch for a completion
that matches no row inside the transaction (716-718), which the row lock rules
out. The three reads of one account are one guarded read. Provider answers are
fixed when the accounts are read. A heartbeat under way when `runNext` returned
has no effect the model tells apart. A worker that restarts uses its name
again; the real name is random, so the model is the harder case.

Time is a countdown: a lease lasts `Lease` ticks, one per heartbeat
period, so that a worker that misses its heartbeats loses the lease in a run of
a few ticks. Faults (a provider error, a lost answer, a crash) are counted by
`MaxFaults`, requests by `MaxRequests`; `RunIds` has one identifier for each
run these allow.

### The refresh schedule and the calendar

`RefreshSchedule` models one owner and one worker process through several days
of New York time, in slots; `SessionHours` is the part of it that says when the
market is open on them. A slot is one tick of the
scheduler: it reads the owner's state (`listOwnerRefreshStates`), evaluates the
policy and requests a refresh, which coalesces with one that is waiting.
A refresh is built by the calendar and freshness rules: by the phase of the
market the snapshot is valued at the quotes or at the last regular close, and a
refresh received in the window after the close may be the day's checkpoint. It
may also fail, be rejected because its quotes are too old, or be older than
what is shown. A process crash loses the refresh under way and a restart
follows, at once or slots later.

The day before the first is taken to have been a full trading day. Accounts are
stamped with the time they were read, so a refresh with an unchanged
fingerprint does not occur and the duplicate branch is left to `RefreshWorker`.
`ExtendedAge` (900 s) is in the code but no quote it would admit passes the
120-second rule before it. `interactiveEligible`, `intradayPruneBefore` and the
retry policy are computed and used by nobody. Off hours a refresh of an owner who
holds equities always fails, as the freshness policy rejects the quotes; the
promise for days off is therefore to an owner without them.

`MarketCalendar` is the calendar's arithmetic itself: holidays with their
observed days, Easter, early closes, the change of the clocks, the phase of any
instant and the last regular close. A walk goes through the minute marks of
whole years at which something can happen in New York and compares what the
calendar constructs from the year with what can be seen from the date: sessions
end when the walk saw the bell, and each holiday is recognized by a rule of its
own, Good Friday by the table of paschal moons.

The two meet in a theorem and not in a run: `SessionHours`, given the kinds of any
days in a row of `MarketCalendar` and the true hours in minutes, agrees with
`resolveUsEquitySession` (`HoursAreTheCalendars`). Its time is what the clocks of
New York show, so that in the night the clocks change, on a Sunday, the schedule's
slots are an hour off the time that passes.

### Building a snapshot

`SnapshotBuild` models one refresh from the provider's side of the reads: what
`runNext` is told by `RobinhoodReadClient`, how `robinhood/mapper.ts` maps it,
and what `buildSnapshotPromotion` makes of it with the freshness policy and
`reconcileAccount` of the domain package. Its subject is a torn read. The reads
are separate calls: accounts first, then portfolio, stock positions and option
positions of each account in turn, then the quotes of all stocks, then quotes and
instruments of the options side by side. Between any two of them the provider may
move (`Move`): a trade is printed, an option is marked, a share is bought or
sold, money moves between accounts, an account is closed; and the clock ticks.
`world` is the provider now and `before` as it was when the refresh began, which
is what the properties compare a candidate with.

Amounts are integers of cents, times minutes on the day of one close; the
allowance of five seconds for clocks that differ is below a minute and so zero. A
holiday counts as closed, as in the code's conditions. Pages and batches of a read
are one answer. Rows that are repeated, null or not asked for throw, as a failed
call does, and `ReadFails` stands for all of them, at any read. Left out are
account identity checks on one's own bundles, which the reads satisfy by
construction, and an unknown kind of total, as the mapper always says
`provider_portfolio_value`; checksums, the fingerprint, masks and names, and the
notes about market states, as no property is about them. A mark at an option's
quote is used without its time: the code stamps valued options with the time of
receipt. `RefreshWorker` abstracts all of this to a set of possible candidates,
`RefreshSchedule` to when a candidate is accepted.

### Enrollment and the provider connection

`Enrollment` has the one row of OAuth credentials and everyone who writes it:
the operator's command, which registers a client, waits for the browser's
callback, exchanges the code, verifies the tools and marks the row; and the
worker's calls, which start from a connected row and refresh its tokens. Both
run the authorization of the MCP SDK, whose steps (`flow`) are taken from how
the repository's provider object is called by it. Every await is a step, so the
row may change hands between any two. Requests fail, tokens expire or are
revoked, a process is killed; each is a fault.

`Connection` has the transport: readers that find no client share one
attempt, an attempt succeeds or fails (it closes its client first, and who calls
meanwhile shares its failure), `close` may come during it and later
calls open a client of their own, and a read goes from page to page by cursors
which the provider chooses at will, in a cycle too. A client factory that
throws at once, instead of failing later, is not modelled.

### Alerts

`Alerts` has the worker after a promotion: it reads the enabled rules, evaluates
them one by one against the snapshot and a baseline chosen by the rule's kind,
appends an event for each, and marks its heartbeat; a failure is put on record,
a killed process leaves the snapshot unevaluated for good. Beside it prices
move, deposits arrive, are imported later or never, and the owner saves rules.
A refresh reads each account's portfolio at a moment of its own and the quote
after them; the quote carries the time of the last trade, and what it says must
reconcile with the portfolio. The snapshot is of the earliest of these times
(`AsOf`), so its total may hold deposits that came after it (`Ahead`). Too far
apart (`Skewed`), older than the current snapshot (`Stale`) or read before
(`Repeated`), it is not promoted. Sources without a time of their own (the list of
accounts, the positions) and the age a source may have are left out here;
`SnapshotBuild` has them.
`Inbox` is the other end: the screen's list, the calls that mark an alert as
read, snooze or mute it, and the rows they change.

### What the pages say

`Overview` puts the overview page together query by query while the worker
promotes, fails and marks its heartbeat. `Figures` has a portfolio that lives
(prices, trades, payments, dividends, a closed account), snapshots of it, records
of its activity that say what an entry was and when, and every figure that the
read models compute from them: holdings, account summaries, allocation,
analytics, reconciliation, performance and the daily change.

### Imports

`ImportFlow` models calls of `previewImport`, `confirmImport` and
`deleteImportEvidence`, each a program counter with its locals, over the state
store (the repository's memory store, whose statements are atomic; saving a
preview may fail without effect) and the evidence store (which may be remote: a
failed put or delete may have happened or not). A row is a candidate with an
account, an identity and a class of look-alikes; a file is a sequence of rows. The
identifiers a call makes up are its own. Files that do not parse end a call
without effect and are not modelled, nor is a process that dies between storing
evidence and saving the preview, nor the expiry of evidence after ninety days.
`ListsConfirmed` says whether `listExisting` returns what was confirmed, as an
owner's database does, or nothing, as the demonstration's controller does.

`CsvReader` is `parse-csv.ts` character by character, compared with a
definition of what comma separated values are. `ImportScreen` is the screen over
both routes, with answers in any order.

### The owner's requests

`Requests` follows a mutation from the control that starts it through the fetch
of its token, the relay, the API's checks and the route to the answer, while the
browser's session changes, passkeys grow old, and answers get lost. The shipped
composition supplies neither exports nor deletions (the routes answer 503) and
its verifier never reports a passkey; the model is of a composition that does,
since otherwise nothing of these routes can be reached.

`MCParts` checks the eight modules that share no state (`Overview`, `Figures`,
`MarketCalendar`, `Connection`, `Inbox`, `ImportScreen`, `CsvReader`, `Requests`)
in one run: `part` names the one a behaviour is about, and the others stay as
they began.

`Sums` is a module of lemmas only: what `SumFunctionOnSet`, by which the models
add amounts up, is for any finite set.

## Runs

| run | what it explores | what it shows |
|---|---|---|
| `concurrent` | two workers, one user, two requests, two faults | the invariant of the proofs, the fence, final outcomes, the workers implement the jobs table |
| `sequence` | two users on one worker, four refreshes over seven candidates | no account lost, no way back in time, the workers implement the ledger |
| `liveness` | two workers, one fault, fairness | every requested refresh completes or fails |
| `schedule` | a weekend day, an early close and a holiday; failures, lagging quotes, manual requests, waits, a crash | closes are taken in their window and valued at the close, the open market is fresh, every day is refreshed, what is shown is never behind the checkpoint |
| `imports` | four calls of two users, two overlapping files, two accounts, one fault | previews, confirmations and evidence agree; owners are apart; deletions stick |
| `candidate` | two accounts with stock, an option, other assets, or money in a closed one, read shortly before, shortly after and long after the close, one change at the provider at any moment, two minutes passing | a candidate shows each account exactly, before the change or after it, or rejects it; its prices are of one moment and fresh |
| `enrollment` | two runs of the command, one call of the worker, two faults | the row is sound, the browser is told the truth, a run that nothing disturbs connects, every run ends |
| `alerts` | three snapshots of two accounts, two rules, a deposit in either account at any moment, imported before or after, one fault | rules are evaluated or the failure is on record, the heartbeat attests an evaluation, movement alerts tell the market from deposits and are off by those that came while a snapshot was read |
| `parts` | the eight parts one at a time: three snapshots under a page, three portfolios through two events and two snapshots, nine years, two of them with unusual Easters, two readers over three attempts, two presses on the alerts, two uploads and two confirmations, every text of up to five characters, two calls under a changing session | `TrendMeetsHeadline`, `LiveIsFresh`, `FiguresAgree`, `ChangesAreGains`, `CalendarHolds`, `ReadsSound`, `SettledScreenTrue`, `ImportScreenHonest`, `ReadsAsWritten`, `RequestsSound` |

Three runs expect a violation; each shows that a sentence of the repository is
not what the code does (`findings` in `PROJECT.json`): `next_close` (a day whose
close hour was missed has no checkpoint, though the design document asks for the
next available snapshot), `verified_grant` (a worker's pending save puts a token
of the old client under the mark that says the tools were verified), and
`failed_action` (a refused action puts back the list from before another action
that succeeded, and the screen says that nothing changed).

Bounds. Two workers are what a takeover needs, and two faults allow a lost
answer together with a lost lease; a third worker takes the part of either.
Four refreshes in `sequence` let an account appear, be emptied, be closed and
come back. The days of `schedule` are shortened to the hours in which
something happens, with every window's edges kept in their order and proportion;
`next_close` has the true hours in slots of five minutes.
Four import calls are two uploads of one file, a confirmation and a
deletion, or any other four. In `candidate` the
change may fall before or after each of the reads; one change is what the code
can tell from none, as two may cancel (a purchase and a sale at another price),
which the reconciliation cannot see and no property claims. A share costs a
dollar and more, above the tolerance of an account of four hundred, so a torn
purchase shows; a smaller change than the tolerance would not, in the code as
in the model. Two runs of the command let one register a client while the
worker still holds a token of the other's, and two faults let a token die and a
request fail. In `alerts` three snapshots are a baseline, a close and what is
measured against it, and a price move and a deposit have the same worth, so that
one taken for the other shows. Two accounts and three units of time let a deposit
fall before the reads of a snapshot, between them and after the trade its quote
is of, with a skew of one. What the numbers mean and what failures do hardly
meet, so `MCSpec` begins either with one rule on the movement and neither acts
nor faults left, or near the end of time with both to come. Two attempts that fail and one that succeeds are
all an attempt can be to a reader; two cursors make a cycle. Five characters
hold a quoted cell with a doubled quote, a header with a row, or each limit
passed by one; the limits are two. The calendar's years begin on each day of the week, so
each holiday falls on each; one is a leap year, one is before Juneteenth was
observed, and two have the Easters that are the exceptions of the rule.
Deadlock is not checked: every one of these systems may rightly stop, a worker
that has nothing to claim or a call that returned.

Fairness is assumed in two runs. In `liveness`: weak fairness of each worker's
own steps (the event loop runs what is ready and each await of the code has a
timeout or fails), of the claim of each worker that polls (the loop never stops
polling), and of the clock. In `enrollment`: weak fairness of the command's own
steps, which either are answered or time out, and of the callback's timeout.
Crashes, faults, requests and the owner's approval are never forced.

The schedule's promises over time, `CloseCheckpointTaken`, `KeptFreshInSession`
and `EveryDayRefreshed`, are stated as invariants with a deadline, so they need
no fairness. They assume that the worker keeps up, waiting at most `MaxWait`
slots before it claims a refresh and as many before it promotes it, and they
speak of a process that was not killed. `Patience` is the time of one refresh
and of as many more as there may be failures; `ClosePatience` adds a turn for
the refresh under way and for each manual one, as such a refresh may use the
quote the close would have needed. That the waits fit into the policy's
intervals, and the quotes into its limits, is `PromptAssumption`.

## Proofs

Every safety property the passing runs check is proved, for every value of the
constants that the named assumptions allow.
The properties are not inductive by themselves; each proof is of an inductive
invariant, and what that adds is said here.

`RefreshWorkerProofs`: type correctness; that a user with snapshots has exactly
one current and every promoted run succeeded; that whoever is inside the
promotion is the job's owner; that no active account is missing from what is
shown; that a recorded outcome is final; and that the workers implement
`JobLease` and `SnapshotLedger`, step by step. The fence holds because a worker
between the two statements of the transaction holds the row's lock and
nothing but its own steps and the clock moves a locked row; outcomes are
final because the run a worker holds is one no other worker has and is
not finished while the worker can still finish it; no account is lost
because between reading the expected accounts and promoting, only a promotion by
the same job's owner could have changed them, and the fence leaves none. The
run `concurrent` checks the same `IndInv`.

`RefreshScheduleProofs`: type correctness, that a checkpoint is valued at the
close of its day and that what is shown is never valued before the checkpoint, for
any calendar and hours in which the window after the close ends within the day
(`WindowAssumption`). A candidate that counts as a close was begun in that
close's window (`ClosesBegun`), so the last close it was valued by is that
one. That the last close and the next exist is by the well-foundedness of the
natural numbers.

The same module proves the three deadlines (`CloseCheckpointTaken`,
`KeptFreshInSession`, `EveryDayRefreshed`), under `PromptAssumption`. `Punctual`
is about the attempt under way: it began (`Started`, which is now without the
slots this attempt has taken and without those of the attempts that failed) no
later than a refresh was due. A failure moves both sides by one attempt, so the
bound stays. For the close it is `CloseBy`, which is later by one turn
(`OneTurn`) for each manual refresh made, and by one more when the refresh under
way at the close, read too early to count, is over. Such a refresh may leave on
show a snapshot valued by a later quote than the next candidate's, which is then
refused; `ReadsInOrder` says that it cannot be later by more than the skew.

`SnapshotBuildProofs`: the prices of a promoted snapshot are of one moment and it
is never labelled as one with stale quotes, for any accounts, holdings and moves of
the provider, in a refresh that ends within the day (`RefreshTimeAssumption`).
What was read is stamped with its time, the quotes are exactly those of the
positions read, and a promoted candidate is the one the policy found fresh.

That a candidate is exact (`ExactWhenUntouched`) and that one move is seen whole
(`SingleMoveSeenWhole`) needs `SeenInv`: of an account nothing touched, each
answer is what the provider has; of one that a single move touched, each answer
is what it had before or after, in the order of the reads. The
total, read first, and the positions, read later, can then only disagree by what
the move traded. The reconciliation refuses that if a share costs more than the
tolerance of the account's worth, which is the property's own condition. It
also rests on the provider reporting the worth of a holding at its last trade
(`ProviderAssumption`), and on totals being sums, whatever the order of adding.

`EnrollmentProofs`: the row is complete and marked when it says connected, a
worker runs only after a verification, and the callback's browser is told the
truth, for any number of calls, runs and faults. Added is only that calls
belong to a worker that is up, and that what a flow is about to save is a token
it was issued. The run `enrollment` checks the same `IndInv`. That a run of the
command which nothing disturbs connects (`UndisturbedRunConnects`) needs to know
where such a run may stand (`UndisturbedInv`): what it has registered and been
issued is still what the row holds, whatever earlier runs left there.

`AlertsProofs`: no promoted snapshot loses its alerts unnoticed and the
heartbeat attests an evaluation, for any rules, prices, deposits and faults. While
the worker evaluates, every rule saved before the promotion that is not left to
do has its event; events are never dropped, and a rule saved later is not owed one.
That a movement alert measures the market (`AlertsSeeMarketMoves`) needs
`SightInv`: each snapshot is of the earliest time of its sources, its total is
the holding and, of each account, what had been paid in when that account was
read; and each event was judged on its snapshot, the last close before it and
the deposits known by then, which the records still tell from the later ones.
What was paid in when an account was read splits into what was there at the
snapshot's moment and what came during the reads (`HeldSplits`); the first part
cancels against the flows on record, and the second is by how much the alert is
off (`MoveSeen`).

`ImportsProofs`: all seven properties of the run `imports`, for any users,
files, calls and faults. `IndInv` is a part about the stores (`StoreInv`) and
one about each call (`CallInv`): a call owns its evidence exactly between
storing it and its last step, and what it has checked of a preview (its owner,
the rows offered, the deletion begun) stays true of it. `Effect(c)` is all that
a step of a call may do to the stores, so that the others' parts follow once and
not once per action.

The same module proves the reader of files, `ReadsAsWritten`, for any text, limits
and headers asked for. What is written in a text is defined without reading it
from left to right: a position is outside quotes when an even number of them comes
before it, the commas and line ends outside quotes are where fields and records
end, and a field's meaning is the characters inside it without each quote that
only announces another. `CsvInv` puts the reader somewhere in that: in the line
that begins at `p` and its field that begins at `f`, with the lines before `p` and
the fields from `p` to `f` read and found right, and with what the field says so
far in its cell (`BareSoFar`, `QuotedSoFar`, or `ClosedAt` after its last quote).
A character then moves the place by one, ends the field or the line, or shows that
no reading of the text is right. The values a set of positions gives in order
(`Listed`) grow at the end when a greater position joins the set; this, proved once
(`ListedOneMore`), stands for the induction over texts.

`PartsProofs` is about the parts that share no state, each for all values of its
own constants:

- the overview (`TrendMeetsHeadline`, `LiveIsFresh`): snapshots are in order of
  valuation, and what the page has read so far is among those promoted since it
  was opened or current then;
- the import screen (`ImportScreenHonest`): the rows ticked are rows shown, and
  an owner who waits for each answer has at most one request under way, which is
  about the file on the screen;
- the alerts' screen (`SettledScreenTrue`): as long as calls do not tangle, a
  rule has one call under way, the rows say what that call has done, and the
  newest can still put back what was shown before it;
- the connection (`ReadsSound`): at most one attempt is under way, it is the
  shared one, and while there is one there is no client; both are younger than
  the close unless the close waits for them; the cursors a read remembers are
  those of its pages and of the one it asks for;
- the requests (`RequestsSound`): a call that passed the API's checks is the
  owner's, with the token of its own session; its action is performed once,
  between its stages; the phrases typed are at least the deletions performed and
  the one that may follow;
- the figures (`FiguresAgree`, `ChangesAreGains`): figures that pages compute by
  security, by kind, by support or by account are one sum over the same rows,
  regrouped; and the books balance from every snapshot to the portfolio as it is
  now (`Balanced`): its worth grew by what the markets gained and by what the
  activity records say was paid in or out since, the provider's rounding aside;
- the calendar (`CalendarHolds`), for any years from 1901 to 2198, any marks that
  include every minute at which a session may begin or end; they may be all
  minutes. No year is computed: that a date is among the holidays its year
  constructs is shown, rule by rule, to be what the date alone tells
  (`HolidaysAre`). For Easter (`EasterIs`) the algorithm's terms are reduced to the
  lunar formula and the days from there to a Sunday, its last correction being due
  exactly where the table of moons is lower than the formula. A holiday in the
  middle of the week is one of four dates, no two of which follow one another
  (`TuesdayOrWednesday`), so that a trading day is always within ten days. The
  last close is then the greatest end of a session not after the instant
  (`LastCloseIs`), which moves exactly when a session ends (`LastCloseMoves`);
- the hours the schedule is given (`HoursAreTheCalendars`): an instance of
  `SessionHours` over dates of the calendar has the calendar's sessions, extended
  hours and last close at every instant of them. The greatest close of those days
  is that of the last trading day (`LastOfHours`), which is among them or is the
  full day before. So what is proved of the schedule for any calendar is proved for
  this one.

`Sums` proves by induction over the subsets of a finite set, through the
well-foundedness of strict inclusion, what a sum is: an integer that depends on
the terms only and not on their order, splits along any subset, adds term by
term, changes by the term that changes, and is the sum of its groups' sums. That
induction is over a family of sets and not over an operator, so the prover can
instantiate it. The sums in `SnapshotBuild`, `Alerts` and `Figures` are reasoned
about with these lemmas only.

All assumptions are on constants: bounds are natural numbers and sets that are
added over are finite, null values are none of the values they stand beside
(`NoneAssumption`, `NullAssumption`, `NoWorkerAssumption`, `RequestsAssumption`,
`ConnectionAssumption`, `EnrollmentAssumption`, `SupportedAssumption`), data are of
their type (`CandidateAssumption`, `FileAssumption`, `AlertsAssumption`,
`ProviderAssumption`, `SessionAssumption`, `ScheduleAssumption`,
`OverviewAssumption`, `FiguresAssumption`, `CsvAssumption`, `CalendarAssumption`),
and times are of the size the code gives them (`WindowAssumption`,
`PromptAssumption`, `RefreshTimeAssumption`). TLC evaluates each on the run of its
module.

Only model-checked is liveness under fairness (`RefreshSettles`,
`EnrollmentEnds`), which the prover does not reach.

## Observed while modelling

What the code does that no property holds or claims, and that a maintainer may
want to know:

- Once a worker has lost its lease, two workers read the provider for one user
  until the first notices; the fence guards the promotion, not the reads.
- Look-alike rows without an identity of two previews made side by side can both
  be confirmed; only identities are compared again at the confirmation.
- A holding that traded at the close and not since makes a refresh five minutes
  later exceed the 120-second skew, so the day's close snapshot is rejected.
- A failed refresh leaves the refresh due: the scheduler asks again at each tick,
  and the retry policy with its backoff has no caller.
- The connected composition passes `flowCoverageComplete` as false, so the
  overview's daily change is always unavailable; a flow known only by its day,
  on the day of the close, is taken to be before it.
- A closed account whose stock and debt cancel is left out of the accounts while
  its positions are holdings. An account's page sums option quantities with
  their signs, the holdings page without. The analytics' unsupported value
  leaves the aggregates for crypto and futures out.
- The heartbeat is marked only after a promotion, but a worker counts as stalled
  180 seconds after it. A rule with a malformed scope ends every evaluation, so
  the heartbeat is never marked while it is enabled. `stale_sync` rules are
  evaluated only right after a promotion; a portfolio-wide
  `holding_percentage_move` is always suppressed. `deliverAlert` has no caller.
- A call after the transport was closed opens a new client.
- A snapshot is dated by the earliest of its sources (`freshness-policy.ts:119`), the
  accounts are read up to 120 seconds later (`refresh-service.ts:144-156`). A
  deposit in between is in the total and, dated after the snapshot, not among
  its flows (`postgres-evaluator.ts:69`), so an alert on the movement takes it for
  a gain; if the snapshot becomes a baseline, it is counted again and passes for a
  loss. `AlertsSeeMarketMoves` says that a movement alert is off by these deposits
  and by nothing else.
- Mutes are kept per rule and shown per alert; only one alert's buttons are
  disabled at a time; a lost answer makes "No server state was changed" and
  "Deletion was not scheduled" untrue.
- Starting over on the import screen while a confirmation is under way leaves
  "complete" beside another file's rows, or a screen with nothing on it.
- In a CSV file blank lines count toward the row limit before they are dropped,
  and the carriage return of a bare cell counts toward its length.
- The refresh control stays disabled after a successful request until the page
  is loaded again. A rule's form can be submitted twice before an answer. A
  deletion pressed in a stranger's session is performed if the owner signs in
  before its token is fetched. Behind the relay all users share one rate bucket.

## Not modelled

Configuration, HTTP plugins, headers, redaction, the notification adapters, the
benchmark client and generated migrations keep no state that two steps could
disagree on. Encryption and the form of provider answers are taken as given, and
so are statements in other formats than CSV, which a third-party parser reads.
Recovery codes and the delivery of alerts are not wired into the application,
so nothing says how their calls interleave. Pages that only show what they are
given, and the demonstration mode with its constant data, have nothing to
explore. The clocks of the API and of the identity provider are taken to agree.
What `MCParts` explores one part at a time is not composed further: these parts
share no state but rows that the others leave alone. `PROJECT.json` lists every
component with its status, and for every hazard that no property covers the
reason.
