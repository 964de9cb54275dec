--------------------------- MODULE RefreshWorker ---------------------------
(***************************************************************************)
(* Worker processes running portfolio refreshes against one database:      *)
(* RefreshService.runNext (apps/server/src/sync/refresh-service.ts) with   *)
(* the statements it issues through the job and portfolio repositories     *)
(* (apps/server/src/db).  Every await of runNext is a point where the      *)
(* other workers, the heartbeat timer and the clock may act, so each       *)
(* statement or provider read is an action of its own, except that the     *)
(* promotion transaction is two: it holds the job's row lock in between.   *)
(*                                                                         *)
(* A worker that dies comes back as a process that remembers nothing; its  *)
(* name is reused, which is sound because an idle worker only claims.      *)
(***************************************************************************)
EXTENDS JobRows, SnapshotData

CONSTANTS
  RunIds,       \* ids of sync_runs rows
  NoUser, NoRun,
  MaxRequests,  \* bound on calls of request
  MaxFaults     \* bound on crashes, failed heartbeats and missed heartbeats

ASSUME BoundAssumption == MaxRequests \in Nat /\ MaxFaults \in Nat
ASSUME NullAssumption == NoUser \notin Users /\ NoRun \notin RunIds

VARIABLES
  (* jobs *)
  job,       \* the refresh job of each user
  availableAt,  \* its available_at, as the number of the request it is from
  lock,      \* worker whose promotion transaction locks the user's job row
  (* sync_runs, portfolio_snapshots, accounts *)
  runs,      \* status of each sync run
  snaps,     \* promoted snapshots
  table,     \* status of each account in the accounts table
  (* one runNext per worker *)
  pc,        \* where runNext is
  mine,      \* user whose job it claimed
  run,       \* its syncRunId
  todo,      \* accounts it has still to read
  cand,      \* what the provider answers it
  lost,      \* its leaseLost flag
  (* bounds *)
  requests, faults

jobVars == <<job, availableAt, lock>>
dataVars == <<runs, snaps, table>>
localVars == <<mine, run, todo, cand, lost>>
boundVars == <<requests, faults>>
vars == <<job, availableAt, lock, runs, snaps, table, pc,
          mine, run, todo, cand, lost, requests, faults>>

Phases == {"idle", "claimed", "starting", "listing", "reading", "valuing",
           "built", "ready", "promoting", "promoted",
           "lost", "errored", "recording", "failing"}

RunStates == {"unused", "running", "succeeded", "failed"}

Snapshots == [run : RunIds, user : Users, cand : Candidates,
              isCurrent : BOOLEAN]

TypeOK ==
  /\ job \in [Users -> Rows]
  /\ availableAt \in [Users -> 0..MaxRequests]
  /\ lock \in [Users -> Workers \cup {NoWorker}]
  /\ runs \in [RunIds -> RunStates]
  /\ snaps \subseteq Snapshots
  /\ table \in [Users -> [Accounts -> {"unknown", "active", "closed"}]]
  /\ pc \in [Workers -> Phases]
  /\ mine \in [Workers -> Users \cup {NoUser}]
  /\ run \in [Workers -> RunIds \cup {NoRun}]
  /\ todo \in [Workers -> SUBSET Accounts]
  /\ cand \in [Workers -> Candidates \cup {NoCand}]
  /\ lost \in [Workers -> BOOLEAN]
  /\ requests \in 0..MaxRequests
  /\ faults \in 0..MaxFaults

Init ==
  /\ job = [u \in Users |-> Unowned("absent")]
  /\ availableAt = [u \in Users |-> 0]
  /\ lock = [u \in Users |-> NoWorker]
  /\ runs = [r \in RunIds |-> "unused"]
  /\ snaps = {}
  /\ table = [u \in Users |-> [a \in Accounts |-> "unknown"]]
  /\ pc = [w \in Workers |-> "idle"]
  /\ mine = [w \in Workers |-> NoUser]
  /\ run = [w \in Workers |-> NoRun]
  /\ todo = [w \in Workers |-> {}]
  /\ cand = [w \in Workers |-> NoCand]
  /\ lost = [w \in Workers |-> FALSE]
  /\ requests = 0
  /\ faults = 0

(***************************************************************************)
(* Helpers.                                                                *)
(***************************************************************************)
Goto(w, phase) == pc' = [pc EXCEPT ![w] = phase]

\* runNext returns, or its process dies: nothing of the call is left.
Forget(w) ==
  /\ Goto(w, "idle")
  /\ mine' = [mine EXCEPT ![w] = NoUser]
  /\ run' = [run EXCEPT ![w] = NoRun]
  /\ todo' = [todo EXCEPT ![w] = {}]
  /\ cand' = [cand EXCEPT ![w] = NoCand]
  /\ lost' = [lost EXCEPT ![w] = FALSE]

CurrentSnaps(u) == {s \in snaps : s.user = u /\ s.isCurrent}

\* Mutant: an active account that is empty may go missing.
ExpectedFunded(u) ==
  {a \in Accounts : \E s \in CurrentSnaps(u) :
     a \in Covered(s.cand) /\ s.cand.accts[a].nonzero}

\* getExpectedAccountKeys: active in the accounts table, or included with a
\* non-zero total in the current snapshot.
Expected(u) ==
  {a \in Accounts :
     \/ table[u][a] = "active"
     \/ \E s \in CurrentSnaps(u) :
          a \in Covered(s.cand) /\ s.cand.accts[a].nonzero}

\* createId never returns an id twice.
FreshRun(r) == runs[r] = "unused" /\ \A w \in Workers : run[w] # r

\* A statement on a job row waits for the transaction that locks the row.
Unlocked(u) == lock[u] = NoWorker

(***************************************************************************)
(* The callers of request: the API's refresh button and the scheduler.     *)
(***************************************************************************)
Request(u) ==
  /\ requests < MaxRequests
  /\ Unlocked(u)
  /\ requests' = requests + 1
  /\ job' = [job EXCEPT ![u] = Enqueued(@)]
  /\ availableAt' =
       IF job'[u] = job[u] THEN availableAt
       ELSE [availableAt EXCEPT ![u] = requests']
  /\ UNCHANGED <<lock, dataVars, pc, localVars, faults>>

(***************************************************************************)
(* runNext, up to the promotion transaction.                               *)
(***************************************************************************)
\* claimNext: the oldest claimable row, skipping locked ones.
Claim(w, u) ==
  /\ pc[w] = "idle"
  /\ Claimable(job[u]) /\ Unlocked(u)
  /\ \A v \in Users : Claimable(job[v]) /\ Unlocked(v)
                        => availableAt[u] <= availableAt[v]
  /\ job' = [job EXCEPT ![u] = ClaimedBy(w)]
  /\ mine' = [mine EXCEPT ![w] = u]
  /\ Goto(w, "claimed")
  /\ UNCHANGED <<availableAt, lock, dataVars, run, todo, cand, lost,
                 boundVars>>

\* ensureLease renews the lease and goes on to the next phase, or throws
\* job_lease_lost without asking the database once leaseLost is set.
LeaseHeld(w) ==
  /\ ~lost[w]
  /\ Unlocked(mine[w])
  /\ LiveFor(job[mine[w]], w)
  /\ job' = [job EXCEPT ![mine[w]] = Renewed(@)]

LeaseGone(w) ==
  /\ lost[w] \/ (Unlocked(mine[w]) /\ ~LiveFor(job[mine[w]], w))
  /\ Goto(w, "lost")
  /\ UNCHANGED job

EnsureLease(w, from, to) ==
  /\ pc[w] = from
  /\ (LeaseHeld(w) /\ Goto(w, to)) \/ LeaseGone(w)
  /\ UNCHANGED <<availableAt, lock, dataVars, localVars, boundVars>>

EnsureLeaseBeforeRun(w) == EnsureLease(w, "claimed", "starting")

\* createId and startSyncRun; the insert may fail and leave no row.
StartSyncRun(w, r) ==
  /\ pc[w] = "starting"
  /\ FreshRun(r)
  /\ run' = [run EXCEPT ![w] = r]
  /\ \/ runs' = [runs EXCEPT ![r] = "running"] /\ Goto(w, "listing")
     \/ UNCHANGED runs /\ Goto(w, "errored")
  /\ UNCHANGED <<jobVars, snaps, table, mine, todo, cand, lost, boundVars>>

\* readAccounts and getExpectedAccountKeys.  What the provider will answer in
\* the rest of the refresh is fixed here; nothing reads it before valuing.
ReadAccounts(w, c) ==
  /\ pc[w] = "listing"
  /\ IF Expected(mine[w]) \subseteq Covered(c)
     THEN /\ Goto(w, "reading")
          /\ cand' = [cand EXCEPT ![w] = c]
          /\ todo' = [todo EXCEPT ![w] = Covered(c)]
     ELSE /\ Goto(w, "errored")  \* expected_account_missing
          /\ UNCHANGED <<cand, todo>>
  /\ UNCHANGED <<jobVars, dataVars, mine, run, lost, boundVars>>

\* ensureLease, then a read of one account.  The three reads of an account
\* repeat this step.
ReadAccount(w, a) ==
  /\ pc[w] = "reading"
  /\ a \in todo[w]
  /\ \/ /\ LeaseHeld(w)
        /\ todo' = [todo EXCEPT ![w] = @ \ {a}]
        /\ UNCHANGED pc
     \/ LeaseGone(w) /\ UNCHANGED todo
  /\ UNCHANGED <<availableAt, lock, dataVars, mine, run, cand, lost,
                 boundVars>>

EnsureLeaseBeforeQuotes(w) ==
  todo[w] = {} /\ EnsureLease(w, "reading", "valuing")

\* Quotes, valuation and buildSnapshotPromotion.
BuildPromotion(w) ==
  /\ pc[w] = "valuing"
  /\ Goto(w, "built")
  /\ UNCHANGED <<jobVars, dataVars, localVars, boundVars>>

EnsureLeaseBeforePromotion(w) == EnsureLease(w, "built", "ready")

\* Anything awaited before the promotion may throw: a provider read, a
\* rejected candidate, a statement the database does not answer.
Throw(w) ==
  /\ pc[w] \in {"claimed", "listing", "reading", "valuing", "built", "ready"}
  /\ Goto(w, "errored")
  /\ UNCHANGED <<jobVars, dataVars, localVars, boundVars>>

(***************************************************************************)
(* promoteSnapshot: one transaction.  It begins by checking the lease and  *)
(* locking the job's row, and completes the job itself when it commits.    *)
(* A commit whose answer is lost looks like a failure to the worker.       *)
(***************************************************************************)
\* Mutant: the transaction trusts the ensureLease that came before it.
BeginUnfenced(w) ==
  /\ pc[w] = "ready"
  /\ Unlocked(mine[w])
  /\ lock' = [lock EXCEPT ![mine[w]] = w]
  /\ Goto(w, "promoting")
  /\ UNCHANGED <<job, availableAt, dataVars, localVars, boundVars>>

BeginPromotion(w) ==
  LET u == mine[w] IN
  /\ pc[w] = "ready"
  /\ Unlocked(u)
  /\ \/ /\ LiveFor(job[u], w)
        /\ lock' = [lock EXCEPT ![u] = w]
        /\ Goto(w, "promoting")
     \/ /\ ~LiveFor(job[u], w)
        /\ Goto(w, "lost")
        /\ UNCHANGED lock
  /\ UNCHANGED <<job, availableAt, dataVars, localVars, boundVars>>

\* Same fingerprint and calculation version as a snapshot of this user.
Duplicate(u, c) == \E s \in snaps : s.user = u /\ s.cand = c

\* Mutant: an older valuation may replace a newer one.
NeverStale(u, c) == FALSE

Stale(u, c) == \E s \in CurrentSnaps(u) : s.cand.asOf > c.asOf

Unlock(w) == lock' = [lock EXCEPT ![mine[w]] = NoWorker]

\* Mutant: the job is left to be completed after the transaction.
CommitRunOnly(w) ==
  /\ runs' = [runs EXCEPT ![run[w]] = "succeeded"]
  /\ Unlock(w)
  /\ UNCHANGED <<job, availableAt, boundVars>>

CommitRunAndJob(w) ==
  /\ runs' = [runs EXCEPT ![run[w]] = "succeeded"]
  /\ job' = [job EXCEPT ![mine[w]] = Finished("completed")]
  /\ Unlock(w)
  /\ UNCHANGED <<availableAt, boundVars>>

CommitUnchanged(w) ==
  /\ pc[w] = "promoting"
  /\ Duplicate(mine[w], cand[w])
  /\ CommitRunAndJob(w)
  /\ Forget(w) \/ (Goto(w, "errored") /\ UNCHANGED localVars)
  /\ UNCHANGED <<snaps, table>>

\* The current snapshot is superseded, the new one becomes current.
Superseded(u) ==
  {IF s.user = u THEN [s EXCEPT !.isCurrent = FALSE] ELSE s : s \in snaps}

CommitPromotion(w) ==
  LET u == mine[w]
      c == cand[w]
  IN
  /\ pc[w] = "promoting"
  /\ ~Duplicate(u, c) /\ ~Stale(u, c)
  /\ CommitRunAndJob(w)
  /\ snaps' = Superseded(u) \cup
       {[run |-> run[w], user |-> u, cand |-> c, isCurrent |-> TRUE]}
  /\ table' = [table EXCEPT ![u] =
       [a \in Accounts |->
          IF a \in Covered(c) THEN c.accts[a].status ELSE @[a]]]
  /\ Goto(w, "promoted") \/ Goto(w, "errored")
  /\ UNCHANGED localVars

\* stale_snapshot_candidate.
RejectStale(w) ==
  /\ pc[w] = "promoting"
  /\ ~Duplicate(mine[w], cand[w]) /\ Stale(mine[w], cand[w])
  /\ Unlock(w)
  /\ Goto(w, "errored")
  /\ UNCHANGED <<job, availableAt, dataVars, localVars, boundVars>>

\* A statement of the transaction, or its commit, fails.
Rollback(w) ==
  /\ pc[w] = "promoting"
  /\ Unlock(w)
  /\ Goto(w, "errored")
  /\ UNCHANGED <<job, availableAt, dataVars, localVars, boundVars>>

\* afterSnapshotPromoted; if it throws and the audit append that reports it
\* throws too, the error reaches the handler of failed refreshes.
AfterPromotion(w) ==
  /\ pc[w] = "promoted"
  /\ Forget(w) \/ (Goto(w, "errored") /\ UNCHANGED localVars)
  /\ UNCHANGED <<jobVars, dataVars, boundVars>>

(***************************************************************************)
(* runNext, the catch block.                                               *)
(***************************************************************************)
\* job_lease_lost: the run is recorded as failed, the job is left alone.
RecordLostRun(w) ==
  /\ pc[w] = "lost"
  /\ runs' = IF run[w] = NoRun THEN runs
             ELSE [runs EXCEPT ![run[w]] = "failed"]
  /\ Forget(w)
  /\ UNCHANGED <<jobVars, snaps, table, boundVars>>

\* stillOwned.
CheckStillOwned(w) ==
  LET u == mine[w] IN
  /\ pc[w] = "errored"
  /\ Unlocked(u)
  /\ \/ /\ LiveFor(job[u], w)
        /\ job' = [job EXCEPT ![u] = Renewed(@)]
        /\ Goto(w, "recording")
        /\ UNCHANGED localVars
     \/ /\ ~LiveFor(job[u], w)
        /\ Forget(w)
        /\ UNCHANGED job
  /\ UNCHANGED <<availableAt, lock, dataVars, boundVars>>

\* recordFailedRun, under a new id if no run was started.
RecordFailedRun(w, r) ==
  /\ pc[w] = "recording"
  /\ IF run[w] = NoRun THEN FreshRun(r) ELSE r = run[w]
  /\ runs' = [runs EXCEPT ![r] = "failed"]
  /\ Goto(w, "failing")
  /\ UNCHANGED <<jobVars, snaps, table, localVars, boundVars>>

\* Mutant: the update finds the job by its id alone.
FailAnyonesJob(w) ==
  /\ pc[w] = "failing"
  /\ Unlocked(mine[w])
  /\ job' = [job EXCEPT ![mine[w]] = Finished("failed")]
  /\ Forget(w)
  /\ UNCHANGED <<availableAt, lock, dataVars, boundVars>>

FailJob(w) ==
  LET u == mine[w] IN
  /\ pc[w] = "failing"
  /\ Unlocked(u)
  /\ job' = IF OwnedBy(job[u], w) THEN [job EXCEPT ![u] = Finished("failed")]
            ELSE job
  /\ Forget(w)
  /\ UNCHANGED <<availableAt, lock, dataVars, boundVars>>

(***************************************************************************)
(* What happens to a runNext from outside.                                 *)
(***************************************************************************)
\* The interval of runNext: renewLease, leaseLost if it was refused.
Heartbeat(w) ==
  LET u == mine[w] IN
  /\ pc[w] # "idle"
  /\ Unlocked(u)
  /\ \/ /\ LiveFor(job[u], w)
        /\ job' = [job EXCEPT ![u] = Renewed(@)]
        /\ UNCHANGED lost
     \/ /\ ~LiveFor(job[u], w)
        /\ lost' = [lost EXCEPT ![w] = TRUE]
        /\ UNCHANGED job
  /\ UNCHANGED <<availableAt, lock, dataVars, pc, mine, run, todo, cand,
                 boundVars>>

\* The renewal throws.
HeartbeatError(w) ==
  /\ pc[w] # "idle" /\ ~lost[w]
  /\ faults < MaxFaults
  /\ faults' = faults + 1
  /\ lost' = [lost EXCEPT ![w] = TRUE]
  /\ UNCHANGED <<jobVars, dataVars, pc, mine, run, todo, cand, requests>>

\* The process dies, also when a statement of the catch block throws; the
\* database rolls its open transaction back.
Crash(w) ==
  /\ pc[w] # "idle"
  /\ faults < MaxFaults
  /\ faults' = faults + 1
  /\ lock' = [u \in Users |-> IF lock[u] = w THEN NoWorker ELSE lock[u]]
  /\ Forget(w)
  /\ UNCHANGED <<job, availableAt, dataVars, requests>>

\* A heartbeat period passes.  It ends the lease of a process that is alive
\* only if that process missed its heartbeats, which counts as a fault.
MissedHeartbeats ==
  {w \in Workers : \E u \in Users :
     mine[w] = u /\ job[u].owner = w /\ job[u].left = 1}

Tick ==
  /\ \E u \in Users : job[u].left > 0
  /\ IF MissedHeartbeats = {} THEN UNCHANGED faults
     ELSE faults < MaxFaults /\ faults' = faults + 1
  /\ job' = [u \in Users |-> Aged(job[u])]
  /\ UNCHANGED <<availableAt, lock, dataVars, pc, localVars, requests>>

-----------------------------------------------------------------------------
Prepare(w) ==
  \/ EnsureLeaseBeforeRun(w)
  \/ \E r \in RunIds : StartSyncRun(w, r)
  \/ \E c \in Candidates : ReadAccounts(w, c)
  \/ \E a \in Accounts : ReadAccount(w, a)
  \/ EnsureLeaseBeforeQuotes(w)
  \/ BuildPromotion(w)
  \/ EnsureLeaseBeforePromotion(w)
  \/ Throw(w)

PromoteSnapshot(w) ==
  \/ BeginPromotion(w)
  \/ CommitUnchanged(w)
  \/ CommitPromotion(w)
  \/ RejectStale(w)
  \/ Rollback(w)
  \/ AfterPromotion(w)

HandleError(w) ==
  \/ RecordLostRun(w)
  \/ CheckStillOwned(w)
  \/ \E r \in RunIds : RecordFailedRun(w, r)
  \/ FailJob(w)

\* The code after one await of runNext, up to the next.
Advance(w) == Prepare(w) \/ PromoteSnapshot(w) \/ HandleError(w)

Next ==
  \/ \E u \in Users : Request(u)
  \/ \E w \in Workers, u \in Users : Claim(w, u)
  \/ \E w \in Workers :
       \/ Advance(w)
       \/ Heartbeat(w)
       \/ HeartbeatError(w)
       \/ Crash(w)
  \/ Tick

Spec == Init /\ [][Next]_vars

\* The worker loop calls runNext again and again, an await settles, and time
\* passes.  Heartbeats need no fairness: a lease they fail to renew expires.
Fairness ==
  /\ \A w \in Workers : WF_vars(Advance(w))
  /\ \A w \in Workers : WF_vars(\E u \in Users : Claim(w, u))
  /\ WF_vars(Tick)

FairSpec == Spec /\ Fairness

-----------------------------------------------------------------------------
(***************************************************************************)
(* Properties.                                                             *)
(***************************************************************************)
\* Once a user has snapshots, exactly one of them is current: a promotion
\* supersedes and inserts in one transaction, whichever worker runs it.
OneCurrent ==
  \A u \in Users :
    /\ \A s, t \in CurrentSnaps(u) : s = t
    /\ (\E s \in snaps : s.user = u) => CurrentSnaps(u) # {}

\* The run behind a snapshot is on record as succeeded, also when the worker
\* never learnt that its promotion committed and went on to handle an error.
PromotedRunsSucceeded == \A s \in snaps : runs[s.run] = "succeeded"

\* Whoever is inside the promotion transaction is the job's owner, however
\* long the transaction takes and whatever happens to its lease meanwhile.
PromoterOwnsJob ==
  \A u \in Users : lock[u] # NoWorker => OwnedBy(job[u], lock[u])

\* An account the accounts table has as active is one the current snapshot
\* covers: no promotion may leave a known active account out of the total.
ActiveAccountsShown ==
  \A u \in Users, a \in Accounts :
    table[u][a] = "active" => \E s \in CurrentSnaps(u) : a \in Covered(s.cand)

\* The outcome of a sync run is final: a late or superseded worker never
\* turns a success into a failure or the other way round.
RunOutcomesFinal ==
  [][\A r \in RunIds :
       runs[r] \in {"succeeded", "failed"} => runs'[r] = runs[r]]_vars

\* Seen from the jobs table the workers only ever make its atomic moves: no
\* lease is taken from an owner before it expired, and nobody but the owner
\* on record finishes a job.
Jobs == INSTANCE JobLease

ImplementsJobLease == Jobs!Spec

\* Seen from the snapshots the workers keep the ledger's promise: nothing
\* shown goes back in time, disappears, or loses an account it still held.
Promotions == {<<s.user, s.cand>> : s \in snaps}

Shown ==
  [u \in Users |->
     IF CurrentSnaps(u) = {} THEN NoCand
     ELSE (CHOOSE s \in CurrentSnaps(u) : TRUE).cand]

Ledger == INSTANCE SnapshotLedger WITH ledger <- Promotions, shown <- Shown

ImplementsLedger == Ledger!Spec

\* A requested refresh completes or fails in the end, crashes, stalls and
\* lost leases of the workers notwithstanding.
RefreshSettles ==
  \A u \in Users :
    job[u].status \in {"queued", "running"}
      ~> job[u].status \in {"completed", "failed"}

-----------------------------------------------------------------------------
(***************************************************************************)
(* Why the properties hold: an inductive invariant in named parts.         *)
(***************************************************************************)
RunStarted == {"listing", "reading", "valuing", "built", "ready", "promoting",
               "promoted"}
AccountsRead == {"reading", "valuing", "built", "ready", "promoting"}

\* What a call of runNext remembers in each phase.
LocalsMatchPhase ==
  \A w \in Workers :
    /\ (mine[w] = NoUser) <=> (pc[w] = "idle")
    /\ pc[w] \in {"idle", "claimed", "starting"} => run[w] = NoRun
    /\ pc[w] \in RunStarted => run[w] # NoRun
    /\ pc[w] \in AccountsRead => cand[w] # NoCand

RunsNotShared ==
  \A v, w \in Workers : run[v] = run[w] /\ run[v] # NoRun => v = w

\* The row lock is held exactly during the promotion transaction.
LockMatchesPhase ==
  \A u \in Users, w \in Workers :
    lock[u] = w <=> pc[w] = "promoting" /\ mine[w] = u

\* The status a worker's own run can have in each phase.
RunStatusMatchesPhase ==
  \A w \in Workers : run[w] # NoRun =>
    /\ pc[w] \in (RunStarted \ {"promoted"}) \cup {"lost"}
         => runs[run[w]] = "running"
    /\ pc[w] = "promoted" => runs[run[w]] = "succeeded"
    /\ pc[w] = "recording" => runs[run[w]] \in {"unused", "running"}
    /\ pc[w] = "errored" => runs[run[w]] \in {"unused", "running", "succeeded"}

\* A worker whose promotion committed no longer owns the job, even if the
\* same job has been requested and claimed again since.
CommitGivesUpJob ==
  \A w \in Workers :
    run[w] # NoRun /\ pc[w] \in {"promoted", "errored"}
      /\ runs[run[w]] = "succeeded"
      => ~OwnedBy(job[mine[w]], w)

\* While a worker owns the job, what it expected of the accounts it read is
\* still what has to be expected: only the owner changes it.
OwnerCoversExpected ==
  \A w \in Workers :
    pc[w] \in AccountsRead /\ OwnedBy(job[mine[w]], w)
      => Expected(mine[w]) \subseteq Covered(cand[w])

TableMatchesCurrent ==
  \A u \in Users : \A s \in CurrentSnaps(u) : \A a \in Covered(s.cand) :
    table[u][a] = s.cand.accts[a].status

IndInv ==
  /\ TypeOK
  /\ LocalsMatchPhase
  /\ RunsNotShared
  /\ LockMatchesPhase
  /\ PromoterOwnsJob
  /\ RunStatusMatchesPhase
  /\ CommitGivesUpJob
  /\ PromotedRunsSucceeded
  /\ OneCurrent
  /\ TableMatchesCurrent
  /\ ActiveAccountsShown
  /\ OwnerCoversExpected
=============================================================================
