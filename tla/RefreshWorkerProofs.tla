------------------------ MODULE RefreshWorkerProofs ------------------------
(***************************************************************************)
(* Proofs about RefreshWorker for any number of users, workers, accounts,  *)
(* candidates and runs and any lease: IndInv is inductive, and with it the *)
(* workers implement the jobs table (JobLease) and keep the promise of the *)
(* snapshot ledger (SnapshotLedger).                                       *)
(***************************************************************************)
EXTENDS RefreshWorker, TLAPS

\* The parts of IndInv about the workers' own state, the jobs, the snapshots.
WorkerInv == LocalsMatchPhase /\ RunsNotShared /\ RunStatusMatchesPhase
JobInv == LockMatchesPhase /\ PromoterOwnsJob /\ CommitGivesUpJob
SnapInv ==
  /\ PromotedRunsSucceeded
  /\ OneCurrent
  /\ TableMatchesCurrent
  /\ ActiveAccountsShown

OwnersKept ==
  \A u \in Users, w \in Workers :
    OwnedBy(job'[u], w) <=> OwnedBy(job[u], w)

LEMMA MineIsUser ==
  ASSUME TypeOK, LocalsMatchPhase, NEW w \in Workers, pc[w] # "idle"
  PROVE  mine[w] \in Users
BY DEF TypeOK, LocalsMatchPhase

LEMMA RenewalKeepsOwners ==
  ASSUME TypeOK, NEW v \in Users,
         job' = job \/ job' = [job EXCEPT ![v] = Renewed(@)]
  PROVE  OwnersKept
<1>1. CASE job' = job
  BY <1>1 DEF OwnersKept
<1>2. CASE job' = [job EXCEPT ![v] = Renewed(@)]
  <2>1. SUFFICES ASSUME NEW u \in Users, NEW w \in Workers
                 PROVE  OwnedBy(job'[u], w) <=> OwnedBy(job[u], w)
    BY DEF OwnersKept
  <2>2. job \in [Users -> Rows]
    BY DEF TypeOK
  <2>3. CASE u = v
    BY <1>2, <2>2, <2>3 DEF OwnedBy, Renewed, Rows
  <2>4. CASE u # v
    BY <1>2, <2>2, <2>4
  <2> QED BY <2>3, <2>4
<1> QED BY <1>1, <1>2

LEMMA EnsureLeaseKeepsOwners ==
  ASSUME TypeOK, LocalsMatchPhase, NEW w \in Workers,
         NEW from \in Phases \ {"idle"}, NEW to, EnsureLease(w, from, to)
  PROVE  OwnersKept
BY MineIsUser, RenewalKeepsOwners DEF EnsureLease, LeaseHeld, LeaseGone

LEMMA PromotionKeepsOthers ==
  ASSUME snaps \subseteq Snapshots, NEW w \in Workers, CommitPromotion(w),
         NEW v \in Users, v # mine[w]
  PROVE  CurrentSnaps(v)' = CurrentSnaps(v)
BY DEF CommitPromotion, Superseded, CurrentSnaps, Snapshots

LEMMA ExpectedKept ==
  ASSUME UNCHANGED <<snaps, table>>
  PROVE  \A u \in Users : Expected(u)' = Expected(u)
BY DEF Expected, CurrentSnaps

LEMMA RowTypes ==
  ASSUME NEW row \in Rows
  PROVE  /\ Enqueued(row) \in Rows
         /\ Renewed(row) \in Rows
         /\ Aged(row) \in Rows
         /\ \A w \in Workers : ClaimedBy(w) \in Rows
         /\ \A st \in Statuses : Finished(st) \in Rows
BY LeaseAssumption
  DEF Rows, Statuses, Enqueued, ClaimedBy, Renewed, Aged, Finished, Unowned

LEMMA TypePreserved ==
  ASSUME TypeOK, LocalsMatchPhase, [Next]_vars
  PROVE  TypeOK'
<1> USE BoundAssumption
  DEF TypeOK, Phases, RunStates, jobVars, dataVars, localVars, boundVars
<1>1. ASSUME NEW u \in Users, Request(u) PROVE TypeOK'
  BY <1>1, RowTypes DEF Request
<1>2. ASSUME NEW w \in Workers, NEW u \in Users, Claim(w, u) PROVE TypeOK'
  BY <1>2, RowTypes DEF Claim, Goto
<1>3. ASSUME NEW w \in Workers, EnsureLeaseBeforeRun(w) PROVE TypeOK'
  <2>1. job' \in [Users -> Rows]
    BY <1>3, RowTypes, MineIsUser
      DEF Statuses, EnsureLeaseBeforeRun, EnsureLease, LeaseHeld, LeaseGone,
          Goto
  <2> QED BY <1>3, <2>1
    DEF EnsureLeaseBeforeRun, EnsureLease, LeaseHeld, LeaseGone, Goto
<1>4. ASSUME NEW w \in Workers, NEW r \in RunIds, StartSyncRun(w, r)
      PROVE TypeOK'
  BY <1>4 DEF StartSyncRun, FreshRun, Goto
<1>5. ASSUME NEW w \in Workers, NEW c \in Candidates, ReadAccounts(w, c)
      PROVE TypeOK'
  <2>1. Covered(c) \subseteq Accounts
    BY CandidateAssumption DEF Covered
  <2>2. todo' \in [Workers -> SUBSET Accounts]
    BY <1>5, <2>1 DEF ReadAccounts
  <2> QED BY <1>5, <2>2 DEF ReadAccounts, Goto
<1>6. ASSUME NEW w \in Workers, NEW a \in Accounts, ReadAccount(w, a)
      PROVE TypeOK'
  <2>1. job' \in [Users -> Rows]
    BY <1>6, RowTypes, MineIsUser
      DEF Statuses, ReadAccount, LeaseHeld, LeaseGone, Goto
  <2>2. todo' \in [Workers -> SUBSET Accounts]
    BY <1>6 DEF ReadAccount
  <2> QED BY <1>6, <2>1, <2>2 DEF ReadAccount, LeaseHeld, LeaseGone, Goto
<1>7. ASSUME NEW w \in Workers, EnsureLeaseBeforeQuotes(w) PROVE TypeOK'
  <2>1. job' \in [Users -> Rows]
    BY <1>7, RowTypes, MineIsUser
      DEF Statuses, EnsureLeaseBeforeQuotes, EnsureLease, LeaseHeld,
          LeaseGone, Goto
  <2> QED BY <1>7, <2>1
    DEF EnsureLeaseBeforeQuotes, EnsureLease, LeaseHeld, LeaseGone, Goto
<1>8. ASSUME NEW w \in Workers, BuildPromotion(w) PROVE TypeOK'
  BY <1>8 DEF BuildPromotion, Goto
<1>9. ASSUME NEW w \in Workers, EnsureLeaseBeforePromotion(w) PROVE TypeOK'
  <2>1. job' \in [Users -> Rows]
    BY <1>9, RowTypes, MineIsUser
      DEF Statuses, EnsureLeaseBeforePromotion, EnsureLease, LeaseHeld,
          LeaseGone, Goto
  <2> QED BY <1>9, <2>1
    DEF EnsureLeaseBeforePromotion, EnsureLease, LeaseHeld, LeaseGone, Goto
<1>10. ASSUME NEW w \in Workers, Throw(w) PROVE TypeOK'
  BY <1>10 DEF Throw, Goto
<1>11. ASSUME NEW w \in Workers, BeginPromotion(w) PROVE TypeOK'
  BY <1>11 DEF BeginPromotion, Goto
<1>12. ASSUME NEW w \in Workers, CommitUnchanged(w) PROVE TypeOK'
  <2>1. job' \in [Users -> Rows]
    BY <1>12, RowTypes, MineIsUser
      DEF Statuses, CommitUnchanged, CommitRunAndJob, Unlock, Forget, Goto
  <2> QED BY <1>12, <2>1
    DEF CommitUnchanged, CommitRunAndJob, Unlock, Forget, Goto
<1>13. ASSUME NEW w \in Workers, CommitPromotion(w) PROVE TypeOK'
  <2>1. run[w] \in RunIds /\ cand[w] \in Candidates /\ mine[w] \in Users
    BY <1>13, MineIsUser
    DEF CommitPromotion, LocalsMatchPhase, RunStarted, AccountsRead
  <2>2. job' \in [Users -> Rows]
    BY <1>13, <2>1, RowTypes DEF Statuses, CommitPromotion, CommitRunAndJob
  <2>3. snaps' \subseteq Snapshots
    <3>1. SUFFICES ASSUME NEW t \in snaps' PROVE t \in Snapshots
      OBVIOUS
    <3>2. CASE t \in Superseded(mine[w])
      <4>1. PICK s \in snaps :
              t = IF s.user = mine[w] THEN [s EXCEPT !.isCurrent = FALSE]
                  ELSE s
        BY <3>2 DEF Superseded
      <4>2. s \in Snapshots
        OBVIOUS
      <4>3. [s EXCEPT !.isCurrent = FALSE] \in Snapshots
        BY <4>2 DEF Snapshots
      <4> QED BY <4>1, <4>2, <4>3
    <3>3. CASE t = [run |-> run[w], user |-> mine[w], cand |-> cand[w],
                    isCurrent |-> TRUE]
      BY <2>1, <3>3 DEF Snapshots
    <3> QED BY <1>13, <3>1, <3>2, <3>3 DEF CommitPromotion
  <2>4. \A a \in Covered(cand[w]) :
          cand[w].accts[a].status \in {"active", "closed"}
    BY <2>1, CandidateAssumption DEF Covered, AccountStates
  <2>5. table' \in [Users -> [Accounts -> {"unknown", "active", "closed"}]]
    BY <1>13, <2>1, <2>4 DEF CommitPromotion
  <2> QED BY <1>13, <2>1, <2>2, <2>3, <2>5
    DEF CommitPromotion, CommitRunAndJob, Unlock, Goto
<1>14. ASSUME NEW w \in Workers, RejectStale(w) PROVE TypeOK'
  BY <1>14 DEF RejectStale, Unlock, Goto
<1>15. ASSUME NEW w \in Workers, Rollback(w) PROVE TypeOK'
  BY <1>15 DEF Rollback, Unlock, Goto
<1>16. ASSUME NEW w \in Workers, AfterPromotion(w) PROVE TypeOK'
  BY <1>16 DEF AfterPromotion, Forget, Goto
<1>17. ASSUME NEW w \in Workers, RecordLostRun(w) PROVE TypeOK'
  BY <1>17 DEF RecordLostRun, Forget, Goto
<1>18. ASSUME NEW w \in Workers, CheckStillOwned(w) PROVE TypeOK'
  <2>1. job' \in [Users -> Rows]
    BY <1>18, RowTypes, MineIsUser DEF Statuses, CheckStillOwned, Forget, Goto
  <2> QED BY <1>18, <2>1 DEF CheckStillOwned, Forget, Goto
<1>19. ASSUME NEW w \in Workers, NEW r \in RunIds, RecordFailedRun(w, r)
      PROVE TypeOK'
  BY <1>19 DEF RecordFailedRun, FreshRun, Goto
<1>20. ASSUME NEW w \in Workers, FailJob(w) PROVE TypeOK'
  <2>1. job' \in [Users -> Rows]
    BY <1>20, RowTypes, MineIsUser DEF Statuses, FailJob, Forget, Goto
  <2> QED BY <1>20, <2>1 DEF FailJob, Forget, Goto
<1>21. ASSUME NEW w \in Workers, Heartbeat(w) PROVE TypeOK'
  <2>1. job' \in [Users -> Rows]
    BY <1>21, RowTypes, MineIsUser DEF Statuses, Heartbeat
  <2> QED BY <1>21, <2>1 DEF Heartbeat
<1>22. ASSUME NEW w \in Workers, HeartbeatError(w) PROVE TypeOK'
  BY <1>22 DEF HeartbeatError
<1>23. ASSUME NEW w \in Workers, Crash(w) PROVE TypeOK'
  BY <1>23 DEF Crash, Forget, Goto
<1>24. ASSUME Tick PROVE TypeOK'
  <2>1. job' \in [Users -> Rows]
    BY <1>24, RowTypes, MineIsUser DEF Statuses, Tick
  <2> QED BY <1>24, <2>1 DEF Tick
<1>25. CASE UNCHANGED vars
  BY <1>25 DEF vars
<1> QED BY <1>1, <1>2, <1>3, <1>4, <1>5, <1>6, <1>7, <1>8, <1>9, <1>10, <1>11,
    <1>12, <1>13, <1>14, <1>15, <1>16, <1>17, <1>18, <1>19, <1>20, <1>21,
        <1>22, <1>23, <1>24, <1>25
  DEF Next, Advance, Prepare, PromoteSnapshot, HandleError

LEMMA WorkerPreserved ==
  ASSUME TypeOK, WorkerInv, JobInv, [Next]_vars
  PROVE  WorkerInv'
<1> USE NoCandAssumption, NullAssumption
  DEF TypeOK, WorkerInv, LocalsMatchPhase,
      RunsNotShared, RunStatusMatchesPhase, RunStarted, AccountsRead,
      jobVars, dataVars, localVars, boundVars
<1>1. ASSUME NEW u \in Users, Request(u) PROVE WorkerInv'
  BY <1>1 DEF Request
<1>2. ASSUME NEW w \in Workers, NEW u \in Users, Claim(w, u) PROVE WorkerInv'
  BY <1>2 DEF Claim, Goto
<1>3. ASSUME NEW w \in Workers, EnsureLeaseBeforeRun(w) PROVE WorkerInv'
  BY <1>3 DEF EnsureLeaseBeforeRun, EnsureLease, LeaseHeld, LeaseGone, Goto
<1>4. ASSUME NEW w \in Workers, NEW r \in RunIds, StartSyncRun(w, r)
      PROVE  WorkerInv'
  BY <1>4 DEF StartSyncRun, FreshRun, Goto
<1>5. ASSUME NEW w \in Workers, NEW c \in Candidates, ReadAccounts(w, c)
      PROVE  WorkerInv'
  BY <1>5 DEF ReadAccounts, Goto
<1>6. ASSUME NEW w \in Workers, NEW a \in Accounts, ReadAccount(w, a)
      PROVE  WorkerInv'
  BY <1>6 DEF ReadAccount, LeaseHeld, LeaseGone, Goto
<1>7. ASSUME NEW w \in Workers, EnsureLeaseBeforeQuotes(w) PROVE WorkerInv'
  BY <1>7 DEF EnsureLeaseBeforeQuotes, EnsureLease, LeaseHeld, LeaseGone, Goto
<1>8. ASSUME NEW w \in Workers, BuildPromotion(w) PROVE WorkerInv'
  BY <1>8 DEF BuildPromotion, Goto
<1>9. ASSUME NEW w \in Workers, EnsureLeaseBeforePromotion(w) PROVE WorkerInv'
  BY <1>9
    DEF EnsureLeaseBeforePromotion, EnsureLease, LeaseHeld, LeaseGone, Goto
<1>10. ASSUME NEW w \in Workers, Throw(w) PROVE WorkerInv'
  BY <1>10 DEF Throw, Goto
<1>11. ASSUME NEW w \in Workers, BeginPromotion(w) PROVE WorkerInv'
  BY <1>11 DEF BeginPromotion, Goto
<1>12. ASSUME NEW w \in Workers, CommitUnchanged(w) PROVE WorkerInv'
  <2>1. CASE Forget(w)
    BY <1>12, <2>1 DEF CommitUnchanged, CommitRunAndJob, Unlock, Forget, Goto
  <2>2. CASE Goto(w, "errored") /\ UNCHANGED localVars
    BY <1>12, <2>2 DEF CommitUnchanged, CommitRunAndJob, Unlock, Forget, Goto
  <2> QED BY <1>12, <2>1, <2>2 DEF CommitUnchanged
<1>13. ASSUME NEW w \in Workers, CommitPromotion(w) PROVE WorkerInv'
  BY <1>13 DEF CommitPromotion, CommitRunAndJob, Unlock, Goto
<1>14. ASSUME NEW w \in Workers, RejectStale(w) PROVE WorkerInv'
  BY <1>14 DEF RejectStale, Unlock, Goto
<1>15. ASSUME NEW w \in Workers, Rollback(w) PROVE WorkerInv'
  BY <1>15 DEF Rollback, Unlock, Goto
<1>16. ASSUME NEW w \in Workers, AfterPromotion(w) PROVE WorkerInv'
  <2>1. CASE Forget(w)
    BY <1>16, <2>1 DEF AfterPromotion, Forget, Goto
  <2>2. CASE Goto(w, "errored") /\ UNCHANGED localVars
    BY <1>16, <2>2 DEF AfterPromotion, Forget, Goto
  <2> QED BY <1>16, <2>1, <2>2 DEF AfterPromotion
<1>17. ASSUME NEW w \in Workers, RecordLostRun(w) PROVE WorkerInv'
  BY <1>17 DEF RecordLostRun, Forget, Goto
<1>18. ASSUME NEW w \in Workers, CheckStillOwned(w) PROVE WorkerInv'
  <2>1. CASE LiveFor(job[mine[w]], w)
    <3>1. run[w] # NoRun => runs[run[w]] # "succeeded"
      BY <1>18, <2>1 DEF CheckStillOwned, JobInv, CommitGivesUpJob, LiveFor
    <3> QED BY <1>18, <2>1, <3>1 DEF CheckStillOwned, Goto
  <2>2. CASE ~LiveFor(job[mine[w]], w)
    <3>1. pc[w] = "errored" /\ Forget(w) /\ UNCHANGED <<jobVars, dataVars,
        boundVars>>
      BY <1>18, <2>2 DEF CheckStillOwned
    <3> QED BY <3>1 DEF Forget, Goto
  <2> QED BY <2>1, <2>2
<1>19. ASSUME NEW w \in Workers, NEW r \in RunIds, RecordFailedRun(w, r)
      PROVE  WorkerInv'
  BY <1>19 DEF RecordFailedRun, FreshRun, Goto
<1>20. ASSUME NEW w \in Workers, FailJob(w) PROVE WorkerInv'
  BY <1>20 DEF FailJob, Forget, Goto
<1>21. ASSUME NEW w \in Workers, Heartbeat(w) PROVE WorkerInv'
  BY <1>21 DEF Heartbeat
<1>22. ASSUME NEW w \in Workers, HeartbeatError(w) PROVE WorkerInv'
  BY <1>22 DEF HeartbeatError
<1>23. ASSUME NEW w \in Workers, Crash(w) PROVE WorkerInv'
  BY <1>23 DEF Crash, Forget, Goto
<1>24. ASSUME Tick PROVE WorkerInv'
  BY <1>24 DEF Tick
<1>25. CASE UNCHANGED vars
  BY <1>25 DEF vars
<1> QED
  BY <1>1, <1>2, <1>3, <1>4, <1>5, <1>6, <1>7, <1>8, <1>9, <1>10, <1>11,
     <1>12, <1>13, <1>14, <1>15, <1>16, <1>17, <1>18, <1>19, <1>20, <1>21,
     <1>22, <1>23, <1>24, <1>25
  DEF Next, Advance, Prepare, PromoteSnapshot, HandleError

LEMMA JobPreserved ==
  ASSUME TypeOK, WorkerInv, JobInv, [Next]_vars
  PROVE  JobInv'
<1> USE NoWorkerAssumption, NullAssumption, MineIsUser
    DEF TypeOK, WorkerInv, JobInv, LocalsMatchPhase, RunStatusMatchesPhase,
        RunsNotShared, RunStarted, LockMatchesPhase, PromoterOwnsJob,
        CommitGivesUpJob, Phases, jobVars, dataVars, localVars, boundVars
<1>1. ASSUME NEW u \in Users, Request(u) PROVE JobInv'
  BY <1>1 DEF Request,
          OwnedBy, LiveFor, Claimable, Unlocked, Enqueued, Renewed, Aged,
          ClaimedBy, Finished, Unowned, Rows
<1>2. ASSUME NEW w \in Workers, NEW u \in Users, Claim(w, u) PROVE JobInv'
  BY <1>2 DEF Claim, Goto,
          OwnedBy, LiveFor, Claimable, Unlocked, Enqueued, Renewed, Aged,
          ClaimedBy, Finished, Unowned, Rows
<1>3. ASSUME NEW w \in Workers, EnsureLeaseBeforeRun(w) PROVE JobInv'
  <2>1. OwnersKept
    BY <1>3, EnsureLeaseKeepsOwners DEF EnsureLeaseBeforeRun
  <2>2. UNCHANGED <<lock, runs, localVars>>
    BY <1>3 DEF EnsureLeaseBeforeRun, EnsureLease
  <2>3. pc[w] = "claimed" /\ \E p \in {"starting",
      "lost"} : pc' = [pc EXCEPT ![w] = p]
    BY <1>3 DEF EnsureLeaseBeforeRun, EnsureLease, LeaseHeld, LeaseGone, Goto
  <2> QED BY <2>1, <2>2, <2>3 DEF OwnersKept
<1>4. ASSUME NEW w \in Workers, NEW r \in RunIds, StartSyncRun(w, r)
      PROVE  JobInv'
  BY <1>4 DEF StartSyncRun, FreshRun, Goto, OwnedBy
<1>5. ASSUME NEW w \in Workers, NEW c \in Candidates, ReadAccounts(w, c)
      PROVE  JobInv'
  BY <1>5 DEF ReadAccounts, Goto, OwnedBy
<1>6. ASSUME NEW w \in Workers, NEW a \in Accounts, ReadAccount(w, a)
      PROVE  JobInv'
  <2>1. OwnersKept
    BY <1>6, RenewalKeepsOwners, MineIsUser
      DEF ReadAccount, LeaseHeld, LeaseGone, Goto
  <2>2. UNCHANGED <<lock, runs, mine, run>>
    BY <1>6 DEF ReadAccount
  <2>3. \E p \in {"reading", "lost"} :
          pc' = [pc EXCEPT ![w] = p] /\ pc[w] = "reading"
    BY <1>6 DEF ReadAccount, LeaseHeld, LeaseGone, Goto
  <2> QED BY <2>1, <2>2, <2>3 DEF OwnersKept
<1>7. ASSUME NEW w \in Workers, EnsureLeaseBeforeQuotes(w) PROVE JobInv'
  <2>1. OwnersKept
    BY <1>7, EnsureLeaseKeepsOwners DEF EnsureLeaseBeforeQuotes
  <2>2. UNCHANGED <<lock, runs, localVars>>
    BY <1>7 DEF EnsureLeaseBeforeQuotes, EnsureLease
  <2>3. pc[w] = "reading" /\ \E p \in {"valuing",
      "lost"} : pc' = [pc EXCEPT ![w] = p]
    BY <1>7
      DEF EnsureLeaseBeforeQuotes, EnsureLease, LeaseHeld, LeaseGone, Goto
  <2> QED BY <2>1, <2>2, <2>3 DEF OwnersKept
<1>8. ASSUME NEW w \in Workers, BuildPromotion(w) PROVE JobInv'
  BY <1>8 DEF BuildPromotion, Goto, OwnedBy
<1>9. ASSUME NEW w \in Workers, EnsureLeaseBeforePromotion(w) PROVE JobInv'
  <2>1. OwnersKept
    BY <1>9, EnsureLeaseKeepsOwners DEF EnsureLeaseBeforePromotion
  <2>2. UNCHANGED <<lock, runs, localVars>>
    BY <1>9 DEF EnsureLeaseBeforePromotion, EnsureLease
  <2>3. pc[w] = "built" /\ \E p \in {"ready",
      "lost"} : pc' = [pc EXCEPT ![w] = p]
    BY <1>9
      DEF EnsureLeaseBeforePromotion, EnsureLease, LeaseHeld, LeaseGone, Goto
  <2> QED BY <2>1, <2>2, <2>3 DEF OwnersKept
<1>10. ASSUME NEW w \in Workers, Throw(w) PROVE JobInv'
  BY <1>10 DEF Throw, Goto, OwnedBy
<1>11. ASSUME NEW w \in Workers, BeginPromotion(w) PROVE JobInv'
  BY <1>11 DEF BeginPromotion, Goto,
          OwnedBy, LiveFor, Claimable, Unlocked, Enqueued, Renewed, Aged,
          ClaimedBy, Finished, Unowned, Rows
<1>12. ASSUME NEW w \in Workers, CommitUnchanged(w) PROVE JobInv'
  <2>1. CASE Forget(w)
    BY <1>12, <2>1
      DEF CommitUnchanged, CommitRunAndJob, Unlock, Forget, Goto, OwnedBy,
          LiveFor, Claimable, Unlocked, Enqueued, Renewed, Aged,
          ClaimedBy, Finished, Unowned, Rows
  <2>2. CASE Goto(w, "errored") /\ UNCHANGED localVars
    BY <1>12, <2>2
      DEF CommitUnchanged, CommitRunAndJob, Unlock, Goto, OwnedBy, LiveFor,
          Claimable, Unlocked, Enqueued, Renewed, Aged,
          ClaimedBy, Finished, Unowned, Rows
  <2> QED BY <1>12, <2>1, <2>2 DEF CommitUnchanged
<1>13. ASSUME NEW w \in Workers, CommitPromotion(w) PROVE JobInv'
  BY <1>13 DEF CommitPromotion, CommitRunAndJob, Unlock, Goto,
          OwnedBy, LiveFor, Claimable, Unlocked, Enqueued, Renewed, Aged,
          ClaimedBy, Finished, Unowned, Rows
<1>14. ASSUME NEW w \in Workers, RejectStale(w) PROVE JobInv'
  BY <1>14 DEF RejectStale, Unlock, Goto,
          OwnedBy, LiveFor, Claimable, Unlocked, Enqueued, Renewed, Aged,
          ClaimedBy, Finished, Unowned, Rows
<1>15. ASSUME NEW w \in Workers, Rollback(w) PROVE JobInv'
  BY <1>15 DEF Rollback, Unlock, Goto,
          OwnedBy, LiveFor, Claimable, Unlocked, Enqueued, Renewed, Aged,
          ClaimedBy, Finished, Unowned, Rows
<1>16. ASSUME NEW w \in Workers, AfterPromotion(w) PROVE JobInv'
  <2>1. CASE Forget(w)
    BY <1>16, <2>1 DEF AfterPromotion, Forget, Goto
  <2>2. CASE Goto(w, "errored") /\ UNCHANGED localVars
    BY <1>16, <2>2 DEF AfterPromotion, Goto
  <2> QED BY <1>16, <2>1, <2>2 DEF AfterPromotion
<1>17. ASSUME NEW w \in Workers, RecordLostRun(w) PROVE JobInv'
  BY <1>17 DEF RecordLostRun, Forget, Goto, OwnedBy
<1>18. ASSUME NEW w \in Workers, CheckStillOwned(w) PROVE JobInv'
  <2>1. OwnersKept
    BY <1>18, RenewalKeepsOwners, MineIsUser DEF CheckStillOwned, Forget, Goto
  <2>2. CASE LiveFor(job[mine[w]], w)
    BY <1>18, <2>1, <2>2 DEF CheckStillOwned, Goto, OwnersKept
  <2>3. CASE ~LiveFor(job[mine[w]], w)
    <3>1. pc[w] = "errored" /\ Forget(w) /\ UNCHANGED <<jobVars, dataVars,
        boundVars>>
      BY <1>18, <2>3 DEF CheckStillOwned
    <3> QED BY <3>1 DEF Forget, Goto, OwnedBy
  <2> QED BY <2>2, <2>3
<1>19. ASSUME NEW w \in Workers, NEW r \in RunIds, RecordFailedRun(w, r)
      PROVE  JobInv'
  BY <1>19 DEF RecordFailedRun, FreshRun, Goto, OwnedBy
<1>20. ASSUME NEW w \in Workers, FailJob(w) PROVE JobInv'
  BY <1>20 DEF FailJob, Forget, Goto,
          OwnedBy, LiveFor, Claimable, Unlocked, Enqueued, Renewed, Aged,
          ClaimedBy, Finished, Unowned, Rows
<1>21. ASSUME NEW w \in Workers, Heartbeat(w) PROVE JobInv'
  <2>1. OwnersKept
    BY <1>21, RenewalKeepsOwners, MineIsUser DEF Heartbeat
  <2> QED BY <1>21, <2>1 DEF Heartbeat, OwnersKept
<1>22. ASSUME NEW w \in Workers, HeartbeatError(w) PROVE JobInv'
  BY <1>22 DEF HeartbeatError, OwnedBy
<1>23. ASSUME NEW w \in Workers, Crash(w) PROVE JobInv'
  BY <1>23 DEF Crash, Forget, Goto,
          OwnedBy, LiveFor, Claimable, Unlocked, Enqueued, Renewed, Aged,
          ClaimedBy, Finished, Unowned, Rows
<1>24. ASSUME Tick PROVE JobInv'
  BY <1>24 DEF Tick,
          OwnedBy, LiveFor, Claimable, Unlocked, Enqueued, Renewed, Aged,
          ClaimedBy, Finished, Unowned, Rows
<1>25. CASE UNCHANGED vars
  BY <1>25 DEF vars, OwnedBy
<1> QED
  BY <1>1, <1>2, <1>3, <1>4, <1>5, <1>6, <1>7, <1>8, <1>9, <1>10, <1>11,
     <1>12, <1>13, <1>14, <1>15, <1>16, <1>17, <1>18, <1>19, <1>20, <1>21,
     <1>22, <1>23, <1>24, <1>25
  DEF Next, Advance, Prepare, PromoteSnapshot, HandleError

LEMMA OwnerPreserved ==
  ASSUME TypeOK, WorkerInv, JobInv,
         OwnerCoversExpected, [Next]_vars
  PROVE  OwnerCoversExpected'
<1> USE NoWorkerAssumption, NullAssumption, MineIsUser
    DEF TypeOK, WorkerInv, JobInv, LocalsMatchPhase, AccountsRead,
        LockMatchesPhase, PromoterOwnsJob, OwnerCoversExpected, Phases,
        jobVars, dataVars, localVars, boundVars
<1>1. ASSUME NEW u \in Users, Request(u) PROVE OwnerCoversExpected'
  <2>1. \A v \in Users : Expected(v)' = Expected(v)
    BY <1>1, ExpectedKept DEF Request
  <2> QED BY <1>1, <2>1 DEF Request,
          OwnedBy, LiveFor, Claimable, Unlocked, Enqueued, Renewed, Aged,
          ClaimedBy, Finished, Unowned, Rows
<1>2. ASSUME NEW w \in Workers, NEW u \in Users, Claim(w, u)
      PROVE  OwnerCoversExpected'
  <2>1. \A v \in Users : Expected(v)' = Expected(v)
    BY <1>2, ExpectedKept DEF Claim, Goto
  <2> QED BY <1>2, <2>1 DEF Claim, Goto,
          OwnedBy, LiveFor, Claimable, Unlocked, Enqueued, Renewed, Aged,
          ClaimedBy, Finished, Unowned, Rows
<1>3. ASSUME NEW w \in Workers, EnsureLeaseBeforeRun(w)
      PROVE  OwnerCoversExpected'
  <2>1. \A u \in Users : Expected(u)' = Expected(u)
    BY <1>3, ExpectedKept
      DEF EnsureLeaseBeforeRun, EnsureLease, LeaseHeld, LeaseGone, Goto
  <2>2. OwnersKept
    BY <1>3, EnsureLeaseKeepsOwners DEF EnsureLeaseBeforeRun
  <2>3. UNCHANGED <<lock, localVars>>
    BY <1>3 DEF EnsureLeaseBeforeRun, EnsureLease
  <2>4. pc[w] = "claimed" /\ \E p \in {"starting",
      "lost"} : pc' = [pc EXCEPT ![w] = p]
    BY <1>3 DEF EnsureLeaseBeforeRun, EnsureLease, LeaseHeld, LeaseGone, Goto
  <2> QED BY <2>1, <2>2, <2>3, <2>4 DEF OwnersKept
<1>4. ASSUME NEW w \in Workers, NEW r \in RunIds, StartSyncRun(w, r)
      PROVE  OwnerCoversExpected'
  <2>1. \A u \in Users : Expected(u)' = Expected(u)
    BY <1>4, ExpectedKept DEF StartSyncRun, FreshRun, Goto
  <2> QED BY <1>4, <2>1 DEF StartSyncRun, FreshRun, Goto
<1>5. ASSUME NEW w \in Workers, NEW c \in Candidates, ReadAccounts(w, c)
      PROVE  OwnerCoversExpected'
  <2>1. \A u \in Users : Expected(u)' = Expected(u)
    BY <1>5, ExpectedKept DEF ReadAccounts, Goto
  <2> QED BY <1>5, <2>1 DEF ReadAccounts, Goto
<1>6. ASSUME NEW w \in Workers, NEW a \in Accounts, ReadAccount(w, a)
      PROVE  OwnerCoversExpected'
  <2>1. \A u \in Users : Expected(u)' = Expected(u)
    BY <1>6, ExpectedKept DEF ReadAccount, LeaseHeld, LeaseGone, Goto
  <2>2. OwnersKept
    BY <1>6, RenewalKeepsOwners, MineIsUser
      DEF ReadAccount, LeaseHeld, LeaseGone, Goto
  <2>3. UNCHANGED <<lock, mine, cand>>
    BY <1>6 DEF ReadAccount
  <2>4. pc[w] = "reading" /\ \E p \in {"reading",
      "lost"} : pc' = [pc EXCEPT ![w] = p]
    BY <1>6 DEF ReadAccount, LeaseHeld, LeaseGone, Goto
  <2> QED BY <2>1, <2>2, <2>3, <2>4 DEF OwnersKept
<1>7. ASSUME NEW w \in Workers, EnsureLeaseBeforeQuotes(w)
      PROVE  OwnerCoversExpected'
  <2>1. \A u \in Users : Expected(u)' = Expected(u)
    BY <1>7, ExpectedKept
      DEF EnsureLeaseBeforeQuotes, EnsureLease, LeaseHeld, LeaseGone, Goto
  <2>2. OwnersKept
    BY <1>7, EnsureLeaseKeepsOwners DEF EnsureLeaseBeforeQuotes
  <2>3. UNCHANGED <<lock, localVars>>
    BY <1>7 DEF EnsureLeaseBeforeQuotes, EnsureLease
  <2>4. pc[w] = "reading" /\ \E p \in {"valuing",
      "lost"} : pc' = [pc EXCEPT ![w] = p]
    BY <1>7
      DEF EnsureLeaseBeforeQuotes, EnsureLease, LeaseHeld, LeaseGone, Goto
  <2> QED BY <2>1, <2>2, <2>3, <2>4 DEF OwnersKept
<1>8. ASSUME NEW w \in Workers, BuildPromotion(w) PROVE OwnerCoversExpected'
  <2>1. \A u \in Users : Expected(u)' = Expected(u)
    BY <1>8, ExpectedKept DEF BuildPromotion, Goto
  <2> QED BY <1>8, <2>1 DEF BuildPromotion, Goto
<1>9. ASSUME NEW w \in Workers, EnsureLeaseBeforePromotion(w)
      PROVE  OwnerCoversExpected'
  <2>1. \A u \in Users : Expected(u)' = Expected(u)
    BY <1>9, ExpectedKept
      DEF EnsureLeaseBeforePromotion, EnsureLease, LeaseHeld, LeaseGone, Goto
  <2>2. OwnersKept
    BY <1>9, EnsureLeaseKeepsOwners DEF EnsureLeaseBeforePromotion
  <2>3. UNCHANGED <<lock, localVars>>
    BY <1>9 DEF EnsureLeaseBeforePromotion, EnsureLease
  <2>4. pc[w] = "built" /\ \E p \in {"ready",
      "lost"} : pc' = [pc EXCEPT ![w] = p]
    BY <1>9
      DEF EnsureLeaseBeforePromotion, EnsureLease, LeaseHeld, LeaseGone, Goto
  <2> QED BY <2>1, <2>2, <2>3, <2>4 DEF OwnersKept
<1>10. ASSUME NEW w \in Workers, Throw(w) PROVE OwnerCoversExpected'
  <2>1. \A u \in Users : Expected(u)' = Expected(u)
    BY <1>10, ExpectedKept DEF Throw, Goto
  <2> QED BY <1>10, <2>1 DEF Throw, Goto
<1>11. ASSUME NEW w \in Workers, BeginPromotion(w) PROVE OwnerCoversExpected'
  <2>1. \A u \in Users : Expected(u)' = Expected(u)
    BY <1>11, ExpectedKept DEF BeginPromotion, Goto
  <2>2. UNCHANGED <<job, localVars>>
    BY <1>11 DEF BeginPromotion
  <2>3. pc[w] = "ready" /\ \E p \in Phases : pc' = [pc EXCEPT ![w] = p]
    BY <1>11 DEF BeginPromotion, Goto
  <2> QED BY <2>1, <2>2, <2>3 DEF OwnedBy
<1>12. ASSUME NEW w \in Workers, CommitUnchanged(w) PROVE OwnerCoversExpected'
  <2>1. \A u \in Users : Expected(u)' = Expected(u)
    BY <1>12, ExpectedKept
      DEF CommitUnchanged, CommitRunAndJob, Unlock, Forget, Goto
  <2> QED BY <1>12, <2>1
    DEF CommitUnchanged, CommitRunAndJob, Unlock, Forget, Goto,
          OwnedBy, LiveFor, Claimable, Unlocked, Enqueued, Renewed, Aged,
          ClaimedBy, Finished, Unowned, Rows
<1>13. ASSUME NEW w \in Workers, CommitPromotion(w) PROVE OwnerCoversExpected'
  <2> DEFINE u == mine[w]
  <2>1. u \in Users /\ OwnedBy(job[u], w) /\ ~OwnedBy(job'[u], w)
    BY <1>13
      DEF CommitPromotion, CommitRunAndJob, Unlock, Goto, OwnedBy, Finished,
          Unowned
  <2>2. \A v \in Users \ {u} : Expected(v)' = Expected(v)
    <3>1. SUFFICES ASSUME NEW v \in Users, v # u
                   PROVE  Expected(v)' = Expected(v)
      OBVIOUS
    <3>2. CurrentSnaps(v)' = CurrentSnaps(v)
      BY <1>13, <3>1, PromotionKeepsOthers DEF TypeOK
    <3>3. \A a \in Accounts : table'[v][a] = table[v][a]
      BY <1>13, <3>1 DEF CommitPromotion
    <3> QED BY <3>2, <3>3 DEF Expected
  <2>3. SUFFICES ASSUME NEW x \in Workers, pc'[x] \in AccountsRead,
                        OwnedBy(job'[mine'[x]], x)
                 PROVE  Expected(mine[x])' \subseteq Covered(cand'[x])
    BY DEF OwnerCoversExpected
  <2>4. x # w /\ mine'[x] = mine[x] /\ cand'[x] = cand[x] /\ pc'[x] = pc[x]
    BY <1>13, <2>3 DEF CommitPromotion, CommitRunAndJob, Unlock, Goto
  <2>5. mine[x] # u
    BY <1>13, <2>1, <2>3, <2>4
      DEF CommitPromotion, CommitRunAndJob, Unlock, Goto, OwnedBy, Finished,
          Unowned
  <2>6. OwnedBy(job[mine[x]], x) /\ mine[x] \in Users
    BY <1>13, <2>1, <2>3, <2>4, <2>5
      DEF CommitPromotion, CommitRunAndJob, Unlock, Goto
  <2> QED BY <2>2, <2>3, <2>4, <2>5, <2>6
<1>14. ASSUME NEW w \in Workers, RejectStale(w) PROVE OwnerCoversExpected'
  <2>1. \A u \in Users : Expected(u)' = Expected(u)
    BY <1>14, ExpectedKept DEF RejectStale, Unlock, Goto
  <2> QED BY <1>14, <2>1 DEF RejectStale, Unlock, Goto
<1>15. ASSUME NEW w \in Workers, Rollback(w) PROVE OwnerCoversExpected'
  <2>1. \A u \in Users : Expected(u)' = Expected(u)
    BY <1>15, ExpectedKept DEF Rollback, Unlock, Goto
  <2> QED BY <1>15, <2>1 DEF Rollback, Unlock, Goto
<1>16. ASSUME NEW w \in Workers, AfterPromotion(w) PROVE OwnerCoversExpected'
  <2>1. \A u \in Users : Expected(u)' = Expected(u)
    BY <1>16, ExpectedKept DEF AfterPromotion, Forget, Goto
  <2>2. CASE Forget(w)
    BY <1>16, <2>1, <2>2 DEF AfterPromotion, Forget, Goto
  <2>3. CASE Goto(w, "errored") /\ UNCHANGED localVars
    BY <1>16, <2>1, <2>3 DEF AfterPromotion, Goto
  <2> QED BY <1>16, <2>2, <2>3 DEF AfterPromotion
<1>17. ASSUME NEW w \in Workers, RecordLostRun(w) PROVE OwnerCoversExpected'
  <2>1. \A u \in Users : Expected(u)' = Expected(u)
    BY <1>17, ExpectedKept DEF RecordLostRun, Forget, Goto
  <2> QED BY <1>17, <2>1 DEF RecordLostRun, Forget, Goto
<1>18. ASSUME NEW w \in Workers, CheckStillOwned(w) PROVE OwnerCoversExpected'
  <2>1. \A u \in Users : Expected(u)' = Expected(u)
    BY <1>18, ExpectedKept DEF CheckStillOwned, Forget, Goto
  <2>2. OwnersKept
    BY <1>18, RenewalKeepsOwners, MineIsUser DEF CheckStillOwned, Forget, Goto
  <2>3. CASE LiveFor(job[mine[w]], w)
    BY <1>18, <2>1, <2>2, <2>3 DEF CheckStillOwned, Goto, OwnersKept
  <2>4. CASE ~LiveFor(job[mine[w]], w)
    <3>1. pc[w] = "errored" /\ Forget(w) /\ UNCHANGED <<jobVars, dataVars,
        boundVars>>
      BY <1>18, <2>4 DEF CheckStillOwned
    <3> QED BY <2>1, <3>1 DEF Forget, Goto
  <2> QED BY <2>3, <2>4
<1>19. ASSUME NEW w \in Workers, NEW r \in RunIds, RecordFailedRun(w, r)
      PROVE  OwnerCoversExpected'
  <2>1. \A u \in Users : Expected(u)' = Expected(u)
    BY <1>19, ExpectedKept DEF RecordFailedRun, FreshRun, Goto
  <2> QED BY <1>19, <2>1 DEF RecordFailedRun, FreshRun, Goto
<1>20. ASSUME NEW w \in Workers, FailJob(w) PROVE OwnerCoversExpected'
  <2>1. \A u \in Users : Expected(u)' = Expected(u)
    BY <1>20, ExpectedKept DEF FailJob, Forget, Goto
  <2> QED BY <1>20, <2>1 DEF FailJob, Forget, Goto,
          OwnedBy, LiveFor, Claimable, Unlocked, Enqueued, Renewed, Aged,
          ClaimedBy, Finished, Unowned, Rows
<1>21. ASSUME NEW w \in Workers, Heartbeat(w) PROVE OwnerCoversExpected'
  <2>1. \A u \in Users : Expected(u)' = Expected(u)
    BY <1>21, ExpectedKept DEF Heartbeat
  <2>2. OwnersKept
    BY <1>21, RenewalKeepsOwners, MineIsUser DEF Heartbeat
  <2> QED BY <1>21, <2>1, <2>2 DEF Heartbeat, OwnersKept
<1>22. ASSUME NEW w \in Workers, HeartbeatError(w) PROVE OwnerCoversExpected'
  <2>1. \A u \in Users : Expected(u)' = Expected(u)
    BY <1>22, ExpectedKept DEF HeartbeatError
  <2> QED BY <1>22, <2>1 DEF HeartbeatError
<1>23. ASSUME NEW w \in Workers, Crash(w) PROVE OwnerCoversExpected'
  <2>1. \A u \in Users : Expected(u)' = Expected(u)
    BY <1>23, ExpectedKept DEF Crash, Forget, Goto
  <2> QED BY <1>23, <2>1 DEF Crash, Forget, Goto
<1>24. ASSUME Tick PROVE OwnerCoversExpected'
  <2>1. \A u \in Users : Expected(u)' = Expected(u)
    BY <1>24, ExpectedKept DEF Tick
  <2> QED BY <1>24, <2>1 DEF Tick,
          OwnedBy, LiveFor, Claimable, Unlocked, Enqueued, Renewed, Aged,
          ClaimedBy, Finished, Unowned, Rows
<1>25. CASE UNCHANGED vars
  BY <1>25, ExpectedKept DEF vars
<1> QED
  BY <1>1, <1>2, <1>3, <1>4, <1>5, <1>6, <1>7, <1>8, <1>9, <1>10, <1>11,
     <1>12, <1>13, <1>14, <1>15, <1>16, <1>17, <1>18, <1>19, <1>20, <1>21,
     <1>22, <1>23, <1>24, <1>25
  DEF Next, Advance, Prepare, PromoteSnapshot, HandleError

(***************************************************************************)
(* Only two kinds of step matter to the snapshots: those that settle a run *)
(* and the promotion itself.                                               *)
(***************************************************************************)
LEMMA OutcomesKept ==
  ASSUME TypeOK, WorkerInv, [Next]_vars,
         NEW r \in RunIds, runs[r] \in {"succeeded", "failed"}
  PROVE  runs'[r] = runs[r]
<1>1. CASE UNCHANGED runs
  BY <1>1
<1>2. ASSUME NEW w \in Workers, NEW s \in RunIds, StartSyncRun(w, s)
      PROVE  runs'[r] = runs[r]
  BY <1>2 DEF TypeOK, StartSyncRun, FreshRun
<1>3. ASSUME NEW w \in Workers, CommitUnchanged(w) \/ CommitPromotion(w)
      PROVE  runs'[r] = runs[r]
  <2>1. run[w] # r
    BY <1>3 DEF WorkerInv, LocalsMatchPhase, RunStatusMatchesPhase, RunStarted,
                CommitUnchanged, CommitPromotion
  <2> QED BY <1>3, <2>1
    DEF TypeOK, CommitUnchanged, CommitPromotion, CommitRunAndJob
<1>4. ASSUME NEW w \in Workers, RecordLostRun(w)
      PROVE  runs'[r] = runs[r]
  BY <1>4
  DEF TypeOK, WorkerInv, RunStatusMatchesPhase, RunStarted, RecordLostRun
<1>5. ASSUME NEW w \in Workers, NEW s \in RunIds, RecordFailedRun(w, s)
      PROVE  runs'[r] = runs[r]
  BY <1>5
  DEF TypeOK, WorkerInv, RunStatusMatchesPhase, RecordFailedRun, FreshRun
<1> QED
  BY <1>1, <1>2, <1>3, <1>4, <1>5
  DEF Next, Advance, Prepare, PromoteSnapshot, HandleError, vars, dataVars,
      Request, Claim, EnsureLeaseBeforeRun, EnsureLeaseBeforeQuotes,
      EnsureLeaseBeforePromotion, EnsureLease, ReadAccounts, ReadAccount,
      BuildPromotion, Throw, BeginPromotion, RejectStale, Rollback,
      AfterPromotion, CheckStillOwned, FailJob, Heartbeat, HeartbeatError,
      Crash, Tick

LEMMA OnlyPromotionTouchesSnaps ==
  ASSUME [Next]_vars, ~ \E w \in Workers : CommitPromotion(w)
  PROVE  UNCHANGED <<snaps, table>>
BY DEF Next, Advance, Prepare, PromoteSnapshot, HandleError, vars, dataVars,
       Request, Claim, EnsureLeaseBeforeRun, EnsureLeaseBeforeQuotes,
       EnsureLeaseBeforePromotion, EnsureLease, StartSyncRun, ReadAccounts,
       ReadAccount, BuildPromotion, Throw, BeginPromotion, CommitUnchanged,
       RejectStale, Rollback, AfterPromotion, RecordLostRun, CheckStillOwned,
       RecordFailedRun, FailJob, Heartbeat, HeartbeatError, Crash, Tick

\* A promotion leaves its user with the new snapshot as the only current one.
LEMMA PromotionReplacesCurrent ==
  ASSUME TypeOK, LocalsMatchPhase, NEW w \in Workers, CommitPromotion(w),
         NEW u \in Users, mine[w] = u
  PROVE  LET new == [run |-> run[w], user |-> u, cand |-> cand[w],
                     isCurrent |-> TRUE]
         IN  new \in Snapshots /\ CurrentSnaps(u)' = {new}
<1>1. run[w] \in RunIds /\ cand[w] \in Candidates
  BY DEF CommitPromotion, TypeOK, LocalsMatchPhase, RunStarted, AccountsRead
<1>2. \A s \in Superseded(u) : ~(s.user = u /\ s.isCurrent)
  BY DEF TypeOK, Superseded, Snapshots
<1> QED BY <1>1, <1>2 DEF CommitPromotion, CurrentSnaps, Snapshots

\* The candidate that is promoted covers what is expected at that moment.
LEMMA PromoterCoversExpected ==
  ASSUME JobInv, OwnerCoversExpected, NEW w \in Workers, NEW u \in Users,
         mine[w] = u, CommitPromotion(w)
  PROVE  Expected(u) \subseteq Covered(cand[w])
<1>1. pc[w] = "promoting"
  BY DEF CommitPromotion
<1>2. lock[u] = w
  BY <1>1 DEF JobInv, LockMatchesPhase
<1>3. OwnedBy(job[u], w)
  BY <1>2, NoWorkerAssumption DEF JobInv, PromoterOwnsJob
<1> QED BY <1>1, <1>3 DEF OwnerCoversExpected, AccountsRead

LEMMA SnapPreserved ==
  ASSUME TypeOK, WorkerInv, JobInv, SnapInv, OwnerCoversExpected, [Next]_vars
  PROVE  SnapInv'
<1>1. CASE ~ \E w \in Workers : CommitPromotion(w)
  <2>1. UNCHANGED <<snaps, table>>
    BY <1>1, OnlyPromotionTouchesSnaps
  <2>2. \A s \in snaps : runs'[s.run] = "succeeded"
    BY OutcomesKept DEF SnapInv, PromotedRunsSucceeded, TypeOK, Snapshots
  <2> QED BY <2>1, <2>2
    DEF SnapInv, PromotedRunsSucceeded, OneCurrent, TableMatchesCurrent,
        ActiveAccountsShown, CurrentSnaps
<1>2. ASSUME NEW w \in Workers, CommitPromotion(w),
             NEW u \in Users, mine[w] = u
      PROVE  SnapInv'
  <2> DEFINE c == cand[w]
             new == [run |-> run[w], user |-> u, cand |-> c,
                     isCurrent |-> TRUE]
  <2>1. new \in Snapshots /\ CurrentSnaps(u)' = {new}
    BY <1>2, PromotionReplacesCurrent DEF WorkerInv
  <2>2. \A v \in Users \ {u} : CurrentSnaps(v)' = CurrentSnaps(v)
    BY <1>2, PromotionKeepsOthers DEF TypeOK
  <2>3. snaps' = Superseded(u) \cup {new}
    BY <1>2 DEF CommitPromotion
  <2>4. table' = [table EXCEPT ![u] =
          [a \in Accounts |-> IF a \in Covered(c) THEN c.accts[a].status
                              ELSE table[u][a]]]
    BY <1>2, <2>1 DEF CommitPromotion, TypeOK
  <2>5. c \in Candidates /\ Covered(c) \subseteq Accounts
    BY <2>1, CandidateAssumption DEF Snapshots, Covered
  <2>6. PromotedRunsSucceeded'
    <3>1. SUFFICES ASSUME NEW s \in snaps' PROVE runs'[s.run] = "succeeded"
      BY DEF PromotedRunsSucceeded
    <3>2. CASE s = new
      BY <1>2, <2>1, <3>2
      DEF CommitPromotion, CommitRunAndJob, TypeOK, Snapshots
    <3>3. CASE s \in Superseded(u)
      <4>1. PICK t \in snaps : t.run = s.run
        BY <3>3 DEF Superseded, TypeOK, Snapshots
      <4>2. runs[t.run] = "succeeded" /\ t.run \in RunIds
        BY DEF SnapInv, PromotedRunsSucceeded, TypeOK, Snapshots
      <4> QED BY <4>1, <4>2, OutcomesKept
    <3> QED BY <2>3, <3>2, <3>3
  <2>7. OneCurrent'
    <3>1. SUFFICES ASSUME NEW v \in Users
                   PROVE  /\ \A s, t \in CurrentSnaps(v)' : s = t
                          /\ (\E s \in snaps' : s.user = v)
                               => CurrentSnaps(v)' # {}
      BY DEF OneCurrent
    <3>2. CASE v = u
      BY <2>1, <3>2
    <3>3. CASE v # u
      <4>1. (\E s \in snaps' : s.user = v) => \E s \in snaps : s.user = v
        BY <2>3, <3>3 DEF Superseded, TypeOK, Snapshots
      <4> QED BY <2>2, <3>3, <4>1 DEF SnapInv, OneCurrent
    <3> QED BY <3>2, <3>3
  <2>8. TableMatchesCurrent'
    <3>1. SUFFICES ASSUME NEW v \in Users, NEW s \in CurrentSnaps(v)',
                          NEW a \in Covered(s.cand)
                   PROVE  table'[v][a] = s.cand.accts[a].status
      BY DEF TableMatchesCurrent, Covered
    <3>2. CASE v = u
      BY <2>1, <2>4, <2>5, <3>1, <3>2 DEF TypeOK
    <3>3. CASE v # u
      BY <2>2, <2>4, <3>1, <3>3 DEF SnapInv, TableMatchesCurrent, TypeOK
    <3> QED BY <3>2, <3>3
  <2>9. ActiveAccountsShown'
    <3>1. SUFFICES ASSUME NEW v \in Users, NEW a \in Accounts,
                          table'[v][a] = "active"
                   PROVE  \E s \in CurrentSnaps(v)' : a \in Covered(s.cand)
      BY DEF ActiveAccountsShown, Covered
    <3>2. CASE v = u
      <4>1. Expected(u) \subseteq Covered(c)
        BY <1>2, PromoterCoversExpected
      <4>2. a \in Covered(c)
        BY <2>1, <2>4, <3>1, <3>2, <4>1 DEF Expected, TypeOK
      <4> QED BY <2>1, <3>2, <4>2
    <3>3. CASE v # u
      BY <2>2, <2>4, <3>1, <3>3 DEF SnapInv, ActiveAccountsShown, TypeOK
    <3> QED BY <3>2, <3>3
  <2> QED BY <2>6, <2>7, <2>8, <2>9 DEF SnapInv
<1>3. \A w \in Workers : CommitPromotion(w) => mine[w] \in Users
  BY MineIsUser DEF WorkerInv, CommitPromotion
<1> QED BY <1>1, <1>2, <1>3

(***************************************************************************)
(* The inductive invariant and what follows from it.                       *)
(***************************************************************************)
LEMMA Initially == Init => IndInv
<1> SUFFICES ASSUME Init PROVE IndInv
  OBVIOUS
<1> USE DEF Init
<1>1. TypeOK
  BY LeaseAssumption, BoundAssumption
  DEF TypeOK, Rows, Statuses, Unowned, RunStates, Phases, Snapshots
<1>2. LocalsMatchPhase /\ RunsNotShared /\ RunStatusMatchesPhase
  BY DEF LocalsMatchPhase, RunsNotShared, RunStatusMatchesPhase, RunStarted,
         AccountsRead
<1>3. LockMatchesPhase /\ PromoterOwnsJob /\ CommitGivesUpJob
  BY NoWorkerAssumption DEF LockMatchesPhase, PromoterOwnsJob, CommitGivesUpJob
<1>4. PromotedRunsSucceeded /\ OneCurrent /\ TableMatchesCurrent
        /\ ActiveAccountsShown
  BY DEF PromotedRunsSucceeded, OneCurrent, TableMatchesCurrent,
         ActiveAccountsShown, CurrentSnaps
<1>5. OwnerCoversExpected
  BY DEF OwnerCoversExpected, AccountsRead
<1> QED BY <1>1, <1>2, <1>3, <1>4, <1>5 DEF IndInv

LEMMA Inductive == IndInv /\ [Next]_vars => IndInv'
<1> SUFFICES ASSUME IndInv, [Next]_vars PROVE IndInv'
  OBVIOUS
<1>1. TypeOK /\ LocalsMatchPhase /\ WorkerInv /\ JobInv /\ SnapInv
        /\ OwnerCoversExpected
  BY DEF IndInv, WorkerInv, JobInv, SnapInv
<1>2. TypeOK'
  BY <1>1, TypePreserved
<1>3. WorkerInv'
  BY <1>1, WorkerPreserved
<1>4. JobInv'
  BY <1>1, JobPreserved
<1>5. OwnerCoversExpected'
  BY <1>1, OwnerPreserved
<1>6. SnapInv'
  BY <1>1, SnapPreserved
<1> QED BY <1>2, <1>3, <1>4, <1>5, <1>6 DEF IndInv, WorkerInv, JobInv, SnapInv

\* The invariant is inductive: it holds in every state of every execution of
\* any number of workers, with crashes, stalls and lost answers.
THEOREM Invariance == Spec => []IndInv
<1>1. Init => IndInv
  BY Initially
<1>2. IndInv /\ [Next]_vars => IndInv'
  BY Inductive
<1> QED BY <1>1, <1>2, PTL DEF Spec

\* The variables keep their types.
THEOREM TypeCorrectness == Spec => []TypeOK
<1>1. IndInv => TypeOK
  BY DEF IndInv
<1> QED BY <1>1, Invariance, PTL

\* Every user with snapshots always has exactly one current snapshot, and the
\* run behind each snapshot is and stays recorded as succeeded.
THEOREM SnapshotsSound == Spec => [](OneCurrent /\ PromotedRunsSucceeded)
<1>1. IndInv => OneCurrent /\ PromotedRunsSucceeded
  BY DEF IndInv
<1> QED BY <1>1, Invariance, PTL

\* Inside the promotion transaction a worker owns the job it completes.
THEOREM PromotionFenced == Spec => []PromoterOwnsJob
<1>1. IndInv => PromoterOwnsJob
  BY DEF IndInv
<1> QED BY <1>1, Invariance, PTL

\* No active account is ever missing from the current snapshot.
THEOREM NoActiveAccountLost == Spec => []ActiveAccountsShown
<1>1. IndInv => ActiveAccountsShown
  BY DEF IndInv
<1> QED BY <1>1, Invariance, PTL

\* A recorded outcome of a sync run is never overwritten.
THEOREM OutcomesFinal == Spec => RunOutcomesFinal
<1>1. IndInv /\ [Next]_vars
        => [\A r \in RunIds :
              runs[r] \in {"succeeded", "failed"} => runs'[r] = runs[r]]_vars
  BY OutcomesKept DEF IndInv, WorkerInv
<1> QED BY <1>1, Invariance, PTL DEF Spec, RunOutcomesFinal

(***************************************************************************)
(* RefreshWorker implements the two abstract specifications its users rely *)
(* on: the callers of the job repository see the atomic moves of JobLease, *)
(* the readers of the snapshots see the ledger of SnapshotLedger.          *)
(***************************************************************************)

(***************************************************************************)
(* The jobs table.                                                         *)
(***************************************************************************)
\* The row operators of the instance are those of RefreshWorker.
LEMMA SameRows ==
  /\ \A st : Jobs!Unowned(st) = Unowned(st)
  /\ \A st : Jobs!Finished(st) = Finished(st)
  /\ \A row : Jobs!Enqueued(row) = Enqueued(row)
  /\ \A row : Jobs!Claimable(row) <=> Claimable(row)
  /\ \A w : Jobs!ClaimedBy(w) = ClaimedBy(w)
  /\ \A row, w : Jobs!OwnedBy(row, w) <=> OwnedBy(row, w)
  /\ \A row, w : Jobs!LiveFor(row, w) <=> LiveFor(row, w)
  /\ \A row : Jobs!Renewed(row) = Renewed(row)
  /\ \A row : Jobs!Aged(row) = Aged(row)
BY DEF Jobs!Unowned, Unowned, Jobs!Finished, Finished, Jobs!Enqueued,
       Enqueued, Jobs!Claimable, Claimable, Jobs!ClaimedBy, ClaimedBy,
       Jobs!OwnedBy, OwnedBy, Jobs!LiveFor, LiveFor, Jobs!Renewed, Renewed,
       Jobs!Aged, Aged

\* A renewal by a worker whose lease is live is a Renew of the jobs table.
LEMMA RenewalIsRenew ==
  ASSUME NEW w \in Workers, NEW u \in Users, LiveFor(job[u], w),
         job' = [job EXCEPT ![u] = Renewed(@)]
  PROVE  Jobs!Next
<1>1. Jobs!Renew(w, u)
  BY SameRows DEF Jobs!Renew
<1> QED BY <1>1 DEF Jobs!Next

\* A guarded step renews the lease or leaves the jobs alone.
LEMMA EnsureLeaseIsRenew ==
  ASSUME NEW w \in Workers, mine[w] \in Users, LeaseHeld(w) \/ LeaseGone(w)
  PROVE  Jobs!Next \/ UNCHANGED job
<1>1. CASE LeaseHeld(w)
  BY <1>1, RenewalIsRenew DEF LeaseHeld
<1>2. CASE LeaseGone(w)
  BY <1>2 DEF LeaseGone
<1> QED BY <1>1, <1>2

\* Finishing the job is left to its owner: the promotion transaction holds
\* the row lock, and only an owner could have taken it.
LEMMA CommitIsFinish ==
  ASSUME JobInv, NEW w \in Workers, mine[w] \in Users, pc[w] = "promoting",
         CommitRunAndJob(w)
  PROVE  Jobs!Next
<1> DEFINE u == mine[w]
<1>1. lock[u] = w
  BY DEF JobInv, LockMatchesPhase
<1>2. OwnedBy(job[u], w)
  BY <1>1, NoWorkerAssumption DEF JobInv, PromoterOwnsJob
<1>3. Jobs!Finish(w, u, "completed")
  BY <1>2, SameRows DEF Jobs!Finish, CommitRunAndJob
<1> QED BY <1>3 DEF Jobs!Next

LEMMA JobStep ==
  ASSUME IndInv, [Next]_vars
  PROVE  [Jobs!Next]_job
<1> USE DEF jobVars
<1>1. \A w \in Workers : pc[w] # "idle" => mine[w] \in Users
  BY MineIsUser DEF IndInv
<1>2. ASSUME NEW u \in Users, Request(u) PROVE Jobs!Next
  <2>1. Jobs!Enqueue(u)
    BY <1>2, SameRows DEF Request, Jobs!Enqueue
  <2> QED BY <2>1 DEF Jobs!Next
<1>3. ASSUME NEW w \in Workers, NEW u \in Users, Claim(w, u) PROVE Jobs!Next
  <2>1. Jobs!Claim(w, u)
    BY <1>3, SameRows DEF Claim, Jobs!Claim
  <2> QED BY <2>1 DEF Jobs!Next
<1>4. ASSUME NEW w \in Workers, Prepare(w) PROVE Jobs!Next \/ UNCHANGED job
  <2>1. CASE LeaseHeld(w) \/ LeaseGone(w)
    <3>1. mine[w] \in Users
      BY <1>1, <1>4
      DEF Prepare, EnsureLeaseBeforeRun, EnsureLeaseBeforeQuotes,
          EnsureLeaseBeforePromotion, EnsureLease, StartSyncRun, ReadAccounts,
          ReadAccount, BuildPromotion, Throw
    <3> QED BY <2>1, <3>1, EnsureLeaseIsRenew
  <2>2. CASE ~(LeaseHeld(w) \/ LeaseGone(w))
    BY <1>4, <2>2
    DEF Prepare, EnsureLeaseBeforeRun, EnsureLeaseBeforeQuotes,
        EnsureLeaseBeforePromotion, EnsureLease, StartSyncRun, ReadAccounts,
        ReadAccount, BuildPromotion, Throw
  <2> QED BY <2>1, <2>2
<1>5. ASSUME NEW w \in Workers, PromoteSnapshot(w)
      PROVE  Jobs!Next \/ UNCHANGED job
  <2>1. CASE CommitUnchanged(w) \/ CommitPromotion(w)
    BY <1>1, <2>1, CommitIsFinish
    DEF CommitUnchanged, CommitPromotion, IndInv, JobInv
  <2>2. CASE BeginPromotion(w) \/ RejectStale(w) \/ Rollback(w)
               \/ AfterPromotion(w)
    BY <2>2 DEF BeginPromotion, RejectStale, Rollback, AfterPromotion
  <2> QED BY <1>5, <2>1, <2>2 DEF PromoteSnapshot
<1>6. ASSUME NEW w \in Workers, HandleError(w) \/ Heartbeat(w)
      PROVE  Jobs!Next \/ UNCHANGED job
  <2>1. CASE CheckStillOwned(w) \/ Heartbeat(w)
    BY <1>1, <2>1, RenewalIsRenew DEF CheckStillOwned, Heartbeat
  <2>2. CASE FailJob(w)
    <3>1. mine[w] \in Users
      BY <1>1, <2>2 DEF FailJob
    <3>2. CASE OwnedBy(job[mine[w]], w)
      <4>1. Jobs!Finish(w, mine[w], "failed")
        BY <2>2, <3>2, SameRows DEF FailJob, Jobs!Finish
      <4> QED BY <3>1, <4>1 DEF Jobs!Next
    <3> QED BY <2>2, <3>2 DEF FailJob
  <2>3. CASE RecordLostRun(w) \/ \E r \in RunIds : RecordFailedRun(w, r)
    BY <2>3 DEF RecordLostRun, RecordFailedRun
  <2> QED BY <1>6, <2>1, <2>2, <2>3 DEF HandleError
<1>7. ASSUME NEW w \in Workers, HeartbeatError(w) \/ Crash(w)
      PROVE  UNCHANGED job
  BY <1>7 DEF HeartbeatError, Crash
<1>8. ASSUME Tick PROVE Jobs!Next
  <2>1. Jobs!Tick
    BY <1>8, SameRows DEF Tick, Jobs!Tick
  <2> QED BY <2>1 DEF Jobs!Next
<1>9. CASE UNCHANGED vars
  BY <1>9 DEF vars
<1> QED BY <1>2, <1>3, <1>4, <1>5, <1>6, <1>7, <1>8, <1>9 DEF Next, Advance

\* Whatever the workers do, each step is one of the atomic moves of the jobs
\* table or none: no lease is taken before it expired, only owners finish.
THEOREM JobsImplemented == Spec => ImplementsJobLease
<1>1. Init => Jobs!Init
  BY SameRows DEF Init, Jobs!Init
<1>2. IndInv /\ [Next]_vars => [Jobs!Next]_job
  BY JobStep
<1> QED BY <1>1, <1>2, Invariance, PTL DEF Spec, ImplementsJobLease, Jobs!Spec

(***************************************************************************)
(* The ledger of snapshots.                                                *)
(***************************************************************************)
\* What is shown is the candidate of any current snapshot: there is one.
LEMMA ShownIsCurrent ==
  ASSUME OneCurrent, NEW u \in Users, NEW s \in CurrentSnaps(u)
  PROVE  Shown[u] = s.cand
BY DEF OneCurrent, Shown

LEMMA LedgerStep ==
  ASSUME IndInv, IndInv', [Next]_vars
  PROVE  [Ledger!Next]_<<Promotions, Shown>>
<1>1. CASE ~ \E w \in Workers : CommitPromotion(w)
  <2>1. UNCHANGED snaps
    BY <1>1, OnlyPromotionTouchesSnaps
  <2>2. ASSUME NEW u \in Users PROVE Shown'[u] = Shown[u]
    <3>1. CurrentSnaps(u)' = CurrentSnaps(u)
      BY <2>1 DEF CurrentSnaps
    <3> QED BY <3>1 DEF Shown
  <2>3. UNCHANGED Shown
    BY <2>2 DEF Shown
  <2> QED BY <2>1, <2>3 DEF Promotions
<1>2. ASSUME NEW w \in Workers, CommitPromotion(w),
             NEW u \in Users, mine[w] = u
      PROVE  Ledger!Next
  <2> DEFINE c == cand[w]
             new == [run |-> run[w], user |-> u, cand |-> c,
                     isCurrent |-> TRUE]
  <2>1. new \in Snapshots /\ CurrentSnaps(u)' = {new}
    BY <1>2, PromotionReplacesCurrent DEF IndInv
  <2>2. snaps' = Superseded(u) \cup {new} /\ snaps \subseteq Snapshots
    BY <1>2 DEF CommitPromotion, IndInv, TypeOK
  <2>3. c \in Candidates
    BY <2>1 DEF Snapshots
  <2>4. Promotions' = Promotions \cup {<<u, c>>}
    <3> DEFINE Old(s) == IF s.user = u THEN [s EXCEPT !.isCurrent = FALSE]
                         ELSE s
    <3>1. \A s \in snaps : Old(s).user = s.user /\ Old(s).cand = s.cand
      BY <2>2 DEF Snapshots
    <3>2. Superseded(u) = {Old(s) : s \in snaps}
      BY DEF Superseded
    <3> HIDE DEF Old
    <3>3. {<<s.user, s.cand>> : s \in Superseded(u)} = Promotions
      BY <3>1, <3>2 DEF Promotions
    <3>4. Promotions' = {<<s.user, s.cand>> : s \in Superseded(u)}
                          \cup {<<new.user, new.cand>>}
      BY <2>2 DEF Promotions
    <3> QED BY <3>3, <3>4
  <2>5. <<u, c>> \notin Promotions
    BY <1>2 DEF CommitPromotion, Duplicate, Promotions
  <2>6. ASSUME Shown[u] # NoCand
        PROVE  /\ Shown[u].asOf <= c.asOf
               /\ Ledger!Retained(Shown[u]) \subseteq Ledger!Covered(c)
    <3>1. PICK s \in CurrentSnaps(u) : TRUE
      BY <2>6 DEF Shown
    <3>2. Shown[u] = s.cand /\ s.cand \in Candidates
      BY <2>2, <3>1, ShownIsCurrent DEF IndInv, CurrentSnaps, Snapshots
    <3>3. s.cand.asOf <= c.asOf
      BY <1>2, <2>3, <3>1, <3>2, CandidateAssumption
      DEF CommitPromotion, Stale
    <3>4. ASSUME NEW a \in Ledger!Retained(s.cand) PROVE a \in Covered(c)
      <4>1. /\ a \in Accounts /\ a \in Covered(s.cand)
            /\ s.cand.accts[a].status = "active" \/ s.cand.accts[a].nonzero
        BY <3>2, <3>4, CandidateAssumption
        DEF Ledger!Retained, Ledger!Covered, Covered
      <4>2. table[u][a] = s.cand.accts[a].status
        BY <3>1, <4>1 DEF IndInv, TableMatchesCurrent
      <4>3. a \in Expected(u)
        BY <3>1, <4>1, <4>2 DEF Expected
      <4> QED BY <1>2, <4>3, PromoterCoversExpected DEF IndInv, JobInv
    <3> QED BY <3>2, <3>3, <3>4 DEF Ledger!Covered, Covered
  <2>7. Shown' = [Shown EXCEPT ![u] = c]
    <3>1. Shown'[u] = c
      BY <2>1, ShownIsCurrent DEF Shown
    <3>2. ASSUME NEW v \in Users \ {u} PROVE Shown'[v] = Shown[v]
      <4>1. CurrentSnaps(v)' = CurrentSnaps(v)
        BY <1>2, <2>2, PromotionKeepsOthers
      <4> QED BY <4>1 DEF Shown
    <3> QED BY <3>1, <3>2 DEF Shown
  <2>8. Ledger!Promote(u, c)
    BY <2>4, <2>5, <2>6, <2>7 DEF Ledger!Promote
  <2> QED BY <2>3, <2>8 DEF Ledger!Next
<1>3. \A w \in Workers : CommitPromotion(w) => mine[w] \in Users
  BY MineIsUser DEF IndInv, CommitPromotion
<1> QED BY <1>1, <1>2, <1>3

\* Whatever the workers do, a user's snapshots only grow and what is shown
\* never goes back in valuation time nor loses an account it still held.
THEOREM LedgerImplemented == Spec => ImplementsLedger
<1>1. Init => Ledger!Init
  BY DEF Init, Ledger!Init, Promotions, Shown, CurrentSnaps
<1>2. IndInv /\ IndInv' /\ [Next]_vars
        => [Ledger!Next]_<<Promotions, Shown>>
  BY LedgerStep
<1> QED BY <1>1, <1>2, Invariance, PTL DEF Spec, ImplementsLedger, Ledger!Spec
=============================================================================
