------------------------------ MODULE JobRows ------------------------------
(***************************************************************************)
(* Rows of the jobs table and what each statement of the job repository    *)
(* (apps/server/src/db/jobs.ts) does to one row.  There is one refresh job *)
(* per user: every caller enqueues under the dedupe key refresh:<userId>.  *)
(*                                                                         *)
(* lease_expires_at is modelled by left, the number of heartbeat periods   *)
(* the lease still runs, so that left = 0 is lease_expires_at <= now().    *)
(***************************************************************************)
EXTENDS Naturals

CONSTANTS
  Users,     \* owners of a portfolio, hence of a refresh job
  Workers,   \* worker processes
  NoWorker,  \* lease_owner is null
  Lease      \* length of a lease, in heartbeat periods

ASSUME LeaseAssumption == Lease \in Nat \ {0}
ASSUME NoWorkerAssumption == NoWorker \notin Workers

Statuses == {"absent", "queued", "running", "completed", "failed"}

Rows == [status : Statuses, owner : Workers \cup {NoWorker}, left : 0..Lease]

Unowned(status) == [status |-> status, owner |-> NoWorker, left |-> 0]

\* enqueueUnique revives a finished job and leaves a live one as it is.
Enqueued(row) ==
  IF row.status \in {"absent", "completed", "failed"}
  THEN Unowned("queued")
  ELSE row

\* Mutant: a job whose worker died is never picked up again.
ClaimableQueuedOnly(row) == row.status = "queued"

\* The rows claimNext may select, and what it makes of the one it selects.
Claimable(row) ==
  \/ row.status = "queued"
  \/ row.status = "running" /\ row.left = 0

ClaimedBy(w) == [status |-> "running", owner |-> w, left |-> Lease]

\* complete and fail ask only for the owner, renewLease also for a live lease.
OwnedBy(row, w) == row.status = "running" /\ row.owner = w

\* Mutant: the update asks for a live lease, but not for whose it is.
LiveForAnyone(row, w) == row.status = "running" /\ row.left > 0

LiveFor(row, w) == OwnedBy(row, w) /\ row.left > 0

Renewed(row) == [row EXCEPT !.left = Lease]

Finished(status) == Unowned(status)

\* One heartbeat period passes.
Aged(row) == IF row.left > 0 THEN [row EXCEPT !.left = @ - 1] ELSE row
=============================================================================
