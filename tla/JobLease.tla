------------------------------ MODULE JobLease ------------------------------
(***************************************************************************)
(* What the jobs table promises its callers, whoever they are and whenever *)
(* they call: each statement of the job repository is one step, time may   *)
(* pass between any two of them, and callers may be late, repeat           *)
(* themselves or never return.                                             *)
(***************************************************************************)
EXTENDS JobRows

VARIABLE job  \* the row of each user's refresh job

Init == job = [u \in Users |-> Unowned("absent")]

Enqueue(u) == job' = [job EXCEPT ![u] = Enqueued(@)]

Claim(w, u) ==
  /\ Claimable(job[u])
  /\ job' = [job EXCEPT ![u] = ClaimedBy(w)]

Renew(w, u) ==
  /\ LiveFor(job[u], w)
  /\ job' = [job EXCEPT ![u] = Renewed(@)]

\* Both complete and fail: the caller only has to be the owner on record.
Finish(w, u, status) ==
  /\ OwnedBy(job[u], w)
  /\ job' = [job EXCEPT ![u] = Finished(status)]

Tick == job' = [u \in Users |-> Aged(job[u])]

Next ==
  \/ Tick
  \/ \E u \in Users :
       \/ Enqueue(u)
       \/ \E w \in Workers :
            \/ Claim(w, u)
            \/ Renew(w, u)
            \/ Finish(w, u, "completed")
            \/ Finish(w, u, "failed")

Spec == Init /\ [][Next]_job
=============================================================================
