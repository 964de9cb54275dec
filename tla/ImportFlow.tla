----------------------------- MODULE ImportFlow -----------------------------
(***************************************************************************)
(* Importing account history from files: previewImport, confirmImport and  *)
(* deleteImportEvidence (apps/server/src/imports) over the state store and *)
(* the evidence store.  Calls run side by side; each await on a store is a *)
(* point where the others may act, so each is an action of its own.        *)
(*                                                                         *)
(* The state store is the one of the repository: a statement of it either  *)
(* happens or does not.  The evidence store may be remote (S3): when a     *)
(* statement of it fails, it may have happened all the same.               *)
(***************************************************************************)
EXTENDS Naturals, Sequences

CONSTANTS
  Users, Accounts,
  Files,       \* file hashes
  RowsOf,      \* the rows of each file
  Bad,         \* a row that cannot be normalized
  NoId,        \* a row without a source transaction id
  Calls,       \* calls of the three functions
  None,
  ListsConfirmed,  \* whether listExisting knows what was confirmed before
  MaxFaults    \* bound on failures of a store

IsRow(r) == r = Bad \/ DOMAIN r = {"sid", "like"}

ASSUME FileAssumption ==
  \A f \in Files : \A i \in 1..Len(RowsOf[f]) : IsRow(RowsOf[f][i])
ASSUME FlowAssumption == ListsConfirmed \in BOOLEAN /\ MaxFaults \in Nat

VARIABLES
  (* the state store *)
  previews,    \* saved previews, by the call that made them: its random id
  confirmed,   \* candidates confirmed of each preview
  (* the evidence store *)
  evidence,    \* stored objects, by the call that put them: a random key
  forgotten,   \* previews it was told are not reproducible
  (* the calls *)
  pc, request,
  rows,        \* rows a preview call worked out
  answer,
  faults

stateStore == <<previews, confirmed>>
evidenceStore == <<evidence, forgotten>>
callVars == <<pc, request, rows, answer>>
vars == <<previews, confirmed, evidence, forgotten, pc, request, rows, answer,
          faults>>

Init ==
  /\ previews = [c \in Calls |-> None]
  /\ confirmed = [c \in Calls |-> None]
  /\ evidence = {} /\ forgotten = {}
  /\ pc = [c \in Calls |-> "new"]
  /\ request = [c \in Calls |-> None]
  /\ rows = [c \in Calls |-> {}]
  /\ answer = [c \in Calls |-> "none"]
  /\ faults = 0

(***************************************************************************)
(* Candidates and what makes two of them the same.                         *)
(***************************************************************************)
\* normalizeCsvTransaction.  Rows that agree in like have the same kind and
\* amount, a similar description and less than a day between them.  Without
\* a transaction id the fingerprint covers the place of the row in the file.
Candidate(a, f, i) ==
  LET row == RowsOf[f][i] IN
  [account |-> a, sid |-> row.sid, like |-> row.like,
   fingerprint |-> IF row.sid = NoId THEN <<a, f, i>> ELSE <<a, row.sid>>]

\* The id of a candidate is a part of its fingerprint.
Id(candidate) == candidate.fingerprint
Ids(candidates) == {Id(x) : x \in candidates}

Exact(x, y) ==
  /\ x.account = y.account
  /\ x.fingerprint = y.fingerprint \/ (x.sid # NoId /\ x.sid = y.sid)

Near(x, y) ==
  /\ x.account = y.account
  /\ x.sid = NoId \/ y.sid = NoId
  /\ x.like = y.like

\* decideTransactionDeduplication.
Decision(x, existing) ==
  IF \E y \in existing : Exact(x, y) THEN "duplicate"
  ELSE IF \E y \in existing : Near(x, y) THEN "review_required"
  ELSE "accepted"

Good(f) == {i \in 1..Len(RowsOf[f]) : RowsOf[f][i] # Bad}

\* Mutant: rows are compared with what exists, not with each other.
PreviewRowsApart(a, f, existing) ==
  {[candidate |-> Candidate(a, f, i),
    decision |-> Decision(Candidate(a, f, i), existing)] : i \in Good(f)}

\* The rows of a preview.  Each is compared with what exists and with the rows
\* before it; rejected rows and statement drafts have no candidate.
PreviewRows(a, f, existing) ==
  LET before(i) == {Candidate(a, f, j) : j \in {k \in Good(f) : k < i}} IN
  {[candidate |-> Candidate(a, f, i),
    decision |-> Decision(Candidate(a, f, i), existing \cup before(i))] :
     i \in Good(f)}

\* What previews and confirmations are made of.
Candidates ==
  UNION {{Candidate(a, f, i) : i \in Good(f)} : a \in Accounts, f \in Files}

PreviewRecords ==
  [user : Users, account : Accounts, file : Files,
   rows : SUBSET [candidate : Candidates,
                  decision : {"accepted", "review_required", "duplicate"}],
   state : {"preview_ready", "confirmed", "deletion_pending",
            "non_reproducible"}]

ASSUME NoneAssumption ==
  None \notin PreviewRecords /\ \A S \in SUBSET Candidates : S # None

Selectable(preview) ==
  {r.candidate : r \in {q \in preview.rows : q.decision = "accepted"}}

Saved == {p \in Calls : previews[p] # None}
Confirmations == {p \in Calls : confirmed[p] # None}

\* confirmationIdentity.
Identity(u, candidate) == <<u, candidate.fingerprint>>
Identities(p) == {Identity(previews[p].user, x) : x \in confirmed[p]}

\* listExisting: facts of the same user and account.
Existing(u, a) ==
  IF ListsConfirmed
  THEN {x \in UNION {confirmed[p] : p \in {q \in Confirmations :
                                            previews[q].user = u}} :
          x.account = a}
  ELSE {}

SameFile(u, f) == {p \in Saved : previews[p].user = u /\ previews[p].file = f}

-----------------------------------------------------------------------------
Goto(c, phase) == pc' = [pc EXCEPT ![c] = phase]

Return(c, result) ==
  /\ Goto(c, "done")
  /\ answer' = [answer EXCEPT ![c] = result]

Fault == faults < MaxFaults /\ faults' = faults + 1

(***************************************************************************)
(* previewImport.                                                          *)
(***************************************************************************)
StartPreview(c, u, a, f) ==
  /\ pc[c] = "new"
  /\ request' = [request EXCEPT ![c] = [user |-> u, account |-> a, file |-> f]]
  /\ Goto(c, "finding")
  /\ UNCHANGED <<stateStore, evidenceStore, rows, answer, faults>>

\* A preview of the file is returned, unless it is for another account.
ReturnPrior(c, p) ==
  Return(c, IF previews[p].account = request[c].account THEN "preview"
            ELSE "error")

FindByFileHash(c) ==
  LET prior == SameFile(request[c].user, request[c].file) IN
  /\ pc[c] = "finding"
  /\ \/ \E p \in prior : ReturnPrior(c, p)
     \/ prior = {} /\ Goto(c, "listing") /\ UNCHANGED answer
  /\ UNCHANGED <<stateStore, evidenceStore, request, rows, faults>>

ListExisting(c) ==
  LET r == request[c] IN
  /\ pc[c] = "listing"
  /\ rows' = [rows EXCEPT ![c] =
                PreviewRows(r.account, r.file, Existing(r.user, r.account))]
  /\ Goto(c, "putting")
  /\ UNCHANGED <<stateStore, evidenceStore, request, answer, faults>>

PutEvidence(c) ==
  /\ pc[c] = "putting"
  /\ \/ /\ evidence' = evidence \cup {c}
        /\ Goto(c, "saving")
        /\ UNCHANGED <<answer, faults>>
     \/ /\ Fault
        /\ evidence' \in {evidence, evidence \cup {c}}
        /\ Return(c, "error")
  /\ UNCHANGED <<stateStore, forgotten, request, rows>>

\* Mutant: the store does not look for a preview of the same file.
SaveAnother(c) ==
  LET r == request[c] IN
  /\ pc[c] = "saving"
  /\ previews' = [previews EXCEPT ![c] =
       [user |-> r.user, account |-> r.account, file |-> r.file,
        rows |-> rows[c], state |-> "preview_ready"]]
  /\ Return(c, "preview")
  /\ UNCHANGED <<confirmed, evidenceStore, request, rows, faults>>

\* savePreview, and the check of what it returns.
SavePreview(c) ==
  LET r == request[c]
      prior == SameFile(r.user, r.file)
  IN
  /\ pc[c] = "saving"
  /\ \/ /\ prior = {}
        /\ previews' = [previews EXCEPT ![c] =
             [user |-> r.user, account |-> r.account, file |-> r.file,
              rows |-> rows[c], state |-> "preview_ready"]]
        /\ Return(c, "preview")
        /\ UNCHANGED faults
     \/ /\ prior # {}
        /\ Goto(c, "discarding")
        /\ UNCHANGED <<previews, answer, faults>>
     \/ /\ Fault
        /\ Goto(c, "cleaning")
        /\ UNCHANGED <<previews, answer>>
  /\ UNCHANGED <<confirmed, evidenceStore, request, rows>>

\* A statement that deletes an object; true to its caller if ok.
Deletes(key, ok) ==
  \/ ok /\ evidence' = evidence \ {key} /\ UNCHANGED faults
  \/ ~ok /\ Fault /\ evidence' \in {evidence, evidence \ {key}}

\* Mutant: the object of the preview that was there first is discarded.
DiscardPrior(c) ==
  /\ pc[c] = "discarding"
  /\ \E p \in SameFile(request[c].user, request[c].file) :
       Deletes(p, TRUE) /\ ReturnPrior(c, p)
  /\ UNCHANGED <<stateStore, forgotten, request, rows>>

DiscardEvidence(c) ==
  /\ pc[c] = "discarding"
  /\ \/ /\ Deletes(c, TRUE)
        /\ \E p \in SameFile(request[c].user, request[c].file) :
             ReturnPrior(c, p)
     \/ Deletes(c, FALSE) /\ Return(c, "error")
  /\ UNCHANGED <<stateStore, forgotten, request, rows>>

\* throwAfterEvidenceCleanup.
CleanUpEvidence(c) ==
  /\ pc[c] = "cleaning"
  /\ \E ok \in BOOLEAN : Deletes(c, ok)
  /\ Return(c, "error")
  /\ UNCHANGED <<stateStore, forgotten, request, rows>>

(***************************************************************************)
(* confirmImport.                                                          *)
(***************************************************************************)
StartConfirm(c, u, p, ids) ==
  /\ pc[c] = "new"
  /\ p \in Saved
  /\ request' =
       [request EXCEPT ![c] = [user |-> u, preview |-> p, ids |-> ids]]
  /\ Goto(c, "loading")
  /\ UNCHANGED <<stateStore, evidenceStore, rows, answer, faults>>

LoadPreview(c) ==
  LET r == request[c] IN
  /\ pc[c] = "loading"
  /\ IF /\ previews[r.preview].user = r.user
        /\ r.ids \subseteq Ids(Selectable(previews[r.preview]))
     THEN Goto(c, "confirming") /\ UNCHANGED answer
     ELSE Return(c, "error")
  /\ UNCHANGED <<stateStore, evidenceStore, request, rows, faults>>

Chosen(c) ==
  {x \in Selectable(previews[request[c].preview]) : Id(x) \in request[c].ids}

\* Mutant: only the preview's own confirmation is looked at.
NothingTaken(c) == TRUE

\* No identity was confirmed before, by any preview.
NoneTaken(c) ==
  \A x \in Chosen(c), q \in Confirmations :
    Identity(request[c].user, x) \notin Identities(q)

\* Mutant: the preview is ready again for the one who deletes its evidence.
AlwaysConfirmed(state) == "confirmed"

StateOnceConfirmed(state) ==
  IF state \in {"non_reproducible", "deletion_pending"} THEN state
  ELSE "confirmed"

\* Mutant: a later confirmation of the same preview replaces the first.
ConfirmAgain(c) ==
  LET p == request[c].preview IN
  /\ pc[c] = "confirming"
  /\ confirmed' = [confirmed EXCEPT ![p] = Chosen(c)]
  /\ Return(c, "confirmed")
  /\ UNCHANGED <<previews, evidenceStore, request, rows, faults>>

\* ImportStateStore.confirm.  It repeats the checks of confirmImport, which
\* still hold: a saved preview keeps its user and its rows.
Confirm(c) ==
  LET p == request[c].preview IN
  /\ pc[c] = "confirming"
  /\ IF confirmed[p] = None /\ NoneTaken(c)
     THEN /\ confirmed' = [confirmed EXCEPT ![p] = Chosen(c)]
          /\ previews' =
               [previews EXCEPT ![p].state = StateOnceConfirmed(@)]
          /\ Return(c, "confirmed")
     ELSE /\ Return(c, IF confirmed[p] # None /\ confirmed[p] = Chosen(c)
                       THEN "already_confirmed" ELSE "conflict")
          /\ UNCHANGED stateStore
  /\ UNCHANGED <<evidenceStore, request, rows, faults>>

(***************************************************************************)
(* deleteImportEvidence.                                                   *)
(***************************************************************************)
StartDeletion(c, u, p) ==
  /\ pc[c] = "new"
  /\ p \in Saved
  /\ request' = [request EXCEPT ![c] = [user |-> u, preview |-> p]]
  /\ Goto(c, "loading_deletion")
  /\ UNCHANGED <<stateStore, evidenceStore, rows, answer, faults>>

\* Mutant: whoever knows the preview may delete its evidence.
LoadForAnyone(c) ==
  /\ pc[c] = "loading_deletion"
  /\ Goto(c, "marking")
  /\ UNCHANGED <<stateStore, evidenceStore, request, rows, answer, faults>>

LoadForDeletion(c) ==
  LET r == request[c] IN
  /\ pc[c] = "loading_deletion"
  /\ IF previews[r.preview].user = r.user
     THEN Goto(c, "marking") /\ UNCHANGED answer
     ELSE Return(c, "error")
  /\ UNCHANGED <<stateStore, evidenceStore, request, rows, faults>>

MarkEvidenceDeletionPending(c) ==
  LET p == request[c].preview IN
  /\ pc[c] = "marking"
  /\ previews' = [previews EXCEPT ![p].state =
                    IF @ = "non_reproducible" THEN @ ELSE "deletion_pending"]
  /\ Goto(c, "deleting")
  /\ UNCHANGED <<confirmed, evidenceStore, request, rows, answer, faults>>

DeleteEvidence(c) ==
  /\ pc[c] = "deleting"
  /\ \/ /\ Deletes(request[c].preview, TRUE)
        /\ Goto(c, "finishing") /\ UNCHANGED answer
     \/ Deletes(request[c].preview, FALSE) /\ Return(c, "error")
  /\ UNCHANGED <<stateStore, forgotten, request, rows>>

MarkNonReproducible(c) ==
  /\ pc[c] = "finishing"
  /\ previews' =
       [previews EXCEPT ![request[c].preview].state = "non_reproducible"]
  /\ Goto(c, "noting")
  /\ UNCHANGED <<confirmed, evidenceStore, request, rows, answer, faults>>

MarkEvidenceNonReproducible(c) ==
  /\ pc[c] = "noting"
  /\ \/ /\ forgotten' = forgotten \cup {request[c].preview}
        /\ Return(c, "deleted")
        /\ UNCHANGED faults
     \/ Fault /\ Return(c, "error") /\ UNCHANGED forgotten
  /\ UNCHANGED <<stateStore, evidence, request, rows>>

-----------------------------------------------------------------------------
Preview(c) ==
  \/ \E u \in Users, a \in Accounts, f \in Files : StartPreview(c, u, a, f)
  \/ FindByFileHash(c)
  \/ ListExisting(c)
  \/ PutEvidence(c)
  \/ SavePreview(c)
  \/ DiscardEvidence(c)
  \/ CleanUpEvidence(c)

\* Any rows of a preview can be asked for, also ones that are not selectable.
Confirmation(c) ==
  \/ \E u \in Users, p \in Saved :
       \E chosen \in SUBSET {r.candidate : r \in previews[p].rows} :
         StartConfirm(c, u, p, Ids(chosen))
  \/ LoadPreview(c)
  \/ Confirm(c)

Deletion(c) ==
  \/ \E u \in Users, p \in Saved : StartDeletion(c, u, p)
  \/ LoadForDeletion(c)
  \/ MarkEvidenceDeletionPending(c)
  \/ DeleteEvidence(c)
  \/ MarkNonReproducible(c)
  \/ MarkEvidenceNonReproducible(c)

Next == \E c \in Calls : Preview(c) \/ Confirmation(c) \/ Deletion(c)

Spec == Init /\ [][Next]_vars

-----------------------------------------------------------------------------
(***************************************************************************)
(* Properties.                                                             *)
(***************************************************************************)
\* A user's file has one preview, however many calls preview it at once.
OnePreviewPerFile ==
  \A p, q \in Saved :
    previews[p].user = previews[q].user /\ previews[p].file = previews[q].file
      => p = q

\* Among the rows a preview offers for confirmation none repeats another nor
\* looks like it.
OfferedRowsApart ==
  \A p \in Saved : \A x, y \in Selectable(previews[p]) :
    x # y => ~Exact(x, y) /\ ~Near(x, y)

\* No source identity of a user is confirmed by two previews, whatever the
\* previews found in the store when they were made.
NothingConfirmedTwice ==
  \A p, q \in Confirmations : p # q => Identities(p) \cap Identities(q) = {}

\* What a confirmation answered remains true: the candidates confirmed of the
\* preview are the ones that were asked for.
AnswersHold ==
  \A c \in Calls :
    answer[c] \in {"confirmed", "already_confirmed"}
      => /\ request[c].preview \in Confirmations
         /\ Ids(confirmed[request[c].preview]) = request[c].ids

\* Evidence and what the previews say of it agree.  A preview that does not say
\* its evidence is being deleted, or is gone, has it: calls that lose a race or
\* fail clean up after themselves only.  A preview is marked not reproducible,
\* in either store, only once its evidence is gone, though a failed deletion may
\* be repeated.  Evidence no preview leads to is left behind only by a call that
\* said it failed.
EvidenceKept ==
  /\ \A p \in Saved :
       /\ previews[p].state \in {"preview_ready", "confirmed"} => p \in evidence
       /\ previews[p].state = "non_reproducible" => p \notin evidence
       /\ p \in forgotten => previews[p].state = "non_reproducible"
  /\ \A c \in evidence \ Saved : pc[c] = "done" => answer[c] = "error"

\* Only the owner of a preview learns of its confirmation or has its evidence
\* deleted.
OwnersApart ==
  \A c \in Calls :
    answer[c] \in {"confirmed", "already_confirmed", "conflict", "deleted"}
      => previews[request[c].preview].user = request[c].user

\* Once the deletion of its evidence has begun a preview never looks intact
\* again, also when it is confirmed meanwhile or the deletion is repeated.
DeletionSticks ==
  [][\A p \in Saved :
       /\ previews[p].state = "deletion_pending"
            => previews'[p].state \in {"deletion_pending", "non_reproducible"}
       /\ previews[p].state = "non_reproducible"
            => previews'[p].state = "non_reproducible"]_vars
=============================================================================
