-------------------------- MODULE ImportsProofs ----------------------------
(***************************************************************************)
(* What the imports keep true whatever the users, accounts, files, number  *)
(* of calls and failures: IndInv is inductive for the calls and the        *)
(* stores, CsvInv for the reader of a file.                                *)
(*                                                                         *)
(* IndInv has a part for each call, CallInv, and a part for the two        *)
(* stores, StoreInv.  A step of one call may disturb another call only     *)
(* through the stores; Effect(c) is all that a step of c may do to them, so *)
(* that CallInv of the others follows once, not per action.                *)
(*                                                                         *)
(* CsvInv says where in the text the reader is: in which line and field,   *)
(* and that what it holds is what is written up to there.  Every character *)
(* then moves that place by one, or shows what is wrong with the text.     *)
(***************************************************************************)
EXTENDS ImportFlow, CsvReader, Sums, SequenceTheorems, FiniteSetTheorems, TLAPS

PreviewPhases ==
  {"finding", "listing", "putting", "saving", "discarding", "cleaning"}
ConfirmPhases == {"loading", "confirming"}
AllowedPhases == {"marking", "deleting", "finishing", "noting"}
Phases ==
  {"new", "done", "loading_deletion"} \cup PreviewPhases \cup ConfirmPhases
    \cup AllowedPhases

PreviewRequests == [user : Users, account : Accounts, file : Files]
ConfirmRequests ==
  [user : Users, preview : Calls, ids : SUBSET Ids(Candidates)]
DeletionRequests == [user : Users, preview : Calls]

RowSets ==
  SUBSET [candidate : Candidates,
          decision : {"accepted", "review_required", "duplicate"}]
States == {"preview_ready", "confirmed", "deletion_pending", "non_reproducible"}
Answers ==
  {"none", "preview", "error", "confirmed", "already_confirmed", "conflict",
   "deleted"}

TypeInv ==
  /\ previews \in [Calls -> PreviewRecords \cup {None}]
  /\ confirmed \in [Calls -> (SUBSET Candidates) \cup {None}]
  /\ evidence \subseteq Calls
  /\ forgotten \subseteq Calls
  /\ pc \in [Calls -> Phases]
  /\ request \in [Calls -> PreviewRequests \cup ConfirmRequests
                             \cup DeletionRequests \cup {None}]
  /\ rows \in [Calls -> RowSets]
  /\ answer \in [Calls -> Answers]

\* The accepted rows of a set differ from each other.
RowsApart(R) ==
  \A q, r \in R :
    q.decision = "accepted" /\ r.decision = "accepted"
      /\ q.candidate # r.candidate
      => ~Exact(q.candidate, r.candidate) /\ ~Near(q.candidate, r.candidate)

EvidenceAgrees ==
  \A p \in Saved :
    /\ previews[p].state \in {"preview_ready", "confirmed"} => p \in evidence
    /\ previews[p].state = "non_reproducible" => p \notin evidence
    /\ p \in forgotten => previews[p].state = "non_reproducible"

StoreInv ==
  /\ OnePreviewPerFile
  /\ \A p \in Saved : RowsApart(previews[p].rows)
  /\ Confirmations \subseteq Saved
  /\ NothingConfirmedTwice
  /\ forgotten \subseteq Saved
  /\ EvidenceAgrees

\* The call saves a preview with its last step only, and has evidence in the
\* store exactly from putting it until then, unless it failed.
OwnEvidence(c) ==
  /\ pc[c] # "done" => c \notin Saved
  /\ pc[c] = "saving" => c \in evidence
  /\ pc[c] \notin {"saving", "discarding", "cleaning", "done"}
       => c \notin evidence
  /\ pc[c] = "done" /\ c \in evidence \ Saved => answer[c] = "error"

Confirming(c) ==
  LET r == request[c] IN
  /\ pc[c] \in ConfirmPhases => r \in ConfirmRequests /\ r.preview \in Saved
  /\ pc[c] = "confirming"
       => /\ previews[r.preview].user = r.user
          /\ r.ids \subseteq Ids(Selectable(previews[r.preview]))

Deleting(c) ==
  LET r == request[c] IN
  /\ pc[c] \in AllowedPhases \cup {"loading_deletion"}
       => r \in DeletionRequests /\ r.preview \in Saved
  /\ pc[c] \in AllowedPhases => previews[r.preview].user = r.user
  /\ pc[c] \in {"deleting", "finishing", "noting"}
       => previews[r.preview].state \in {"deletion_pending", "non_reproducible"}
  /\ pc[c] = "finishing" => r.preview \notin evidence
  /\ pc[c] = "noting" => previews[r.preview].state = "non_reproducible"

Answered(c) ==
  LET r == request[c] IN
  /\ pc[c] # "done" => answer[c] = "none"
  /\ answer[c] \in {"confirmed", "already_confirmed", "conflict", "deleted"}
       => r.preview \in Saved /\ previews[r.preview].user = r.user
  /\ answer[c] \in {"confirmed", "already_confirmed"}
       => r.preview \in Confirmations /\ Ids(confirmed[r.preview]) = r.ids

CallInv(c) ==
  /\ pc[c] \in PreviewPhases => request[c] \in PreviewRequests
  /\ RowsApart(rows[c])
  /\ OwnEvidence(c)
  /\ Confirming(c)
  /\ Deleting(c)
  /\ Answered(c)

IndInv == TypeInv /\ StoreInv /\ \A c \in Calls : CallInv(c)

\* All that a step of call c does to the other calls and to the stores.
Effect(c) ==
  /\ \A d \in Calls \ {c} :
       /\ pc'[d] = pc[d] /\ request'[d] = request[d]
       /\ rows'[d] = rows[d] /\ answer'[d] = answer[d]
       /\ previews[d] = None => previews'[d] = None
       /\ d \notin Saved => (d \in evidence' <=> d \in evidence)
  /\ \A p \in Saved :
       /\ previews'[p] # None
       /\ previews'[p].user = previews[p].user
       /\ previews'[p].rows = previews[p].rows
       /\ previews[p].state = "deletion_pending"
            => previews'[p].state \in {"deletion_pending", "non_reproducible"}
       /\ previews[p].state = "non_reproducible"
            => previews'[p].state = "non_reproducible"
       /\ p \in evidence' => p \in evidence
  /\ \A p \in Confirmations : confirmed'[p] = confirmed[p]

-----------------------------------------------------------------------------
(***************************************************************************)
(* Rows of a preview.                                                      *)
(***************************************************************************)
LEMMA ApartIsSymmetric ==
  \A x, y : (Exact(x, y) <=> Exact(y, x)) /\ (Near(x, y) <=> Near(y, x))
  BY Zenon DEF Exact, Near

\* What previewImport works out has the type of rows, and offers no two rows
\* that repeat one another: the later one is compared with the earlier one.
LEMMA PreviewRowsOfFile ==
  ASSUME NEW a \in Accounts, NEW f \in Files, NEW existing
  PROVE  /\ PreviewRows(a, f, existing) \in RowSets
         /\ RowsApart(PreviewRows(a, f, existing))
<1> DEFINE C(i) == Candidate(a, f, i)
           before(i) == {C(j) : j \in {k \in Good(f) : k < i}}
           D(i) == Decision(C(i), existing \cup before(i))
           R == {[candidate |-> C(i), decision |-> D(i)] : i \in Good(f)}
<1>1. PreviewRows(a, f, existing) = R
  BY DEF PreviewRows
<1>2. \A i \in Good(f) : C(i) \in Candidates
  <2> SUFFICES ASSUME NEW i \in Good(f) PROVE C(i) \in Candidates
    OBVIOUS
  <2> DEFINE S(b, g) == {Candidate(b, g, k) : k \in Good(g)}
  <2>1. C(i) \in S(a, f)
    OBVIOUS
  <2>2. Candidates = UNION {S(b, g) : b \in Accounts, g \in Files}
    BY DEF Candidates
  <2> HIDE DEF S, C
  <2> QED
    BY <2>1, <2>2
<1>3. \A i : D(i) \in {"accepted", "review_required", "duplicate"}
  BY DEF Decision
<1>4. R \in RowSets
  <2> HIDE DEF C, D
  <2> QED
    BY <1>2, <1>3 DEF RowSets
<1>5. ASSUME NEW i \in Good(f), NEW j \in Good(f), i < j, D(j) = "accepted"
      PROVE  ~Exact(C(j), C(i)) /\ ~Near(C(j), C(i))
  <2>1. C(i) \in existing \cup before(j)
    <3> HIDE DEF C
    <3> QED
      BY <1>5
  <2> HIDE DEF C, before
  <2> QED
    BY <1>5, <2>1 DEF Decision
<1>6. RowsApart(R)
  <2> SUFFICES ASSUME NEW q \in R, NEW r \in R, q.decision = "accepted",
                      r.decision = "accepted", q.candidate # r.candidate
               PROVE  /\ ~Exact(q.candidate, r.candidate)
                      /\ ~Near(q.candidate, r.candidate)
    BY DEF RowsApart
  <2>1. PICK i \in Good(f) : q = [candidate |-> C(i), decision |-> D(i)]
    OBVIOUS
  <2>2. PICK j \in Good(f) : r = [candidate |-> C(j), decision |-> D(j)]
    OBVIOUS
  <2>3. /\ q.candidate = C(i) /\ r.candidate = C(j)
        /\ D(i) = "accepted" /\ D(j) = "accepted"
    <3> HIDE DEF C, D
    <3> QED
      BY <2>1, <2>2
  <2>4. i \in Nat /\ j \in Nat /\ i # j
    BY <2>3 DEF Good
  <2>5. i < j \/ j < i
    BY <2>4
  <2> HIDE DEF C, D
  <2> QED
    BY <1>5, <2>3, <2>5, ApartIsSymmetric
<1> QED
  BY <1>1, <1>4, <1>6

-----------------------------------------------------------------------------
(***************************************************************************)
(* The other calls.                                                        *)
(***************************************************************************)
\* What a call relies on, a step of another one leaves true.
LEMMA OthersKept ==
  ASSUME TypeInv, NEW c \in Calls, Effect(c),
         NEW d \in Calls, d # c, CallInv(d)
  PROVE  CallInv(d)'
<1>1. /\ pc'[d] = pc[d] /\ request'[d] = request[d] /\ rows'[d] = rows[d]
      /\ answer'[d] = answer[d]
      /\ d \in Saved' => d \in Saved
      /\ d \notin Saved => (d \in evidence' <=> d \in evidence)
  BY DEF Effect, Saved
<1>2. \A p \in Saved : p \in Saved'
  BY DEF Effect, Saved
<1>3. \A p \in Confirmations : p \in Confirmations'
  BY DEF Effect, Confirmations
<1>4. (pc[d] \in PreviewPhases => request[d] \in PreviewRequests)'
  BY <1>1 DEF CallInv
<1>5. RowsApart(rows[d])'
  BY <1>1 DEF CallInv, RowsApart, Exact, Near
<1>6. OwnEvidence(d)'
  BY <1>1, <1>2 DEF CallInv, OwnEvidence
<1>7. Confirming(d)'
  BY <1>1, <1>2 DEF CallInv, Confirming, Effect, Selectable, Ids, Id, ConfirmPhases
<1>8. Deleting(d)'
  BY <1>1, <1>2 DEF CallInv, Deleting, Effect, AllowedPhases
<1>9. Answered(d)'
  BY <1>1, <1>2, <1>3 DEF CallInv, Answered, Effect, Ids, Id
<1> QED
  BY <1>4, <1>5, <1>6, <1>7, <1>8, <1>9 DEF CallInv

\* A step of c that leaves both stores alone.
LEMMA StoresAlone ==
  ASSUME TypeInv, StoreInv, NEW c \in Calls,
         UNCHANGED <<previews, confirmed, evidence, forgotten>>,
         \A d \in Calls \ {c} :
           /\ pc'[d] = pc[d] /\ request'[d] = request[d]
           /\ rows'[d] = rows[d] /\ answer'[d] = answer[d]
  PROVE  StoreInv' /\ Effect(c)
<1>1. StoreInv'
  BY DEF StoreInv, OnePreviewPerFile, Saved, Confirmations, RowsApart, Exact,
         Near, NothingConfirmedTwice, Identities, Identity, EvidenceAgrees
<1>2. Effect(c)
  BY DEF Effect, Saved, Confirmations
<1> QED
  BY <1>1, <1>2

Kept(c) == TypeInv' /\ StoreInv' /\ Effect(c) /\ CallInv(c)'

-----------------------------------------------------------------------------
(***************************************************************************)
(* previewImport.                                                          *)
(***************************************************************************)
LEMMA StartPreviewKeeps ==
  ASSUME IndInv, NEW c \in Calls, NEW u \in Users, NEW a \in Accounts,
         NEW f \in Files, StartPreview(c, u, a, f)
  PROVE  Kept(c)
<1> USE DEF IndInv, StartPreview, Goto, stateStore, evidenceStore
<1>1. TypeInv'
  BY DEF TypeInv, Phases, PreviewPhases, PreviewRequests
<1>2. pc'[c] = "finding" /\ request'[c] \in PreviewRequests
  BY DEF TypeInv, PreviewRequests
<1>3. StoreInv' /\ Effect(c)
  <2>1. \A d \in Calls \ {c} : pc'[d] = pc[d] /\ request'[d] = request[d]
    BY DEF TypeInv
  <2> QED
    BY <2>1, StoresAlone
<1>4. CallInv(c)'
  <2>1. CallInv(c) /\ pc[c] = "new"
    OBVIOUS
  <2> QED
    BY <1>2, <2>1 DEF CallInv, OwnEvidence, Confirming, Deleting, Answered,
                      RowsApart, Exact, Near, Saved, ConfirmPhases,
                      AllowedPhases
<1> QED
  BY <1>1, <1>3, <1>4 DEF Kept

LEMMA FindByFileHashKeeps ==
  ASSUME IndInv, NEW c \in Calls, FindByFileHash(c)
  PROVE  Kept(c)
<1> USE DEF IndInv, FindByFileHash, Goto, Return, ReturnPrior, stateStore,
            evidenceStore
<1>1. \/ pc' = [pc EXCEPT ![c] = "listing"] /\ answer' = answer
      \/ /\ pc' = [pc EXCEPT ![c] = "done"]
         /\ \E r \in {"preview", "error"} : answer' = [answer EXCEPT ![c] = r]
  OBVIOUS
<1>2. TypeInv'
  BY <1>1 DEF TypeInv, Phases, PreviewPhases, Answers
<1>3. StoreInv' /\ Effect(c)
  <2>1. \A d \in Calls \ {c} : pc'[d] = pc[d] /\ answer'[d] = answer[d]
    BY <1>1 DEF TypeInv
  <2> QED
    BY <2>1, StoresAlone
<1>4. CallInv(c)'
  <2>1. CallInv(c) /\ pc[c] = "finding"
    OBVIOUS
  <2>2. \/ pc'[c] = "listing" /\ answer'[c] = answer[c]
        \/ pc'[c] = "done" /\ answer'[c] \in {"preview", "error"}
    BY <1>1 DEF TypeInv
  <2> QED
    BY <2>1, <2>2 DEF CallInv, OwnEvidence, Confirming, Deleting, Answered,
                      RowsApart, Exact, Near, Saved, ConfirmPhases,
                      AllowedPhases, PreviewPhases
<1> QED
  BY <1>2, <1>3, <1>4 DEF Kept

LEMMA ListExistingKeeps ==
  ASSUME IndInv, NEW c \in Calls, ListExisting(c)
  PROVE  Kept(c)
<1> USE DEF IndInv, ListExisting, Goto, stateStore, evidenceStore
<1>1. CallInv(c) /\ pc[c] = "listing" /\ request[c] \in PreviewRequests
  BY DEF CallInv, PreviewPhases
<1>2. rows'[c] \in RowSets /\ RowsApart(rows'[c])
  <2>1. request[c].account \in Accounts /\ request[c].file \in Files
    BY <1>1 DEF PreviewRequests
  <2>2. rows'[c] = PreviewRows(request[c].account, request[c].file,
                     Existing(request[c].user, request[c].account))
    BY DEF TypeInv
  <2> QED
    BY <2>1, <2>2, PreviewRowsOfFile
<1>3. TypeInv'
  <2>1. rows' \in [Calls -> RowSets]
    BY <1>2 DEF TypeInv
  <2>2. pc' \in [Calls -> Phases]
    BY DEF TypeInv, Phases, PreviewPhases
  <2> QED
    BY <2>1, <2>2 DEF TypeInv
<1>4. StoreInv' /\ Effect(c)
  <2>1. \A d \in Calls \ {c} : pc'[d] = pc[d] /\ rows'[d] = rows[d]
    BY DEF TypeInv
  <2> QED
    BY <2>1, StoresAlone
<1>5. CallInv(c)'
  <2>1. pc'[c] = "putting"
    BY DEF TypeInv
  <2>2. RowsApart(rows[c])'
    BY <1>2 DEF RowsApart, Exact, Near
  <2> QED
    BY <1>1, <2>1, <2>2 DEF CallInv, OwnEvidence, Confirming, Deleting,
                      Answered, Saved, ConfirmPhases, AllowedPhases,
                      PreviewPhases
<1> QED
  BY <1>3, <1>4, <1>5 DEF Kept

\* A step of a preview call that changes only its evidence and its own state.
LEMMA OwnEvidenceMoves ==
  ASSUME TypeInv, StoreInv, NEW c \in Calls, c \notin Saved,
         UNCHANGED <<previews, confirmed, forgotten, request, rows>>,
         evidence' \in {evidence, evidence \cup {c}, evidence \ {c}},
         \A d \in Calls \ {c} : pc'[d] = pc[d] /\ answer'[d] = answer[d]
  PROVE  StoreInv' /\ Effect(c)
<1>1. /\ OnePreviewPerFile' /\ (\A p \in Saved : RowsApart(previews[p].rows))'
      /\ (Confirmations \subseteq Saved)' /\ NothingConfirmedTwice'
      /\ (forgotten \subseteq Saved)'
  BY DEF StoreInv, OnePreviewPerFile, Saved, Confirmations, RowsApart, Exact,
         Near, NothingConfirmedTwice, Identities, Identity
<1>2. EvidenceAgrees'
  BY DEF StoreInv, EvidenceAgrees, Saved
<1>3. Effect(c)
  BY DEF Effect, Saved, Confirmations
<1> QED
  BY <1>1, <1>2, <1>3 DEF StoreInv

LEMMA PutEvidenceKeeps ==
  ASSUME IndInv, NEW c \in Calls, PutEvidence(c)
  PROVE  Kept(c)
<1> USE DEF IndInv, PutEvidence, Goto, Return, stateStore
<1>1. CallInv(c) /\ pc[c] = "putting" /\ c \notin Saved /\ answer[c] = "none"
  BY DEF CallInv, OwnEvidence, Answered
<1>2. \/ /\ pc' = [pc EXCEPT ![c] = "saving"] /\ answer' = answer
         /\ evidence' = evidence \cup {c}
      \/ /\ pc' = [pc EXCEPT ![c] = "done"]
         /\ answer' = [answer EXCEPT ![c] = "error"]
         /\ evidence' \in {evidence, evidence \cup {c}}
  OBVIOUS
<1>3. TypeInv'
  BY <1>2 DEF TypeInv, Phases, PreviewPhases, Answers
<1>4. StoreInv' /\ Effect(c)
  <2>1. \A d \in Calls \ {c} : pc'[d] = pc[d] /\ answer'[d] = answer[d]
    BY <1>2 DEF TypeInv
  <2> QED
    BY <1>1, <1>2, <2>1, OwnEvidenceMoves
<1>5. CallInv(c)'
  <2>1. \/ pc'[c] = "saving" /\ answer'[c] = "none" /\ c \in evidence'
        \/ pc'[c] = "done" /\ answer'[c] = "error"
    BY <1>1, <1>2 DEF TypeInv
  <2> QED
    BY <1>1, <2>1 DEF CallInv, OwnEvidence, Confirming, Deleting, Answered,
                      RowsApart, Exact, Near, Saved, ConfirmPhases,
                      AllowedPhases, PreviewPhases
<1> QED
  BY <1>3, <1>4, <1>5 DEF Kept

\* What Deletes(c, ok) does to the store, when it says so or not.
LEMMA DeletesMeans ==
  ASSUME NEW key, NEW ok \in BOOLEAN, Deletes(key, ok)
  PROVE  /\ evidence' \in {evidence, evidence \ {key}}
         /\ ok => evidence' = evidence \ {key}
  BY DEF Deletes

LEMMA DiscardEvidenceKeeps ==
  ASSUME IndInv, NEW c \in Calls, DiscardEvidence(c)
  PROVE  Kept(c)
<1> USE DEF IndInv, DiscardEvidence, Goto, Return, ReturnPrior, stateStore
<1>1. CallInv(c) /\ pc[c] = "discarding" /\ c \notin Saved
  BY DEF CallInv, OwnEvidence
<1>2. \/ /\ answer' \in {[answer EXCEPT ![c] = "preview"],
                         [answer EXCEPT ![c] = "error"]}
         /\ evidence' = evidence \ {c}
      \/ /\ answer' = [answer EXCEPT ![c] = "error"]
         /\ evidence' \in {evidence, evidence \ {c}}
  BY DeletesMeans
<1>3. pc' = [pc EXCEPT ![c] = "done"]
  OBVIOUS
<1>4. TypeInv'
  <2>1. answer' \in [Calls -> Answers]
    BY <1>2 DEF TypeInv, Answers
  <2>2. pc' \in [Calls -> Phases]
    BY <1>3 DEF TypeInv, Phases
  <2> QED
    BY <1>2, <2>1, <2>2 DEF TypeInv
<1>5. StoreInv' /\ Effect(c)
  <2>1. \A d \in Calls \ {c} : pc'[d] = pc[d] /\ answer'[d] = answer[d]
    BY <1>2, <1>3 DEF TypeInv
  <2> QED
    BY <1>1, <1>2, <2>1, OwnEvidenceMoves
<1>6. CallInv(c)'
  <2>1. /\ pc'[c] = "done"
        /\ \/ answer'[c] = "error"
           \/ answer'[c] = "preview" /\ c \notin evidence'
    BY <1>2, <1>3 DEF TypeInv
  <2> QED
    BY <1>1, <2>1 DEF CallInv, OwnEvidence, Confirming, Deleting, Answered,
                      RowsApart, Exact, Near, Saved, ConfirmPhases,
                      AllowedPhases, PreviewPhases
<1> QED
  BY <1>4, <1>5, <1>6 DEF Kept

LEMMA CleanUpEvidenceKeeps ==
  ASSUME IndInv, NEW c \in Calls, CleanUpEvidence(c)
  PROVE  Kept(c)
<1> USE DEF IndInv, CleanUpEvidence, Goto, Return, stateStore
<1>1. CallInv(c) /\ pc[c] = "cleaning" /\ c \notin Saved
  BY DEF CallInv, OwnEvidence
<1>2. evidence' \in {evidence, evidence \ {c}}
  BY DeletesMeans
<1>3. TypeInv'
  BY <1>2 DEF TypeInv, Phases, Answers
<1>4. StoreInv' /\ Effect(c)
  <2>1. \A d \in Calls \ {c} : pc'[d] = pc[d] /\ answer'[d] = answer[d]
    BY DEF TypeInv
  <2> QED
    BY <1>1, <1>2, <2>1, OwnEvidenceMoves
<1>5. CallInv(c)'
  <2>1. pc'[c] = "done" /\ answer'[c] = "error"
    BY DEF TypeInv
  <2> QED
    BY <1>1, <2>1 DEF CallInv, OwnEvidence, Confirming, Deleting, Answered,
                      RowsApart, Exact, Near, Saved, ConfirmPhases,
                      AllowedPhases, PreviewPhases
<1> QED
  BY <1>3, <1>4, <1>5 DEF Kept

LEMMA SavePreviewKeeps ==
  ASSUME IndInv, NEW c \in Calls, SavePreview(c)
  PROVE  Kept(c)
<1> USE DEF IndInv, Goto, Return, evidenceStore
<1>1. /\ CallInv(c) /\ pc[c] = "saving" /\ c \notin Saved /\ c \in evidence
      /\ answer[c] = "none" /\ request[c] \in PreviewRequests
  BY DEF SavePreview, CallInv, OwnEvidence, Answered, PreviewPhases
<1>2. CASE SameFile(request[c].user, request[c].file) = {} /\ answer' # answer
  <2> DEFINE r == request[c]
             new == [user |-> r.user, account |-> r.account, file |-> r.file,
                     rows |-> rows[c], state |-> "preview_ready"]
  <2>1. /\ previews' = [previews EXCEPT ![c] = new]
        /\ pc' = [pc EXCEPT ![c] = "done"]
        /\ answer' = [answer EXCEPT ![c] = "preview"]
        /\ UNCHANGED <<confirmed, evidence, forgotten, request, rows>>
    BY <1>2 DEF SavePreview
  <2>2. new \in PreviewRecords /\ new # None
    BY <1>1, NoneAssumption
       DEF TypeInv, PreviewRequests, PreviewRecords, RowSets
  <2>3. /\ new.user = r.user /\ new.file = r.file /\ new.rows = rows[c]
        /\ new.state = "preview_ready"
    OBVIOUS
  <2> HIDE DEF new
  <2>4. /\ previews'[c] = new /\ pc'[c] = "done" /\ answer'[c] = "preview"
        /\ \A d \in Calls \ {c} :
             /\ previews'[d] = previews[d] /\ pc'[d] = pc[d]
             /\ answer'[d] = answer[d]
    BY <2>1 DEF TypeInv
  <2>5. Saved' = Saved \cup {c}
    BY <2>2, <2>4 DEF Saved
  <2>6. Confirmations' = Confirmations /\ c \notin Confirmations
    BY <1>1, <2>1 DEF StoreInv, Confirmations
  <2>7. TypeInv'
    BY <2>1, <2>2 DEF TypeInv, Phases, Answers
  <2>8. StoreInv'
    <3>1. OnePreviewPerFile'
      <4>1. \A p \in Saved :
              ~(previews[p].user = r.user /\ previews[p].file = r.file)
        BY <1>2 DEF SameFile
      <4> QED
        BY <1>1, <2>3, <2>4, <2>5, <4>1 DEF StoreInv, OnePreviewPerFile, Saved
    <3>2. (\A p \in Saved : RowsApart(previews[p].rows))'
      BY <1>1, <2>1, <2>3, <2>4, <2>5
         DEF StoreInv, CallInv, RowsApart, Exact, Near, Saved
    <3>3. (Confirmations \subseteq Saved)' /\ (forgotten \subseteq Saved)'
      BY <2>1, <2>5, <2>6 DEF StoreInv
    <3>4. NothingConfirmedTwice'
      BY <2>1, <2>4, <2>6
         DEF StoreInv, NothingConfirmedTwice, Identities, Identity,
             Confirmations
    <3>5. EvidenceAgrees'
      BY <1>1, <2>1, <2>3, <2>4, <2>5 DEF StoreInv, EvidenceAgrees, Saved
    <3> QED
      BY <3>1, <3>2, <3>3, <3>4, <3>5 DEF StoreInv
  <2>9. Effect(c)
    BY <1>1, <2>1, <2>4 DEF Effect, Saved
  <2>10. CallInv(c)'
    BY <1>1, <2>1, <2>4, <2>5
       DEF CallInv, OwnEvidence, Confirming, Deleting, Answered, RowsApart,
           Exact, Near, ConfirmPhases, AllowedPhases, PreviewPhases
  <2> QED
    BY <2>7, <2>8, <2>9, <2>10 DEF Kept
<1>3. CASE /\ UNCHANGED <<previews, confirmed, evidence, forgotten, request,
                          rows, answer>>
           /\ \E next \in {"discarding", "cleaning"} :
                pc' = [pc EXCEPT ![c] = next]
  <2>1. TypeInv'
    BY <1>3 DEF TypeInv, Phases, PreviewPhases
  <2>2. pc'[c] \in {"discarding", "cleaning"}
    BY <1>3 DEF TypeInv
  <2>3. \A d \in Calls \ {c} : pc'[d] = pc[d]
    BY <1>3 DEF TypeInv
  <2>4. StoreInv' /\ Effect(c)
    BY <1>3, <2>3, StoresAlone
  <2>5. CallInv(c)'
    BY <1>1, <1>3, <2>2
       DEF CallInv, OwnEvidence, Confirming, Deleting, Answered, RowsApart,
           Exact, Near, Saved, ConfirmPhases, AllowedPhases, PreviewPhases
  <2> QED
    BY <2>1, <2>4, <2>5 DEF Kept
<1>4. \/ SameFile(request[c].user, request[c].file) = {} /\ answer' # answer
      \/ /\ UNCHANGED <<previews, confirmed, evidence, forgotten, request,
                        rows, answer>>
         /\ \E next \in {"discarding", "cleaning"} :
              pc' = [pc EXCEPT ![c] = next]
  <2>1. [answer EXCEPT ![c] = "preview"] # answer
    BY <1>1 DEF TypeInv
  <2> QED
    BY <2>1 DEF SavePreview
<1> QED
  BY <1>2, <1>3, <1>4

-----------------------------------------------------------------------------
(***************************************************************************)
(* confirmImport.                                                          *)
(***************************************************************************)
LEMMA StartConfirmKeeps ==
  ASSUME IndInv, NEW c \in Calls, NEW u \in Users, NEW p \in Saved,
         NEW chosen \in SUBSET {r.candidate : r \in previews[p].rows},
         StartConfirm(c, u, p, Ids(chosen))
  PROVE  Kept(c)
<1> USE DEF IndInv, Goto, stateStore, evidenceStore
<1>1. CallInv(c) /\ pc[c] = "new"
  BY DEF StartConfirm
<1>2. Ids(chosen) \in SUBSET Ids(Candidates)
  <2>1. previews[p].rows \in RowSets
    BY NoneAssumption DEF TypeInv, Saved, PreviewRecords, RowSets
  <2>2. chosen \subseteq Candidates
    BY <2>1 DEF RowSets
  <2> QED
    BY <2>2 DEF Ids
<1> DEFINE ids == Ids(chosen)
           r == [user |-> u, preview |-> p, ids |-> ids]
<1> HIDE DEF ids
<1>3. r \in ConfirmRequests /\ r.preview = p
  BY <1>2 DEF ConfirmRequests, Saved, ids
<1>4. /\ request' = [request EXCEPT ![c] = r]
      /\ pc' = [pc EXCEPT ![c] = "loading"]
      /\ UNCHANGED <<previews, confirmed, evidence, forgotten, rows, answer>>
  BY DEF StartConfirm, ids
<1> HIDE DEF r
<1>5. TypeInv'
  BY <1>3, <1>4 DEF TypeInv, Phases, ConfirmPhases
<1>6. /\ pc'[c] = "loading" /\ request'[c] = r
      /\ \A d \in Calls \ {c} : pc'[d] = pc[d] /\ request'[d] = request[d]
  BY <1>4 DEF TypeInv
<1>7. StoreInv' /\ Effect(c)
  BY <1>4, <1>6, StoresAlone
<1>8. CallInv(c)'
  BY <1>1, <1>3, <1>4, <1>6
     DEF CallInv, OwnEvidence, Confirming, Deleting, Answered, RowsApart,
         Exact, Near, Saved, ConfirmPhases, AllowedPhases, PreviewPhases
<1> QED
  BY <1>5, <1>7, <1>8 DEF Kept

LEMMA LoadPreviewKeeps ==
  ASSUME IndInv, NEW c \in Calls, LoadPreview(c)
  PROVE  Kept(c)
<1> USE DEF IndInv, LoadPreview, Goto, Return, stateStore, evidenceStore
<1>1. CallInv(c) /\ pc[c] = "loading"
  OBVIOUS
<1>2. \/ /\ pc' = [pc EXCEPT ![c] = "confirming"] /\ answer' = answer
         /\ previews[request[c].preview].user = request[c].user
         /\ request[c].ids \subseteq Ids(Selectable(previews[request[c].preview]))
      \/ /\ pc' = [pc EXCEPT ![c] = "done"]
         /\ answer' = [answer EXCEPT ![c] = "error"]
  OBVIOUS
<1>3. TypeInv'
  BY <1>2 DEF TypeInv, Phases, ConfirmPhases, Answers
<1>4. \A d \in Calls \ {c} : pc'[d] = pc[d] /\ answer'[d] = answer[d]
  BY <1>2 DEF TypeInv
<1>5. StoreInv' /\ Effect(c)
  BY <1>4, StoresAlone
<1>6. CallInv(c)'
  <2>1. \/ /\ pc'[c] = "confirming" /\ answer'[c] = answer[c]
           /\ previews[request[c].preview].user = request[c].user
           /\ request[c].ids
                \subseteq Ids(Selectable(previews[request[c].preview]))
        \/ pc'[c] = "done" /\ answer'[c] = "error"
    BY <1>2 DEF TypeInv
  <2> QED
    BY <1>1, <2>1
       DEF CallInv, OwnEvidence, Confirming, Deleting, Answered, RowsApart,
           Exact, Near, Saved, ConfirmPhases, AllowedPhases, PreviewPhases,
           Selectable, Ids, Id
<1> QED
  BY <1>3, <1>5, <1>6 DEF Kept

\* A preview whose state is set keeps the rest.
LEMMA StateSet ==
  ASSUME TypeInv, NEW p \in Saved, NEW s \in States,
         previews' = [previews EXCEPT ![p].state = s]
  PROVE  /\ previews' \in [Calls -> PreviewRecords \cup {None}]
         /\ Saved' = Saved
         /\ \A q \in Saved :
              /\ previews'[q].user = previews[q].user
              /\ previews'[q].account = previews[q].account
              /\ previews'[q].file = previews[q].file
              /\ previews'[q].rows = previews[q].rows
         /\ previews'[p].state = s
         /\ \A q \in Calls : q # p => previews'[q] = previews[q]
<1>1. previews[p] \in PreviewRecords
  BY DEF TypeInv, Saved
<1>2. [previews[p] EXCEPT !.state = s] \in PreviewRecords
  BY <1>1 DEF PreviewRecords, States
<1>3. previews'[p] = [previews[p] EXCEPT !.state = s]
  BY DEF TypeInv, Saved
<1>4. \A q \in Calls : q # p => previews'[q] = previews[q]
  BY DEF TypeInv
<1>5. previews' \in [Calls -> PreviewRecords \cup {None}]
  BY <1>2 DEF TypeInv, Saved
<1>6. Saved' = Saved
  BY <1>2, <1>3, <1>4, NoneAssumption DEF Saved
<1>7. /\ previews'[p].user = previews[p].user
      /\ previews'[p].account = previews[p].account
      /\ previews'[p].file = previews[p].file
      /\ previews'[p].rows = previews[p].rows
      /\ previews'[p].state = s
  BY <1>1, <1>3 DEF PreviewRecords
<1>8. \A q \in Saved : q \in Calls
  BY DEF Saved
<1> QED
  BY <1>4, <1>5, <1>6, <1>7, <1>8

LEMMA ConfirmKeeps ==
  ASSUME IndInv, NEW c \in Calls, Confirm(c)
  PROVE  Kept(c)
<1> USE DEF IndInv, Goto, Return, evidenceStore
<1>0. PICK p, u : p = request[c].preview /\ u = request[c].user
  OBVIOUS
<1>1. /\ CallInv(c) /\ pc[c] = "confirming" /\ p \in Saved /\ c \notin Saved
      /\ c \notin evidence /\ previews[p].user = u
      /\ request[c].ids \subseteq Ids(Selectable(previews[p]))
  BY <1>0 DEF Confirm, CallInv, Confirming, OwnEvidence, ConfirmPhases
<1>2. Chosen(c) \in SUBSET Candidates /\ Ids(Chosen(c)) = request[c].ids
  <2>1. previews[p].rows \in RowSets
    BY <1>1, NoneAssumption DEF TypeInv, Saved, PreviewRecords, RowSets
  <2>2. Selectable(previews[p]) \subseteq Candidates
    BY <2>1 DEF Selectable, RowSets
  <2>3. Ids(Chosen(c)) = request[c].ids
    BY <1>0, <1>1 DEF Chosen, Ids
  <2> QED
    BY <1>0, <2>2, <2>3 DEF Chosen
<1>3. \A d \in Calls \ {c} : pc'[d] = pc[d] /\ answer'[d] = answer[d]
  BY DEF Confirm, TypeInv
<1>4. CASE confirmed[p] = None /\ NoneTaken(c)
  <2> DEFINE s == StateOnceConfirmed(previews[p].state)
  <2>1. /\ confirmed' = [confirmed EXCEPT ![p] = Chosen(c)]
        /\ previews' = [previews EXCEPT ![p].state = s]
        /\ pc' = [pc EXCEPT ![c] = "done"]
        /\ answer' = [answer EXCEPT ![c] = "confirmed"]
        /\ UNCHANGED <<evidence, forgotten, request, rows>>
    BY <1>0, <1>4 DEF Confirm
  <2>2. s \in States /\ (previews[p].state \in {"non_reproducible",
                           "deletion_pending"} => s = previews[p].state)
        /\ (previews[p].state \notin {"non_reproducible", "deletion_pending"}
             => s = "confirmed")
    BY DEF StateOnceConfirmed, States
  <2> HIDE DEF s
  <2>3. /\ previews' \in [Calls -> PreviewRecords \cup {None}]
        /\ Saved' = Saved
        /\ \A q \in Saved :
             /\ previews'[q].user = previews[q].user
             /\ previews'[q].file = previews[q].file
             /\ previews'[q].rows = previews[q].rows
        /\ previews'[p].state = s
        /\ \A q \in Calls : q # p => previews'[q] = previews[q]
    BY <1>1, <2>1, <2>2, StateSet
  <2>4. /\ pc'[c] = "done" /\ answer'[c] = "confirmed"
        /\ confirmed'[p] = Chosen(c)
        /\ \A q \in Calls : q # p => confirmed'[q] = confirmed[q]
    BY <1>1, <2>1 DEF TypeInv, Saved
  <2>5. p \in Calls /\ p \notin Confirmations
        /\ Confirmations' = Confirmations \cup {p}
    BY <1>1, <1>2, <1>4, <2>4, NoneAssumption DEF Confirmations, Saved
  <2>6. TypeInv'
    <3>1. confirmed' \in [Calls -> (SUBSET Candidates) \cup {None}]
      BY <1>2, <2>1 DEF TypeInv
    <3> QED
      BY <2>1, <2>3, <3>1 DEF TypeInv, Phases, Answers
  <2>7. StoreInv'
    <3>1. OnePreviewPerFile'
      BY <2>3 DEF StoreInv, OnePreviewPerFile
    <3>2. (\A q \in Saved : RowsApart(previews[q].rows))'
      BY <2>3 DEF StoreInv, RowsApart, Exact, Near
    <3>3. (Confirmations \subseteq Saved)' /\ (forgotten \subseteq Saved)'
      BY <1>1, <2>1, <2>3, <2>5 DEF StoreInv
    <3>4. NothingConfirmedTwice'
      <4>1. \A q \in Confirmations : Identities(q)' = Identities(q)
        BY <2>3, <2>4, <2>5
           DEF StoreInv, Identities, Identity, Confirmations
      <4>2. Identities(p)' = {Identity(u, x) : x \in Chosen(c)}
        BY <1>1, <2>3, <2>4 DEF Identities, Identity
      <4>3. \A q \in Confirmations : Identities(p)' \cap Identities(q) = {}
        BY <1>0, <1>4, <4>2 DEF NoneTaken
      <4>4. \A q \in Confirmations : Identities(p)' \cap Identities(q)' = {}
        BY <4>1, <4>3
      <4>5. \A q, r \in Confirmations :
              q # r => Identities(q)' \cap Identities(r)' = {}
        BY <4>1 DEF StoreInv, NothingConfirmedTwice
      <4> QED
        BY <2>5, <4>4, <4>5 DEF NothingConfirmedTwice
    <3>5. EvidenceAgrees'
      BY <2>1, <2>2, <2>3 DEF StoreInv, EvidenceAgrees, TypeInv, Saved,
                              PreviewRecords
    <3> QED
      BY <3>1, <3>2, <3>3, <3>4, <3>5 DEF StoreInv
  <2>8. Effect(c)
    <3>1. \A q \in Saved : previews'[q] # None
      BY <2>3 DEF Saved
    <3>2. \A q \in Confirmations : confirmed'[q] = confirmed[q]
      BY <2>4, <2>5 DEF Confirmations
    <3>3. \A d \in Calls : previews[d] = None => previews'[d] = None
      BY <2>3 DEF Saved
    <3> QED
      BY <1>3, <2>1, <2>2, <2>3, <3>1, <3>2, <3>3 DEF Effect, Saved
  <2>9. CallInv(c)'
    <3>1. Answered(c)'
      BY <1>0, <1>1, <1>2, <2>1, <2>3, <2>4, <2>5 DEF Answered, Ids, Id
    <3> QED
      BY <1>1, <2>1, <2>3, <2>4, <3>1
         DEF CallInv, OwnEvidence, Confirming, Deleting, RowsApart, Exact,
             Near, ConfirmPhases, AllowedPhases, PreviewPhases
  <2> QED
    BY <2>6, <2>7, <2>8, <2>9 DEF Kept
<1>5. CASE ~(confirmed[p] = None /\ NoneTaken(c))
  <2>1. /\ UNCHANGED <<previews, confirmed, evidence, forgotten, request, rows>>
        /\ pc' = [pc EXCEPT ![c] = "done"]
        /\ \/ answer' = [answer EXCEPT ![c] = "conflict"]
           \/ /\ answer' = [answer EXCEPT ![c] = "already_confirmed"]
              /\ confirmed[p] # None /\ confirmed[p] = Chosen(c)
    BY <1>0, <1>5 DEF Confirm, stateStore
  <2>2. TypeInv'
    BY <2>1 DEF TypeInv, Phases, Answers
  <2>3. StoreInv' /\ Effect(c)
    BY <1>3, <2>1, StoresAlone
  <2>4. CallInv(c)'
    <3>1. /\ pc'[c] = "done"
          /\ \/ answer'[c] = "conflict"
             \/ /\ answer'[c] = "already_confirmed"
                /\ p \in Confirmations /\ confirmed[p] = Chosen(c)
      BY <1>1, <2>1 DEF TypeInv, Confirmations, Saved
    <3>2. Answered(c)'
      BY <1>0, <1>1, <1>2, <2>1, <3>1
         DEF Answered, Ids, Id, Saved, Confirmations
    <3> QED
      BY <1>1, <2>1, <3>1, <3>2
         DEF CallInv, OwnEvidence, Confirming, Deleting, RowsApart, Exact,
             Near, Saved, ConfirmPhases, AllowedPhases, PreviewPhases
  <2> QED
    BY <2>2, <2>3, <2>4 DEF Kept
<1> QED
  BY <1>4, <1>5

-----------------------------------------------------------------------------
(***************************************************************************)
(* deleteImportEvidence.                                                   *)
(***************************************************************************)
LEMMA StartDeletionKeeps ==
  ASSUME IndInv, NEW c \in Calls, NEW u \in Users, NEW p \in Saved,
         StartDeletion(c, u, p)
  PROVE  Kept(c)
<1> USE DEF IndInv, Goto, stateStore, evidenceStore
<1>1. CallInv(c) /\ pc[c] = "new"
  BY DEF StartDeletion
<1> DEFINE r == [user |-> u, preview |-> p]
<1>2. r \in DeletionRequests /\ r.preview = p
  BY DEF DeletionRequests, Saved
<1>3. /\ request' = [request EXCEPT ![c] = r]
      /\ pc' = [pc EXCEPT ![c] = "loading_deletion"]
      /\ UNCHANGED <<previews, confirmed, evidence, forgotten, rows, answer>>
  BY DEF StartDeletion
<1> HIDE DEF r
<1>4. TypeInv'
  BY <1>2, <1>3 DEF TypeInv, Phases
<1>5. /\ pc'[c] = "loading_deletion" /\ request'[c] = r
      /\ \A d \in Calls \ {c} : pc'[d] = pc[d] /\ request'[d] = request[d]
  BY <1>3 DEF TypeInv
<1>6. StoreInv' /\ Effect(c)
  BY <1>3, <1>5, StoresAlone
<1>7. CallInv(c)'
  BY <1>1, <1>2, <1>3, <1>5
     DEF CallInv, OwnEvidence, Confirming, Deleting, Answered, RowsApart,
         Exact, Near, Saved, ConfirmPhases, AllowedPhases, PreviewPhases
<1> QED
  BY <1>4, <1>6, <1>7 DEF Kept

LEMMA LoadForDeletionKeeps ==
  ASSUME IndInv, NEW c \in Calls, LoadForDeletion(c)
  PROVE  Kept(c)
<1> USE DEF IndInv, LoadForDeletion, Goto, Return, stateStore, evidenceStore
<1>1. CallInv(c) /\ pc[c] = "loading_deletion"
  OBVIOUS
<1>2. \/ /\ pc' = [pc EXCEPT ![c] = "marking"] /\ answer' = answer
         /\ previews[request[c].preview].user = request[c].user
      \/ /\ pc' = [pc EXCEPT ![c] = "done"]
         /\ answer' = [answer EXCEPT ![c] = "error"]
  OBVIOUS
<1>3. TypeInv'
  BY <1>2 DEF TypeInv, Phases, AllowedPhases, Answers
<1>4. \A d \in Calls \ {c} : pc'[d] = pc[d] /\ answer'[d] = answer[d]
  BY <1>2 DEF TypeInv
<1>5. StoreInv' /\ Effect(c)
  BY <1>4, StoresAlone
<1>6. CallInv(c)'
  <2>1. \/ /\ pc'[c] = "marking" /\ answer'[c] = answer[c]
           /\ previews[request[c].preview].user = request[c].user
        \/ pc'[c] = "done" /\ answer'[c] = "error"
    BY <1>2 DEF TypeInv
  <2> QED
    BY <1>1, <2>1
       DEF CallInv, OwnEvidence, Confirming, Deleting, Answered, RowsApart,
           Exact, Near, Saved, ConfirmPhases, AllowedPhases, PreviewPhases
<1> QED
  BY <1>3, <1>5, <1>6 DEF Kept

\* A step of c that sets the state of a preview: to pending unless it is beyond
\* that, or to not reproducible when its evidence is gone.
LEMMA StateMoves ==
  ASSUME TypeInv, StoreInv, NEW c \in Calls, NEW p \in Saved,
         NEW s \in {"deletion_pending", "non_reproducible"},
         s = "deletion_pending" => previews[p].state # "non_reproducible",
         s = "non_reproducible"
           => p \notin evidence \/ previews[p].state = "non_reproducible",
         previews' = [previews EXCEPT ![p].state = s],
         UNCHANGED <<confirmed, evidence, forgotten, request, rows, answer>>,
         \A d \in Calls \ {c} : pc'[d] = pc[d]
  PROVE  /\ previews' \in [Calls -> PreviewRecords \cup {None}]
         /\ StoreInv' /\ Effect(c)
         /\ Saved' = Saved /\ previews'[p].state = s
         /\ previews'[p].user = previews[p].user
<1>1. /\ previews' \in [Calls -> PreviewRecords \cup {None}]
      /\ Saved' = Saved
      /\ \A q \in Saved :
           /\ previews'[q].user = previews[q].user
           /\ previews'[q].file = previews[q].file
           /\ previews'[q].rows = previews[q].rows
      /\ previews'[p].state = s
      /\ \A q \in Calls : q # p => previews'[q] = previews[q]
  <2>1. s \in States
    BY DEF States
  <2> QED
    BY <2>1, StateSet
<1>2. Confirmations' = Confirmations
  BY DEF Confirmations
<1>3. StoreInv'
  <2>1. OnePreviewPerFile' /\ (\A q \in Saved : RowsApart(previews[q].rows))'
        /\ (Confirmations \subseteq Saved)' /\ (forgotten \subseteq Saved)'
    BY <1>1, <1>2 DEF StoreInv, OnePreviewPerFile, RowsApart, Exact, Near
  <2>2. NothingConfirmedTwice'
    <3>1. \A q \in Confirmations : Identities(q)' = Identities(q)
      BY <1>1 DEF StoreInv, Identities, Identity
    <3> QED
      BY <1>2, <3>1 DEF StoreInv, NothingConfirmedTwice
  <2>3. EvidenceAgrees'
    BY <1>1 DEF StoreInv, EvidenceAgrees, Saved
  <2> QED
    BY <2>1, <2>2, <2>3 DEF StoreInv
<1>4. Effect(c)
  <2>1. \A q \in Saved : previews'[q] # None
    BY <1>1 DEF Saved
  <2>2. \A d \in Calls : previews[d] = None => previews'[d] = None
    BY <1>1 DEF Saved
  <2> QED
    BY <1>1, <2>1, <2>2 DEF Effect, Saved, Confirmations
<1> QED
  BY <1>1, <1>3, <1>4

LEMMA MarkEvidenceDeletionPendingKeeps ==
  ASSUME IndInv, NEW c \in Calls, MarkEvidenceDeletionPending(c)
  PROVE  Kept(c)
<1> USE DEF IndInv, Goto, evidenceStore
<1>0. PICK p : p = request[c].preview
  OBVIOUS
<1>1. /\ CallInv(c) /\ pc[c] = "marking" /\ p \in Saved
      /\ previews[p].user = request[c].user
  BY <1>0 DEF MarkEvidenceDeletionPending, CallInv, Deleting, AllowedPhases
<1> DEFINE s == IF previews[p].state = "non_reproducible"
                THEN previews[p].state ELSE "deletion_pending"
<1>2. /\ previews' = [previews EXCEPT ![p].state = s]
      /\ pc' = [pc EXCEPT ![c] = "deleting"]
      /\ UNCHANGED <<confirmed, evidence, forgotten, request, rows, answer>>
  BY <1>0 DEF MarkEvidenceDeletionPending
<1>3. /\ s \in {"deletion_pending", "non_reproducible"}
      /\ s = "deletion_pending" => previews[p].state # "non_reproducible"
      /\ s = "non_reproducible" => previews[p].state = "non_reproducible"
  OBVIOUS
<1> HIDE DEF s
<1>4. pc'[c] = "deleting" /\ \A d \in Calls \ {c} : pc'[d] = pc[d]
  BY <1>2 DEF TypeInv
<1>5. /\ previews' \in [Calls -> PreviewRecords \cup {None}]
      /\ StoreInv' /\ Effect(c)
      /\ Saved' = Saved /\ previews'[p].state = s
      /\ previews'[p].user = previews[p].user
  BY <1>1, <1>2, <1>3, <1>4, StateMoves
<1>6. TypeInv'
  BY <1>2, <1>5 DEF TypeInv, Phases, AllowedPhases
<1>7. CallInv(c)'
  BY <1>0, <1>1, <1>2, <1>3, <1>4, <1>5
     DEF CallInv, OwnEvidence, Confirming, Deleting, Answered, RowsApart,
         Exact, Near, ConfirmPhases, AllowedPhases, PreviewPhases
<1> QED
  BY <1>5, <1>6, <1>7 DEF Kept

LEMMA DeleteEvidenceKeeps ==
  ASSUME IndInv, NEW c \in Calls, DeleteEvidence(c)
  PROVE  Kept(c)
<1> USE DEF IndInv, DeleteEvidence, Goto, Return, stateStore
<1>0. PICK p : p = request[c].preview
  OBVIOUS
<1>1. /\ CallInv(c) /\ pc[c] = "deleting" /\ p \in Saved
      /\ previews[p].user = request[c].user
      /\ previews[p].state \in {"deletion_pending", "non_reproducible"}
      /\ c \notin evidence
  BY <1>0 DEF CallInv, OwnEvidence, Deleting, AllowedPhases
<1>2. /\ evidence' \in {evidence, evidence \ {p}}
      /\ \/ /\ evidence' = evidence \ {p}
            /\ pc' = [pc EXCEPT ![c] = "finishing"] /\ answer' = answer
         \/ /\ pc' = [pc EXCEPT ![c] = "done"]
            /\ answer' = [answer EXCEPT ![c] = "error"]
  BY <1>0, DeletesMeans
<1>3. TypeInv'
  BY <1>2 DEF TypeInv, Phases, AllowedPhases, Answers
<1>4. \A d \in Calls \ {c} : pc'[d] = pc[d] /\ answer'[d] = answer[d]
  BY <1>2 DEF TypeInv
<1>5. StoreInv'
  <2>1. OnePreviewPerFile' /\ (\A q \in Saved : RowsApart(previews[q].rows))'
        /\ (Confirmations \subseteq Saved)' /\ NothingConfirmedTwice'
        /\ (forgotten \subseteq Saved)'
    BY DEF StoreInv, OnePreviewPerFile, Saved, Confirmations, RowsApart, Exact,
           Near, NothingConfirmedTwice, Identities, Identity
  <2>2. EvidenceAgrees'
    BY <1>1, <1>2 DEF StoreInv, EvidenceAgrees, Saved
  <2> QED
    BY <2>1, <2>2 DEF StoreInv
<1>6. Effect(c)
  BY <1>1, <1>2, <1>4 DEF Effect, Saved, Confirmations
<1>7. CallInv(c)'
  <2>1. \/ /\ pc'[c] = "finishing" /\ answer'[c] = answer[c]
           /\ p \notin evidence'
        \/ pc'[c] = "done" /\ answer'[c] = "error"
    BY <1>2 DEF TypeInv
  <2> QED
    BY <1>0, <1>1, <1>2, <2>1
       DEF CallInv, OwnEvidence, Confirming, Deleting, Answered, RowsApart,
           Exact, Near, Saved, ConfirmPhases, AllowedPhases, PreviewPhases
<1> QED
  BY <1>3, <1>5, <1>6, <1>7 DEF Kept

LEMMA MarkNonReproducibleKeeps ==
  ASSUME IndInv, NEW c \in Calls, MarkNonReproducible(c)
  PROVE  Kept(c)
<1> USE DEF IndInv, Goto, evidenceStore
<1>0. PICK p : p = request[c].preview
  OBVIOUS
<1>1. /\ CallInv(c) /\ pc[c] = "finishing" /\ p \in Saved
      /\ previews[p].user = request[c].user /\ p \notin evidence
  BY <1>0 DEF MarkNonReproducible, CallInv, Deleting, AllowedPhases
<1>2. /\ previews' = [previews EXCEPT ![p].state = "non_reproducible"]
      /\ pc' = [pc EXCEPT ![c] = "noting"]
      /\ UNCHANGED <<confirmed, evidence, forgotten, request, rows, answer>>
  BY <1>0 DEF MarkNonReproducible
<1>3. pc'[c] = "noting" /\ \A d \in Calls \ {c} : pc'[d] = pc[d]
  BY <1>2 DEF TypeInv
<1>4. /\ previews' \in [Calls -> PreviewRecords \cup {None}]
      /\ StoreInv' /\ Effect(c)
      /\ Saved' = Saved /\ previews'[p].state = "non_reproducible"
      /\ previews'[p].user = previews[p].user
  BY <1>1, <1>2, <1>3, StateMoves
<1>5. TypeInv'
  BY <1>2, <1>4 DEF TypeInv, Phases, AllowedPhases
<1>6. CallInv(c)'
  BY <1>0, <1>1, <1>2, <1>3, <1>4
     DEF CallInv, OwnEvidence, Confirming, Deleting, Answered, RowsApart,
         Exact, Near, ConfirmPhases, AllowedPhases, PreviewPhases
<1> QED
  BY <1>4, <1>5, <1>6 DEF Kept

LEMMA MarkEvidenceNonReproducibleKeeps ==
  ASSUME IndInv, NEW c \in Calls, MarkEvidenceNonReproducible(c)
  PROVE  Kept(c)
<1> USE DEF IndInv, MarkEvidenceNonReproducible, Goto, Return, stateStore
<1>0. PICK p : p = request[c].preview
  OBVIOUS
<1>1. /\ CallInv(c) /\ pc[c] = "noting" /\ p \in Saved
      /\ previews[p].user = request[c].user
      /\ previews[p].state = "non_reproducible" /\ c \notin evidence
  BY <1>0 DEF CallInv, OwnEvidence, Deleting, AllowedPhases
<1>2. /\ pc' = [pc EXCEPT ![c] = "done"]
      /\ \/ answer' = [answer EXCEPT ![c] = "deleted"]
         \/ answer' = [answer EXCEPT ![c] = "error"]
      /\ forgotten' \in {forgotten, forgotten \cup {p}}
  BY <1>0
<1>3. TypeInv'
  BY <1>1, <1>2 DEF TypeInv, Phases, Answers, Saved
<1>4. \A d \in Calls \ {c} : pc'[d] = pc[d] /\ answer'[d] = answer[d]
  BY <1>2 DEF TypeInv
<1>5. StoreInv'
  <2>1. OnePreviewPerFile' /\ (\A q \in Saved : RowsApart(previews[q].rows))'
        /\ (Confirmations \subseteq Saved)' /\ NothingConfirmedTwice'
    BY DEF StoreInv, OnePreviewPerFile, Saved, Confirmations, RowsApart, Exact,
           Near, NothingConfirmedTwice, Identities, Identity
  <2>2. (forgotten \subseteq Saved)' /\ EvidenceAgrees'
    BY <1>1, <1>2 DEF StoreInv, EvidenceAgrees, Saved
  <2> QED
    BY <2>1, <2>2 DEF StoreInv
<1>6. Effect(c)
  BY <1>4 DEF Effect, Saved, Confirmations
<1>7. CallInv(c)'
  <2>1. pc'[c] = "done" /\ answer'[c] \in {"deleted", "error"}
    BY <1>2 DEF TypeInv
  <2> QED
    BY <1>0, <1>1, <2>1
       DEF CallInv, OwnEvidence, Confirming, Deleting, Answered, RowsApart,
           Exact, Near, Saved, ConfirmPhases, AllowedPhases, PreviewPhases
<1> QED
  BY <1>3, <1>5, <1>6, <1>7 DEF Kept

-----------------------------------------------------------------------------
(***************************************************************************)
(* The inductive invariant.                                                *)
(***************************************************************************)
LEMMA Initially == Init => IndInv
<1> SUFFICES ASSUME Init PROVE IndInv
  OBVIOUS
<1> USE DEF Init
<1>1. TypeInv
  BY DEF TypeInv, Phases, RowSets, Answers
<1>2. Saved = {} /\ Confirmations = {}
  BY DEF Saved, Confirmations
<1>3. StoreInv
  BY <1>2 DEF StoreInv, OnePreviewPerFile, NothingConfirmedTwice,
              EvidenceAgrees
<1>4. \A c \in Calls : CallInv(c)
  BY <1>2 DEF CallInv, RowsApart, OwnEvidence, Confirming, Deleting, Answered,
              PreviewPhases, ConfirmPhases, AllowedPhases
<1> QED
  BY <1>1, <1>3, <1>4 DEF IndInv

\* Every step is one of a call that keeps what Kept says.
LEMMA SomeCallSteps ==
  ASSUME IndInv, Next
  PROVE  \E c \in Calls : Kept(c)
<1>1. PICK c \in Calls : Preview(c) \/ Confirmation(c) \/ Deletion(c)
  BY DEF Next
<1>2. CASE Preview(c)
  BY <1>2, StartPreviewKeeps, FindByFileHashKeeps, ListExistingKeeps,
     PutEvidenceKeeps, SavePreviewKeeps, DiscardEvidenceKeeps,
     CleanUpEvidenceKeeps DEF Preview
<1>3. CASE Confirmation(c)
  BY <1>3, StartConfirmKeeps, LoadPreviewKeeps, ConfirmKeeps DEF Confirmation
<1>4. CASE Deletion(c)
  BY <1>4, StartDeletionKeeps, LoadForDeletionKeeps,
     MarkEvidenceDeletionPendingKeeps, DeleteEvidenceKeeps,
     MarkNonReproducibleKeeps, MarkEvidenceNonReproducibleKeeps DEF Deletion
<1> QED
  BY <1>1, <1>2, <1>3, <1>4

LEMMA Stuttering == IndInv /\ UNCHANGED vars => IndInv'
  BY DEF IndInv, TypeInv, StoreInv, CallInv, vars, OnePreviewPerFile, Saved,
         Confirmations, RowsApart, Exact, Near, NothingConfirmedTwice,
         Identities, Identity, EvidenceAgrees, OwnEvidence, Confirming,
         Deleting, Answered, Selectable, Ids, Id

LEMMA Inductive == IndInv /\ [Next]_vars => IndInv'
<1>1. ASSUME IndInv, Next PROVE IndInv'
  <2>1. PICK c \in Calls : Kept(c)
    BY <1>1, SomeCallSteps
  <2>2. \A d \in Calls \ {c} : CallInv(d)'
    BY <1>1, <2>1, OthersKept DEF IndInv, Kept
  <2> QED
    BY <2>1, <2>2 DEF IndInv, Kept
<1> QED
  BY <1>1, Stuttering

\* IndInv holds in every state the calls can reach.
THEOREM Invariant == Spec => []IndInv
  BY Initially, Inductive, PTL DEF Spec

-----------------------------------------------------------------------------
(***************************************************************************)
(* The properties.                                                         *)
(***************************************************************************)
\* However many calls preview a user's file at once, one preview is saved.
THEOREM OnePreview == Spec => []OnePreviewPerFile
<1>1. IndInv => OnePreviewPerFile
  BY DEF IndInv, StoreInv
<1> QED
  BY <1>1, Invariant, PTL

\* The rows a preview offers neither repeat each other nor look alike.
THEOREM RowsOfferedApart == Spec => []OfferedRowsApart
<1>1. IndInv => OfferedRowsApart
  BY DEF IndInv, StoreInv, OfferedRowsApart, RowsApart, Selectable
<1> QED
  BY <1>1, Invariant, PTL

\* No source identity of a user is confirmed by two previews, though they were
\* made and confirmed side by side.
THEOREM ConfirmedOnce == Spec => []NothingConfirmedTwice
<1>1. IndInv => NothingConfirmedTwice
  BY DEF IndInv, StoreInv
<1> QED
  BY <1>1, Invariant, PTL

\* A confirmation that was answered is the one that is recorded.
THEOREM AnswersRemainTrue == Spec => []AnswersHold
<1>1. IndInv => AnswersHold
  BY DEF IndInv, CallInv, Answered, AnswersHold
<1> QED
  BY <1>1, Invariant, PTL

\* Only the owner confirms a preview or deletes its evidence.
THEOREM OnlyOwners == Spec => []OwnersApart
<1>1. IndInv => OwnersApart
  BY DEF IndInv, CallInv, Answered, OwnersApart
<1> QED
  BY <1>1, Invariant, PTL

\* The two stores agree on what evidence there is, whatever fails and whoever
\* loses a race.
THEOREM StoresAgree == Spec => []EvidenceKept
<1>1. IndInv => EvidenceKept
  BY DEF IndInv, TypeInv, StoreInv, EvidenceAgrees, CallInv, OwnEvidence,
         EvidenceKept
<1> QED
  BY <1>1, Invariant, PTL

\* A deletion that has begun is never forgotten.
THEOREM DeletionIsFinal == Spec => DeletionSticks
<1> DEFINE Sticks ==
      \A p \in Saved :
        /\ previews[p].state = "deletion_pending"
             => previews'[p].state \in {"deletion_pending", "non_reproducible"}
        /\ previews[p].state = "non_reproducible"
             => previews'[p].state = "non_reproducible"
<1>1. IndInv /\ [Next]_vars => [Sticks]_vars
  <2>1. ASSUME IndInv, Next PROVE Sticks
    <3>1. PICK c \in Calls : Kept(c)
      BY <2>1, SomeCallSteps
    <3> QED
      BY <3>1 DEF Kept, Effect
  <2> QED
    BY <2>1
<1> QED
  BY <1>1, Invariant, PTL DEF Spec, DeletionSticks

(***************************************************************************)
(* The reader of transaction files.                                        *)
(***************************************************************************)
ReaderStates ==
  [index : Nat, cell : Seq(Characters), record : Seq(Seq(Characters)),
   records : Seq([cells : Seq(Seq(Characters)), rowNumber : Nat]),
   quoted : BOOLEAN, quoteClosed : BOOLEAN, line : Nat, startLine : Nat,
   outcome : {"reading", "refused", "read", "rejected", "accepted"}]

CsvTypes == text \in Texts /\ reader \in ReaderStates

\* The reader s is in the line that begins at p, in its field that begins at f.
InField(t, s, p, f) ==
  /\ s.index \in 1..TextEnd(t) /\ p \in 1..s.index /\ f \in p..s.index
  /\ p = 1 \/ p - 1 \in Separators(t, {NL})
  /\ f = p \/ f - 1 \in Separators(t, {Comma})
  /\ \A j \in p..(s.index - 1) : j \notin Separators(t, {NL})
  /\ \A j \in f..(s.index - 1) : j \notin Separators(t, {Comma})

\* It has the lines before that one, which are as they must be,
LinesBefore(t, p) == {i \in LineStarts(t) : i < p}

LinesRead(t, s, p) ==
  /\ s.records = Listed([i \in LinesBefore(t, p) |-> WrittenRecord(t, i)])
  /\ Cardinality(LinesBefore(t, p)) <= MaxRows + 1
  /\ \A i \in LinesBefore(t, p) : LineFits(t, i)
  /\ s.line = LineNumber(t, s.index) /\ s.startLine = LineNumber(t, p)

\* the fields of the line before that one,
FieldsBefore(t, p, f) ==
  {i \in p..(f - 1) : i = p \/ i - 1 \in Separators(t, {Comma})}

FieldsRead(t, s, p, f) ==
  /\ s.record = Listed([i \in FieldsBefore(t, p, f) |-> Meaning(t, i)])
  /\ Cardinality(FieldsBefore(t, p, f)) <= MaxColumns
  /\ \A i \in FieldsBefore(t, p, f) : WellWritten(t, i) /\ FieldFits(t, i)

\* and of the field what it says so far: a bare one, a quoted one, or a quoted
\* one whose last quote is at last.
BareSoFar(t, s, f) ==
  /\ ~s.quoted /\ ~s.quoteClosed /\ Outside(t, s.index)
  /\ \A j \in f..(s.index - 1) : t[j] # QuoteMark
  /\ s.cell = SubSeq(t, f, s.index - 1) /\ s.index - f <= MaxCell

QuotedUpTo(t, s, f, last) ==
  /\ f < last /\ t[f] = QuoteMark /\ ~Outside(t, last)
  /\ \A j \in (f + 1)..(last - 1) : Opening(t, j) => t[j - 1] = QuoteMark
  /\ s.cell = Said(t, f, last) /\ Len(s.cell) <= MaxCell

QuotedSoFar(t, s, f) ==
  s.quoted /\ ~s.quoteClosed /\ QuotedUpTo(t, s, f, s.index)

ClosedAt(t, s, f, last) ==
  /\ ~s.quoted /\ s.quoteClosed /\ QuotedUpTo(t, s, f, last)
  /\ t[last] = QuoteMark
  /\ last + 1 \in DOMAIN t => t[last + 1] # QuoteMark
  /\ \/ s.index = last + 1
     \/ /\ s.index = last + 2 /\ t[last + 1] = CR
        /\ s.index \in DOMAIN t /\ t[s.index] = NL

FieldSoFar(t, s, f) ==
  \/ BareSoFar(t, s, f) \/ QuotedSoFar(t, s, f)
  \/ \E last \in f..(s.index - 1) : ClosedAt(t, s, f, last)

ReadUpTo(t, s, p, f) ==
  /\ InField(t, s, p, f) /\ LinesRead(t, s, p) /\ FieldsRead(t, s, p, f)
  /\ FieldSoFar(t, s, f)

CsvInv ==
  /\ CsvTypes
  /\ reader.outcome = "reading" =>
       \E p, f \in 1..reader.index : ReadUpTo(text, reader, p, f)
  /\ reader.outcome = "refused" => ~Written(text)
  /\ reader.outcome \in {"read", "rejected", "accepted"} =>
       Written(text) /\ reader.records = WrittenRecords(text)
  /\ reader.outcome = "accepted" => Acceptable

(***************************************************************************)
(* The values of a function in the order of its arguments.                 *)
(***************************************************************************)
Rank(S, i) == Cardinality({j \in S : j < i})

LEMMA RankIsNatural ==
  ASSUME NEW S, IsFiniteSet(S), NEW i
  PROVE  Rank(S, i) \in Nat /\ Rank(S, i) <= Cardinality(S)
<1>1. {j \in S : j < i} \subseteq S
  OBVIOUS
<1> QED
  BY <1>1, FS_Subset, FS_CardinalityType DEF Rank

LEMMA RanksDiffer ==
  ASSUME NEW S, IsFiniteSet(S), S \subseteq Int, NEW i \in S, NEW k \in Int, i < k
  PROVE  Rank(S, i) < Rank(S, k)
<1> DEFINE A == {j \in S : j < i}   B == {j \in S : j < k}
<1>1. IsFiniteSet(A) /\ IsFiniteSet(B)
  <2>1. A \subseteq S /\ B \subseteq S
    OBVIOUS
  <2> QED
    BY <2>1, FS_Subset
<1>2. A \subseteq B /\ i \in B /\ i \notin A
  <2>1. \A j \in S : j \in Int
    OBVIOUS
  <2>2. \A j \in S : j < i => j < k
    BY <2>1
  <2>3. A \subseteq B
    BY <2>2
  <2>4. ~(i < i)
    BY <2>1
  <2> QED
    BY <2>3, <2>4
<1>3. Cardinality(A) < Cardinality(B)
  <2> HIDE DEF A, B
  <2>1. A \in SUBSET B /\ A # B
    BY <1>2
  <2>2. Cardinality(A) <= Cardinality(B) /\ Cardinality(A) # Cardinality(B)
    BY <1>1, <2>1, FS_Subset
  <2>3. Cardinality(A) \in Nat /\ Cardinality(B) \in Nat
    BY <1>1, FS_CardinalityType
  <2> QED
    BY <2>2, <2>3
<1> QED
  BY <1>3 DEF Rank

\* A finite set of integers has a greatest one.
LEMMA GreatestInteger ==
  ASSUME NEW S, IsFiniteSet(S), S \subseteq Int, S # {}
  PROVE  \E m \in S : \A i \in S : i <= m
<1> DEFINE P == {T \in SUBSET S : T = {} \/ \E m \in T : \A i \in T : i <= m}
<1>1. {} \in P
  OBVIOUS
<1>2. ASSUME NEW T \in SUBSET S, T # {}, \A x \in T : T \ {x} \in P
      PROVE  T \in P
  <2>1. PICK x \in T : TRUE
    BY <1>2
  <2>2. CASE T \ {x} = {}
    <3>1. \A i \in T : i <= x
      BY <2>1, <2>2
    <3> QED
      BY <2>1, <3>1
  <2>3. CASE T \ {x} # {}
    <3>1. PICK m \in T \ {x} : \A i \in T \ {x} : i <= m
      BY <1>2, <2>1, <2>3
    <3>2. x \in Int /\ m \in Int
      BY <2>1, <3>1
    <3>3. CASE x <= m
      <4>1. \A i \in T : i <= m
        BY <3>1, <3>3
      <4> QED
        BY <3>1, <4>1
    <3>4. CASE m < x
      <4>1. \A i \in T : i <= x
        BY <3>1, <3>2, <3>4
      <4> QED
        BY <2>1, <4>1
    <3> QED
      BY <3>2, <3>3, <3>4
  <2> QED
    BY <2>2, <2>3
<1>3. S \in P
  <2> HIDE DEF P
  <2> QED
    BY <1>1, <1>2, FiniteInduction
<1> QED
  BY <1>3

\* Each rank is the rank of an element.
LEMMA RanksReached ==
  ASSUME NEW S, IsFiniteSet(S), S \subseteq Int
  PROVE  \A k \in 1..Cardinality(S) : \E i \in S : Rank(S, i) = k - 1
<1> DEFINE P == {T \in SUBSET S : \A k \in 1..Cardinality(T) :
                                  \E i \in T : Rank(T, i) = k - 1}
<1>1. {} \in P
  BY FS_EmptySet
<1>2. ASSUME NEW T \in SUBSET S, T # {}, \A x \in T : T \ {x} \in P
      PROVE  T \in P
  <2>1. IsFiniteSet(T) /\ T \subseteq Int
    BY FS_Subset
  <2>2. PICK m \in T : \A i \in T : i <= m
    BY <1>2, <2>1, GreatestInteger
  <2>3. IsFiniteSet(T \ {m}) /\ Cardinality(T \ {m}) = Cardinality(T) - 1
        /\ Cardinality(T) \in Nat
    BY <2>1, FS_RemoveElement, FS_CardinalityType
  <2>4. {j \in T : j < m} = T \ {m}
    <3>1. \A j \in T : j \in Int /\ (j < m <=> j # m)
      BY <2>1, <2>2
    <3> QED
      BY <3>1
  <2>5. ASSUME NEW k \in 1..Cardinality(T)
        PROVE  \E i \in T : Rank(T, i) = k - 1
    <3>1. CASE k = Cardinality(T)
      BY <2>3, <2>4, <3>1 DEF Rank
    <3>2. CASE k # Cardinality(T)
      <4>0. k \in 1..Cardinality(T \ {m})
        BY <2>3, <3>2
      <4>1. T \ {m} \in P
        BY <1>2, <2>2
      <4>2. PICK i \in T \ {m} : Rank(T \ {m}, i) = k - 1
        BY <4>0, <4>1
      <4>3. \A j \in T : j \in Int /\ j <= m /\ i \in Int
        BY <2>1, <2>2
      <4>4. {j \in T \ {m} : j < i} = {j \in T : j < i}
        BY <4>2, <4>3
      <4> QED
        BY <4>2, <4>4 DEF Rank
    <3> QED
      BY <3>1, <3>2
  <2> QED
    BY <2>5
<1>3. S \in P
  <2> HIDE DEF P
  <2> QED
    BY <1>1, <1>2, FiniteInduction
<1> QED
  BY <1>3

LEMMA ListedIs ==
  ASSUME NEW f, IsFiniteSet(DOMAIN f), DOMAIN f \subseteq Int,
         NEW V, \A i \in DOMAIN f : f[i] \in V
  PROVE  /\ Listed(f) \in Seq(V)
         /\ Len(Listed(f)) = Cardinality(DOMAIN f)
         /\ DOMAIN Listed(f) = 1..Cardinality(DOMAIN f)
         /\ \A k \in 1..Cardinality(DOMAIN f) : \E i \in DOMAIN f :
              Rank(DOMAIN f, i) = k - 1 /\ Listed(f)[k] = f[i]
         /\ \A i \in DOMAIN f : Listed(f)[Rank(DOMAIN f, i) + 1] = f[i]
<1> DEFINE S == DOMAIN f
           Nth(k) == CHOOSE i \in S : Rank(S, i) = k - 1
           N == Cardinality(S)
<1>1. Listed(f) = [k \in 1..N |-> f[Nth(k)]] /\ N \in Nat
  BY FS_CardinalityType DEF Listed, Rank
<1>2. \A k \in 1..N : Nth(k) \in S /\ Rank(S, Nth(k)) = k - 1
  <2> SUFFICES ASSUME NEW k \in 1..N
               PROVE  Nth(k) \in S /\ Rank(S, Nth(k)) = k - 1
    OBVIOUS
  <2>1. \E i \in S : Rank(S, i) = k - 1
    BY RanksReached
  <2> QED
    BY <2>1
<1>3. \A i \in S : Rank(S, i) + 1 \in 1..N /\ Nth(Rank(S, i) + 1) = i
  <2> SUFFICES ASSUME NEW i \in S
               PROVE  Rank(S, i) + 1 \in 1..N /\ Nth(Rank(S, i) + 1) = i
    OBVIOUS
  <2>0. \A j \in S : Rank(S, j) \in Nat /\ j \in Int
    BY RankIsNatural
  <2>1. Rank(S, i) < N
    <3> DEFINE A == {j \in S : j < i}
    <3>1. ~(i < i)
      BY <2>0
    <3>2. A \in SUBSET S /\ A # S
      BY <3>1
    <3>3. Cardinality(A) <= Cardinality(S) /\ Cardinality(A) # Cardinality(S)
      <4>1. IsFiniteSet(S)
        OBVIOUS
      <4> HIDE DEF A, S
      <4> QED
        BY <3>2, <4>1, FS_Subset
    <3> QED
      BY <1>1, <2>0, <3>3 DEF Rank
  <2>2. Rank(S, i) + 1 \in 1..N
    BY <1>1, <2>0, <2>1
  <2>3. Nth(Rank(S, i) + 1) \in S /\ Rank(S, Nth(Rank(S, i) + 1)) = Rank(S, i)
    <3> HIDE DEF Nth, N
    <3> QED
      BY <1>2, <2>0, <2>2
  <2>4. ASSUME NEW j \in S, Rank(S, j) = Rank(S, i) PROVE j = i
    <3>1. j < i => Rank(S, j) < Rank(S, i)
      BY RanksDiffer
    <3>2. i < j => Rank(S, i) < Rank(S, j)
      BY RanksDiffer
    <3> QED
      BY <2>0, <2>4, <3>1, <3>2
  <2> QED
    BY <2>2, <2>3, <2>4
<1> HIDE DEF Nth
<1>4. Listed(f) \in [1..N -> V]
  BY <1>1, <1>2
<1>5. Listed(f) \in Seq(V) /\ Len(Listed(f)) = N
  BY <1>1, <1>4
<1> QED
  BY <1>1, <1>2, <1>3, <1>5

LEMMA ListedNone ==
  ASSUME NEW f, DOMAIN f = {}
  PROVE  Listed(f) = <<>>
<1>1. Cardinality(DOMAIN f) = 0
  BY FS_EmptySet
<1> QED
  BY <1>1 DEF Listed

\* An argument after all others adds its value at the end.
LEMMA ListedOneMore ==
  ASSUME NEW f, NEW g, NEW x \in Int, DOMAIN g = DOMAIN f \cup {x},
         IsFiniteSet(DOMAIN f), DOMAIN f \subseteq Int,
         \A i \in DOMAIN f : i < x /\ g[i] = f[i]
  PROVE  Listed(g) = Append(Listed(f), g[x])
<1> DEFINE S == DOMAIN f   N == Cardinality(S)   U == S \cup {x}
           V == {g[i] : i \in U}
<1>0. /\ IsFiniteSet(S) /\ S \subseteq Int /\ DOMAIN g = U /\ g[x] \in V
      /\ \A i \in S : i < x /\ f[i] \in V /\ g[i] = f[i]
      /\ \A i \in U : g[i] \in V
  OBVIOUS
<1> HIDE DEF S, V
<1>1. x \notin S /\ IsFiniteSet(U) /\ Cardinality(U) = N + 1 /\ N \in Nat
  <2>1. x \notin S
    BY <1>0
  <2> QED
    BY <1>0, <2>1, FS_AddElement, FS_CardinalityType
<1>2. \A i \in S : Rank(U, i) = Rank(S, i)
  <2> SUFFICES ASSUME NEW i \in S PROVE Rank(U, i) = Rank(S, i)
    OBVIOUS
  <2>1. i \in Int
    BY <1>0
  <2>2. i < x
    BY <1>0
  <2>3. ~(x < i)
    BY <2>1, <2>2
  <2>4. {j \in U : j < i} = {j \in S : j < i}
    BY <2>3
  <2> QED
    BY <2>4 DEF Rank
<1>3. Rank(U, x) = N
  <2>0. ~(x < x)
    OBVIOUS
  <2>1. {j \in U : j < x} = S
    BY <1>0, <2>0
  <2> QED
    BY <2>1 DEF Rank
<1>4. /\ Listed(f) \in Seq(V) /\ Len(Listed(f)) = N
      /\ \A k \in 1..N : \E i \in S :
           Rank(S, i) = k - 1 /\ Listed(f)[k] = f[i]
  BY <1>0, ListedIs DEF S
<1>5. /\ Listed(g) \in Seq(V) /\ Len(Listed(g)) = N + 1
      /\ \A i \in U : Listed(g)[Rank(U, i) + 1] = g[i]
  <2>1. /\ IsFiniteSet(DOMAIN g) /\ DOMAIN g \subseteq Int
        /\ \A i \in DOMAIN g : g[i] \in V
    BY <1>0, <1>1
  <2>2. DOMAIN g = U
    BY <1>0
  <2> HIDE DEF U, N
  <2> QED
    BY <1>1, <2>1, <2>2, ListedIs
<1>6. Append(Listed(f), g[x]) \in Seq(V) /\ Len(Append(Listed(f), g[x])) = N + 1
      /\ Append(Listed(f), g[x])[N + 1] = g[x]
      /\ \A k \in 1..N : Append(Listed(f), g[x])[k] = Listed(f)[k]
  BY <1>0, <1>1, <1>4
<1>7. ASSUME NEW k \in 1..(N + 1)
      PROVE  Listed(g)[k] = Append(Listed(f), g[x])[k]
  <2>1. CASE k = N + 1
    BY <1>3, <1>5, <1>6, <2>1
  <2>2. CASE k # N + 1
    <3>1. k \in 1..N
      BY <1>1, <2>2
    <3>2. PICK i \in S : Rank(S, i) = k - 1 /\ Listed(f)[k] = f[i]
      BY <1>4, <3>1
    <3>3. i \in U /\ Rank(U, i) = k - 1 /\ k - 1 + 1 = k
      <4>1. i \in U /\ Rank(S, i) = k - 1
        BY <3>2
      <4>2. Rank(U, i) = k - 1
        BY <1>2, <3>2
      <4> QED
        BY <3>1, <4>1, <4>2
    <3>4. Listed(g)[Rank(U, i) + 1] = g[i] /\ g[i] = f[i]
      BY <1>0, <1>5, <3>3
    <3> QED
      BY <1>6, <3>1, <3>2, <3>3, <3>4
  <2> QED
    BY <2>1, <2>2
<1> QED
  BY <1>5, <1>6, <1>7, SeqEqual DEF S

(***************************************************************************)
(* Texts.                                                                  *)
(***************************************************************************)
LEMMA CountStep ==
  ASSUME NEW t \in Seq(Characters), NEW c, NEW i \in DOMAIN t
  PROVE  LET n(k) == Cardinality({j \in 1..(k - 1) : t[j] = c}) IN
         /\ n(i) \in Nat /\ n(1) = 0
         /\ n(i + 1) = IF t[i] = c THEN n(i) + 1 ELSE n(i)
<1> DEFINE A(k) == {j \in 1..(k - 1) : t[j] = c}
<1>0. i \in Nat /\ i > 0
  OBVIOUS
<1>1. IsFiniteSet(A(i))
  <2>1. 1 \in Int /\ i - 1 \in Int
    BY <1>0
  <2>2. IsFiniteSet(1..(i - 1))
    BY <2>1, FS_Interval
  <2>3. A(i) \in SUBSET (1..(i - 1))
    OBVIOUS
  <2> HIDE DEF A
  <2> QED
    BY <2>2, <2>3, FS_Subset
<1>2. A(i + 1) = IF t[i] = c THEN A(i) \cup {i} ELSE A(i)
  <2>1. \A j : j \in 1..(i + 1 - 1) <=> j \in 1..(i - 1) \/ j = i
    BY <1>0
  <2> QED
    BY <2>1
<1>3. i \notin A(i)
  BY <1>0
<1>4. A(1) = {}
  OBVIOUS
<1>5. Cardinality(A(i)) \in Nat
      /\ Cardinality(A(i) \cup {i}) = Cardinality(A(i)) + 1
      /\ Cardinality(A(1)) = 0
  <2> HIDE DEF A
  <2> QED
    BY <1>1, <1>3, <1>4, FS_CardinalityType, FS_AddElement, FS_EmptySet
<1> QED
  BY <1>2, <1>5

LEMMA OutsideStep ==
  ASSUME NEW t \in Seq(Characters), NEW i \in DOMAIN t
  PROVE  Outside(t, 1) /\ (Outside(t, i + 1) <=> (Outside(t, i) <=> t[i] # QuoteMark))
<1>1. /\ QuotesBefore(t, i) \in Nat /\ QuotesBefore(t, 1) = 0
      /\ QuotesBefore(t, i + 1) = IF t[i] = QuoteMark THEN QuotesBefore(t, i) + 1
                                                      ELSE QuotesBefore(t, i)
  BY CountStep DEF QuotesBefore
<1> QED
  BY <1>1 DEF Outside

LEMMA OutsideAtOne ==
  ASSUME NEW t PROVE Outside(t, 1)
<1>1. {j \in 1..(1 - 1) : t[j] = QuoteMark} = {}
  OBVIOUS
<1> QED
  BY <1>1, FS_EmptySet DEF Outside, QuotesBefore

LEMMA OutsideStays ==
  ASSUME NEW t \in Seq(Characters), NEW i \in 1..TextEnd(t), NEW k \in i..TextEnd(t),
         \A j \in i..(k - 1) : t[j] # QuoteMark
  PROVE  Outside(t, k) <=> Outside(t, i)
<1>1. i \in Nat /\ k \in Nat /\ i <= k
  BY DEF TextEnd
<1>2. {j \in 1..(k - 1) : t[j] = QuoteMark} = {j \in 1..(i - 1) : t[j] = QuoteMark}
  <2>1. \A j \in 1..(k - 1) : j \in 1..(i - 1) \/ j \in i..(k - 1)
    BY <1>1
  <2>2. \A j \in 1..(i - 1) : j \in 1..(k - 1)
    BY <1>1
  <2> QED
    BY <2>1, <2>2
<1> QED
  BY <1>2 DEF Outside, QuotesBefore

LEMMA LineNumberStep ==
  ASSUME NEW t \in Seq(Characters), NEW i \in DOMAIN t
  PROVE  /\ LineNumber(t, i) \in Nat
         /\ LineNumber(t, i + 1) = LineNumber(t, i) + (IF t[i] = NL THEN 1 ELSE 0)
<1> DEFINE n(k) == Cardinality({j \in 1..(k - 1) : t[j] = NL})
<1>1. n(i) \in Nat /\ n(i + 1) = IF t[i] = NL THEN n(i) + 1 ELSE n(i)
  BY CountStep
<1>2. LineNumber(t, i) = 1 + n(i) /\ LineNumber(t, i + 1) = 1 + n(i + 1)
  BY DEF LineNumber
<1> HIDE DEF n
<1> QED
  BY <1>1, <1>2

LEMMA LineNumberAtOne ==
  ASSUME NEW t PROVE LineNumber(t, 1) = 1
<1>1. {j \in 1..(1 - 1) : t[j] = NL} = {}
  OBVIOUS
<1> QED
  BY <1>1, FS_EmptySet DEF LineNumber

LEMMA SeparatorsAre ==
  ASSUME NEW t \in Seq(Characters), NEW cs
  PROVE  /\ Separators(t, cs) \subseteq 1..TextEnd(t)
         /\ TextEnd(t) \in Separators(t, cs)
         /\ \A i \in DOMAIN t :
              i \in Separators(t, cs) <=> t[i] \in cs /\ Outside(t, i)
BY DEF Separators, TextEnd

LEMMA NextIs ==
  ASSUME NEW t \in Seq(Characters), NEW cs, NEW i \in 1..TextEnd(t)
  PROVE  LET stop == Min({j \in Separators(t, cs) : j >= i}) IN
         /\ stop \in Separators(t, cs) /\ stop \in i..TextEnd(t)
         /\ \A j \in i..(stop - 1) : j \notin Separators(t, cs)
<1> DEFINE T == {j \in Separators(t, cs) : j >= i}
<1>1. TextEnd(t) \in Nat /\ i \in Nat /\ i <= TextEnd(t)
  BY DEF TextEnd
<1>2. T \subseteq Nat /\ TextEnd(t) \in T
  BY <1>1, SeparatorsAre
<1>3. \E m \in T : \A j \in T : m <= j
  <2> HIDE DEF T
  <2> QED
    BY <1>2, LeastNatural
<1>4. Min(T) \in T /\ \A j \in T : Min(T) <= j
  <2> HIDE DEF T
  <2> QED
    BY <1>3 DEF Min
<1>5. Min(T) \in Nat /\ Min(T) <= TextEnd(t) /\ i <= Min(T) /\ Min(T) \in Separators(t, cs)
  BY <1>2, <1>4
<1>6. ASSUME NEW j \in i..(Min(T) - 1), j \in Separators(t, cs) PROVE FALSE
  <2>1. j \in T /\ j < Min(T) /\ j \in Nat
    BY <1>1, <1>5, <1>6
  <2> QED
    BY <1>4, <1>5, <2>1
<1> QED
  BY <1>1, <1>5, <1>6

\* The first separator from i on.
LEMMA NextFrom ==
  ASSUME NEW t \in Seq(Characters), NEW cs, NEW i \in 1..TextEnd(t),
         NEW k \in i..TextEnd(t), \A j \in i..(k - 1) : j \notin Separators(t, cs)
  PROVE  LET stop == Min({j \in Separators(t, cs) : j >= i}) IN
         /\ stop \in k..TextEnd(t)
         /\ k \in Separators(t, cs) => stop = k
<1> DEFINE stop == Min({j \in Separators(t, cs) : j >= i})
<1>1. /\ stop \in Separators(t, cs) /\ stop \in i..TextEnd(t)
      /\ \A j \in i..(stop - 1) : j \notin Separators(t, cs)
  BY NextIs
<1> HIDE DEF stop
<1>2. TextEnd(t) \in Nat /\ i \in Nat /\ k \in Nat /\ i <= k /\ stop \in Nat
      /\ i <= stop /\ stop <= TextEnd(t)
  BY <1>1 DEF TextEnd
<1>3. k <= stop
  BY <1>1, <1>2
<1>4. k \in Separators(t, cs) => ~(k < stop)
  BY <1>1, <1>2
<1> QED
  BY <1>2, <1>3, <1>4 DEF stop

(***************************************************************************)
(* Where the reader is.                                                    *)
(***************************************************************************)
LEMMA TextIs ==
  ASSUME NEW t \in Seq(Characters)
  PROVE  /\ Len(t) \in Nat /\ DOMAIN t = 1..Len(t) /\ TextEnd(t) = Len(t) + 1
         /\ \A i \in DOMAIN t : t[i] \in Characters
BY DEF TextEnd

LEMMA StopsAhead ==
  ASSUME NEW t \in Seq(Characters), NEW s, NEW p, NEW f, InField(t, s, p, f)
  PROVE  /\ LineStop(t, p) \in s.index..TextEnd(t)
         /\ s.index \in Separators(t, {NL}) => LineStop(t, p) = s.index
         /\ FieldStop(t, f) \in s.index..TextEnd(t)
         /\ s.index \in Separators(t, {Comma, NL}) => FieldStop(t, f) = s.index
<1>1. /\ TextEnd(t) \in Nat /\ s.index \in 1..TextEnd(t)
      /\ p \in 1..s.index /\ f \in p..s.index
  BY TextIs DEF InField
<1>2. /\ p \in 1..TextEnd(t) /\ f \in 1..TextEnd(t)
      /\ s.index \in p..TextEnd(t) /\ s.index \in f..TextEnd(t)
  BY <1>1
<1>3. /\ LineStop(t, p) \in s.index..TextEnd(t)
      /\ s.index \in Separators(t, {NL}) => LineStop(t, p) = s.index
  <2>1. \A j \in p..(s.index - 1) : j \notin Separators(t, {NL})
    BY DEF InField
  <2> QED
    BY <1>2, <2>1, NextFrom DEF LineStop
<1>4. \A j \in f..(s.index - 1) : j \notin Separators(t, {Comma, NL})
  <2> SUFFICES ASSUME NEW j \in f..(s.index - 1)
               PROVE  j \notin Separators(t, {Comma, NL})
    OBVIOUS
  <2>1. j \in DOMAIN t /\ j \in p..(s.index - 1)
    BY <1>1, TextIs
  <2>2. j \notin Separators(t, {NL}) /\ j \notin Separators(t, {Comma})
    BY <2>1 DEF InField
  <2> QED
    BY <2>1, <2>2, SeparatorsAre
<1>5. /\ FieldStop(t, f) \in s.index..TextEnd(t)
      /\ s.index \in Separators(t, {Comma, NL}) => FieldStop(t, f) = s.index
  BY <1>2, <1>4, NextFrom DEF FieldStop
<1> QED
  BY <1>3, <1>5

LEMMA FieldsBeforeAre ==
  ASSUME NEW t \in Seq(Characters), NEW p \in Nat, NEW f \in Nat
  PROVE  /\ IsFiniteSet(FieldsBefore(t, p, f)) /\ FieldsBefore(t, p, f) \subseteq Int
         /\ \A k \in FieldsBefore(t, p, f) : k < f
<1>1. p \in Int /\ f - 1 \in Int
  OBVIOUS
<1>2. FieldsBefore(t, p, f) \in SUBSET (p..(f - 1)) /\ IsFiniteSet(p..(f - 1))
  BY <1>1, FS_Interval DEF FieldsBefore
<1>3. IsFiniteSet(FieldsBefore(t, p, f))
  BY <1>2, FS_Subset
<1> QED
  BY <1>2, <1>3

\* The fields of the line up to the one the reader is in.
LEMMA FieldsAhead ==
  ASSUME NEW t \in Seq(Characters), NEW s, NEW p, NEW f, InField(t, s, p, f)
  PROVE  /\ FieldsBefore(t, p, f) \cup {f} \subseteq FieldStarts(t, p)
         /\ LineStop(t, p) = s.index =>
              FieldStarts(t, p) = FieldsBefore(t, p, f) \cup {f}
         /\ FieldsBefore(t, p, s.index + 1) = FieldsBefore(t, p, f) \cup {f}
         /\ IsFiniteSet(FieldStarts(t, p))
<1> DEFINE i == s.index
<1>1. /\ TextEnd(t) \in Nat /\ i \in 1..TextEnd(t) /\ p \in 1..i /\ f \in p..i
      /\ f = p \/ f - 1 \in Separators(t, {Comma})
      /\ \A j \in f..(i - 1) : j \notin Separators(t, {Comma})
      /\ LineStop(t, p) \in i..TextEnd(t)
  <2>1. LineStop(t, p) \in s.index..TextEnd(t)
    BY StopsAhead
  <2>2. TextEnd(t) \in Nat
    BY TextIs
  <2> QED
    BY <2>1, <2>2 DEF InField
<1> HIDE DEF i
<1>2. FieldsBefore(t, p, f) \cup {f} \subseteq FieldStarts(t, p)
  <2>1. \A k \in p..(f - 1) : k \in p..LineStop(t, p)
    BY <1>1
  <2>2. f \in p..LineStop(t, p)
    BY <1>1
  <2> QED
    BY <1>1, <2>1, <2>2 DEF FieldsBefore, FieldStarts
<1>3. ASSUME NEW k \in p..i
      PROVE  (k = p \/ k - 1 \in Separators(t, {Comma})) <=>
                k \in FieldsBefore(t, p, f) \cup {f}
  <2>1. CASE k < f
    <3>1. k \in p..(f - 1) /\ k # f
      BY <1>1, <2>1
    <3> QED
      BY <3>1 DEF FieldsBefore
  <2>2. CASE k = f
    BY <1>1, <2>2
  <2>3. CASE k > f
    <3>1. k - 1 \in f..(i - 1) /\ k # p /\ k # f /\ k \notin p..(f - 1)
      BY <1>1, <2>3
    <3> QED
      BY <1>1, <3>1 DEF FieldsBefore
  <2> QED
    BY <1>1, <2>1, <2>2, <2>3
<1>4. FieldsBefore(t, p, f) \cup {f} \subseteq p..i
  BY <1>1 DEF FieldsBefore
<1>5. LineStop(t, p) = i => FieldStarts(t, p) = FieldsBefore(t, p, f) \cup {f}
  BY <1>3, <1>4 DEF FieldStarts
<1>6. FieldsBefore(t, p, i + 1) = FieldsBefore(t, p, f) \cup {f}
  <2>1. FieldsBefore(t, p, i + 1) =
          {k \in p..i : k = p \/ k - 1 \in Separators(t, {Comma})}
    BY <1>1 DEF FieldsBefore
  <2> QED
    BY <1>3, <1>4, <2>1
<1>7. IsFiniteSet(FieldStarts(t, p))
  <2>1. p \in Int /\ LineStop(t, p) \in Int
    BY <1>1
  <2>2. IsFiniteSet(p..LineStop(t, p)) /\ FieldStarts(t, p) \in SUBSET (p..LineStop(t, p))
    BY <2>1, FS_Interval DEF FieldStarts
  <2> QED
    BY <2>2, FS_Subset
<1> QED
  BY <1>2, <1>5, <1>6, <1>7 DEF i

LEMMA LineStartsAre ==
  ASSUME NEW t \in Seq(Characters)
  PROVE  /\ IsFiniteSet(LineStarts(t)) /\ LineStarts(t) \subseteq 1..Len(t)
         /\ \A p : /\ IsFiniteSet(LinesBefore(t, p))
                   /\ LinesBefore(t, p) \subseteq LineStarts(t)
                   /\ LinesBefore(t, p) \subseteq Int
<1>1. Len(t) \in Nat /\ DOMAIN t = 1..Len(t)
  BY TextIs
<1>2. IsFiniteSet(1..Len(t))
  BY <1>1, FS_Interval
<1>3. LineStarts(t) \in SUBSET (1..Len(t))
  BY <1>1 DEF LineStarts
<1>4. IsFiniteSet(LineStarts(t))
  BY <1>2, <1>3, FS_Subset
<1>5. \A p : LinesBefore(t, p) \in SUBSET LineStarts(t)
  BY DEF LinesBefore
<1>6. \A p : IsFiniteSet(LinesBefore(t, p))
  BY <1>4, <1>5, FS_Subset
<1>7. \A p : LinesBefore(t, p) \subseteq Int
  BY <1>1, <1>3, <1>5
<1> QED
  BY <1>3, <1>4, <1>5, <1>6, <1>7

\* The lines up to the one the reader is in.
LEMMA LinesAhead ==
  ASSUME NEW t \in Seq(Characters), NEW s, NEW p \in DOMAIN t, NEW f,
         InField(t, s, p, f)
  PROVE  /\ p \in LineStarts(t)
         /\ LinesBefore(t, s.index + 1) = LinesBefore(t, p) \cup {p}
<1>1. /\ TextEnd(t) = Len(t) + 1 /\ Len(t) \in Nat /\ s.index \in 1..TextEnd(t)
      /\ p \in 1..s.index /\ DOMAIN t = 1..Len(t)
      /\ p = 1 \/ p - 1 \in Separators(t, {NL})
      /\ \A j \in p..(s.index - 1) : j \notin Separators(t, {NL})
  BY TextIs DEF InField
<1>2. p \in LineStarts(t)
  BY <1>1 DEF LineStarts
<1>3. ASSUME NEW k \in LineStarts(t)
      PROVE  k < s.index + 1 <=> k < p \/ k = p
  <2>1. k \in 1..Len(t) /\ (k = 1 \/ k - 1 \in Separators(t, {NL}))
    BY <1>1 DEF LineStarts
  <2>2. k \in Nat /\ p \in Nat /\ s.index \in Nat /\ p <= s.index
    BY <1>1, <2>1
  <2>3. ~(k > p /\ k <= s.index)
    <3> SUFFICES ASSUME k > p, k <= s.index PROVE FALSE
      OBVIOUS
    <3>1. k - 1 \in p..(s.index - 1) /\ k # 1
      BY <1>1, <2>2
    <3> QED
      BY <1>1, <2>1, <3>1
  <2> QED
    BY <2>2, <2>3
<1> QED
  BY <1>2, <1>3 DEF LinesBefore

\* What one of its fields, or their number, says of the text.
LEMMA SpoiltField ==
  ASSUME NEW t \in Seq(Characters), NEW s, NEW p \in DOMAIN t, NEW f,
         InField(t, s, p, f), ~(WellWritten(t, f) /\ FieldFits(t, f))
  PROVE  ~Written(t)
<1>1. f \in FieldStarts(t, p) /\ p \in LineStarts(t)
  BY FieldsAhead, LinesAhead
<1> QED
  BY <1>1 DEF Written, LineFits

LEMMA SpoiltLine ==
  ASSUME NEW t \in Seq(Characters), NEW s, NEW p \in DOMAIN t, NEW f,
         InField(t, s, p, f), Cardinality(FieldsBefore(t, p, f)) >= MaxColumns
  PROVE  ~Written(t)
<1>1. /\ FieldsBefore(t, p, f) \cup {f} \in SUBSET FieldStarts(t, p)
      /\ IsFiniteSet(FieldStarts(t, p)) /\ p \in LineStarts(t)
  BY FieldsAhead, LinesAhead
<1>2. p \in Nat /\ f \in Nat
  BY TextIs DEF InField
<1>3. IsFiniteSet(FieldsBefore(t, p, f)) /\ f \notin FieldsBefore(t, p, f)
  BY <1>2, FieldsBeforeAre
<1>4. /\ Cardinality(FieldsBefore(t, p, f) \cup {f}) = Cardinality(FieldsBefore(t, p, f)) + 1
      /\ Cardinality(FieldsBefore(t, p, f)) \in Nat
  BY <1>3, FS_AddElement, FS_CardinalityType
<1>5. Cardinality(FieldsBefore(t, p, f) \cup {f}) <= Cardinality(FieldStarts(t, p))
      /\ Cardinality(FieldStarts(t, p)) \in Nat
  BY <1>1, FS_Subset, FS_CardinalityType
<1>6. MaxColumns \in Nat
  BY CsvAssumption
<1> QED
  BY <1>1, <1>4, <1>5, <1>6 DEF Written, LineFits

LEMMA SpoiltText ==
  ASSUME NEW t \in Seq(Characters), NEW s, NEW p \in DOMAIN t, NEW f,
         InField(t, s, p, f), Cardinality(LinesBefore(t, p)) > MaxRows
  PROVE  ~Written(t)
<1>1. LinesBefore(t, p) \cup {p} \in SUBSET LineStarts(t)
  BY LinesAhead, LineStartsAre
<1>2. IsFiniteSet(LineStarts(t)) /\ IsFiniteSet(LinesBefore(t, p))
  BY LineStartsAre
<1>3. p \notin LinesBefore(t, p)
  BY TextIs DEF LinesBefore
<1>4. /\ Cardinality(LinesBefore(t, p) \cup {p}) = Cardinality(LinesBefore(t, p)) + 1
      /\ Cardinality(LinesBefore(t, p)) \in Nat
  BY <1>2, <1>3, FS_AddElement, FS_CardinalityType
<1>5. Cardinality(LinesBefore(t, p) \cup {p}) <= Cardinality(LineStarts(t))
      /\ Cardinality(LineStarts(t)) \in Nat
  BY <1>1, <1>2, FS_Subset, FS_CardinalityType
<1>6. MaxRows \in Nat
  BY CsvAssumption
<1> QED
  BY <1>4, <1>5, <1>6 DEF Written

(***************************************************************************)
(* What a field says.                                                      *)
(***************************************************************************)
LEMMA PieceIs ==
  ASSUME NEW t \in Seq(Characters), NEW f \in Nat \ {0}, NEW k \in Nat,
         f <= k + 1, k <= Len(t)
  PROVE  /\ SubSeq(t, f, k) \in Seq(Characters)
         /\ Len(SubSeq(t, f, k)) = k - f + 1
         /\ \A m \in 1..(k - f + 1) : SubSeq(t, f, k)[m] = t[f + m - 1]
<1>1. \A m \in f..k : t[m] \in Characters
  <2> SUFFICES ASSUME NEW m \in f..k PROVE t[m] \in Characters
    OBVIOUS
  <2>1. m \in 1..Len(t)
    BY TextIs
  <2> QED
    BY <2>1, TextIs
<1>2. f \in Int /\ k \in Int
  OBVIOUS
<1>3. /\ SubSeq(t, f, k) \in Seq(Characters)
      /\ Len(SubSeq(t, f, k)) = IF f <= k THEN k - f + 1 ELSE 0
      /\ \A m \in 1..(k - f + 1) : SubSeq(t, f, k)[m] = t[f + m - 1]
  BY <1>1, <1>2, SubSeqProperties
<1> QED
  BY <1>3

LEMMA PieceGrows ==
  ASSUME NEW t \in Seq(Characters), NEW f \in Nat \ {0}, NEW k \in DOMAIN t, f <= k
  PROVE  SubSeq(t, f, k) = Append(SubSeq(t, f, k - 1), t[k])
<1> DEFINE a == SubSeq(t, f, k - 1)   b == SubSeq(t, f, k)
<1>1. k \in Nat /\ k <= Len(t) /\ k - 1 \in Nat /\ Len(t) \in Nat /\ k >= 1
  BY TextIs
<1>2. /\ a \in Seq(Characters) /\ Len(a) = k - f
      /\ \A m \in 1..(k - f) : a[m] = t[f + m - 1]
  <2>1. k - 1 - f + 1 = k - f /\ f <= k - 1 + 1 /\ k - 1 <= Len(t)
    BY <1>1
  <2>2. /\ a \in Seq(Characters) /\ Len(a) = k - 1 - f + 1
        /\ \A m \in 1..(k - 1 - f + 1) : a[m] = t[f + m - 1]
    BY <1>1, <2>1, PieceIs
  <2> QED
    BY <2>1, <2>2
<1>3. /\ b \in Seq(Characters) /\ Len(b) = k - f + 1
      /\ \A m \in 1..(k - f + 1) : b[m] = t[f + m - 1]
  BY <1>1, PieceIs
<1>4. t[k] \in Characters
  BY TextIs
<1> HIDE DEF a, b
<1>5. /\ Append(a, t[k]) \in Seq(Characters) /\ Len(Append(a, t[k])) = k - f + 1
      /\ \A m \in 1..(k - f) : Append(a, t[k])[m] = a[m]
      /\ Append(a, t[k])[k - f + 1] = t[k]
  BY <1>1, <1>2, <1>4
<1>6. ASSUME NEW m \in 1..(k - f + 1) PROVE b[m] = Append(a, t[k])[m]
  <2>1. CASE m = k - f + 1
    <3>1. f + m - 1 = k
      BY <1>1, <2>1
    <3> QED
      BY <1>3, <1>5, <2>1, <3>1
  <2>2. CASE m # k - f + 1
    <3>1. m \in 1..(k - f)
      BY <1>1, <2>2
    <3> QED
      BY <1>2, <1>3, <1>5, <3>1
  <2> QED
    BY <2>1, <2>2
<1>7. b = Append(a, t[k])
  BY <1>3, <1>5, <1>6, SeqEqual
<1> QED
  BY <1>7 DEF a, b

\* The last character, and what is before it.
LEMMA PieceEnds ==
  ASSUME NEW t \in Seq(Characters), NEW f \in Nat \ {0}, NEW k \in DOMAIN t, f <= k
  PROVE  /\ SubSeq(t, f, k) # <<>>
         /\ Last(SubSeq(t, f, k)) = t[k]
         /\ Front(SubSeq(t, f, k)) = SubSeq(t, f, k - 1)
<1> DEFINE a == SubSeq(t, f, k - 1)   b == SubSeq(t, f, k)
<1>1. k \in Nat /\ k <= Len(t) /\ k - 1 \in Nat /\ Len(t) \in Nat /\ k >= 1
  BY TextIs
<1>2. /\ a \in Seq(Characters) /\ Len(a) = k - f
      /\ \A m \in 1..(k - f) : a[m] = t[f + m - 1]
  <2>1. k - 1 - f + 1 = k - f /\ f <= k - 1 + 1 /\ k - 1 <= Len(t)
    BY <1>1
  <2>2. /\ a \in Seq(Characters) /\ Len(a) = k - 1 - f + 1
        /\ \A m \in 1..(k - 1 - f + 1) : a[m] = t[f + m - 1]
    BY <1>1, <2>1, PieceIs
  <2> QED
    BY <2>1, <2>2
<1>3. /\ b \in Seq(Characters) /\ Len(b) = k - f + 1
      /\ \A m \in 1..(k - f + 1) : b[m] = t[f + m - 1]
  BY <1>1, PieceIs
<1> HIDE DEF a, b
<1>4. k - f + 1 \in 1..(k - f + 1) /\ f + (k - f + 1) - 1 = k /\ k - f \in Nat
  BY <1>1
<1>5. b # <<>> /\ b[Len(b)] = t[k]
  BY <1>3, <1>4
<1>6. /\ SubSeq(b, 1, k - f) \in Seq(Characters) /\ Len(SubSeq(b, 1, k - f)) = k - f
      /\ \A m \in 1..(k - f) : SubSeq(b, 1, k - f)[m] = b[m]
  <2>1. \A m \in 1..(k - f) : b[m] \in Characters
    BY <1>3, <1>4
  <2>2. 1 \in Int /\ k - f \in Int
    BY <1>4
  <2>3. /\ SubSeq(b, 1, k - f) \in Seq(Characters)
        /\ Len(SubSeq(b, 1, k - f)) = IF 1 <= k - f THEN k - f - 1 + 1 ELSE 0
        /\ \A m \in 1..(k - f - 1 + 1) : SubSeq(b, 1, k - f)[m] = b[1 + m - 1]
    BY <2>1, <2>2, SubSeqProperties
  <2> QED
    BY <1>4, <2>3
<1>7. \A m \in 1..(k - f) : SubSeq(b, 1, k - f)[m] = a[m]
  <2> SUFFICES ASSUME NEW m \in 1..(k - f)
               PROVE  SubSeq(b, 1, k - f)[m] = a[m]
    OBVIOUS
  <2>1. m \in 1..(k - f + 1)
    BY <1>4
  <2> QED
    BY <1>2, <1>3, <1>6, <2>1
<1>8. SubSeq(b, 1, k - f) = a
  BY <1>2, <1>6, <1>7, SeqEqual
<1>9. Len(b) - 1 = k - f
  BY <1>3, <1>4
<1>10. Front(b) = a /\ Last(b) = t[k]
  BY <1>5, <1>8, <1>9 DEF Front, Last
<1> QED
  BY <1>5, <1>10 DEF a, b

\* What is said in quotes: a character more, unless it is a second quote.
LEMMA InnerIs ==
  ASSUME NEW t \in Seq(Characters), NEW f \in Nat \ {0}, NEW k \in Nat, k <= TextEnd(t)
  PROVE  /\ IsFiniteSet(Inner(t, f, k)) /\ Inner(t, f, k) \subseteq Int
         /\ \A i \in Inner(t, f, k) : i < k /\ t[i] \in Characters
         /\ Said(t, f, k) \in Seq(Characters)
         /\ Len(Said(t, f, k)) = Cardinality(Inner(t, f, k))
<1>1. f + 1 \in Int /\ k - 1 \in Int
  OBVIOUS
<1>2. IsFiniteSet((f + 1)..(k - 1)) /\ Inner(t, f, k) \in SUBSET ((f + 1)..(k - 1))
  BY <1>1, FS_Interval DEF Inner
<1>3. IsFiniteSet(Inner(t, f, k))
  BY <1>2, FS_Subset
<1>4. \A i \in Inner(t, f, k) : i \in Int /\ i < k /\ t[i] \in Characters
  <2> SUFFICES ASSUME NEW i \in Inner(t, f, k)
               PROVE  i \in Int /\ i < k /\ t[i] \in Characters
    OBVIOUS
  <2>1. i \in (f + 1)..(k - 1)
    BY <1>2
  <2>2. i \in DOMAIN t /\ i < k
    BY <2>1, TextIs
  <2> QED
    BY <2>1, <2>2, TextIs
<1> DEFINE g == [i \in Inner(t, f, k) |-> t[i]]
<1>5. /\ DOMAIN g = Inner(t, f, k) /\ \A i \in DOMAIN g : g[i] \in Characters
      /\ IsFiniteSet(DOMAIN g) /\ DOMAIN g \subseteq Int
  BY <1>3, <1>4
<1>6. Listed(g) \in Seq(Characters) /\ Len(Listed(g)) = Cardinality(Inner(t, f, k))
  <2> HIDE DEF g
  <2> QED
    BY <1>5, ListedIs
<1> QED
  BY <1>3, <1>4, <1>6 DEF Said

LEMMA SaidGrows ==
  ASSUME NEW t \in Seq(Characters), NEW f \in Nat \ {0}, NEW k \in DOMAIN t, f < k
  PROVE  /\ Opening(t, k) => Said(t, f, k + 1) = Said(t, f, k)
         /\ ~Opening(t, k) => Said(t, f, k + 1) = Append(Said(t, f, k), t[k])
<1>1. k \in Nat /\ k <= TextEnd(t) /\ k + 1 <= TextEnd(t) /\ t[k] \in Characters
  BY TextIs
<1>2. \A i : i \in (f + 1)..(k + 1 - 1) <=> i \in (f + 1)..(k - 1) \/ i = k
  BY <1>1
<1>3. Opening(t, k) => Inner(t, f, k + 1) = Inner(t, f, k)
  BY <1>2 DEF Inner
<1>4. ~Opening(t, k) => Inner(t, f, k + 1) = Inner(t, f, k) \cup {k}
  BY <1>2 DEF Inner
<1>5. ASSUME ~Opening(t, k) PROVE Said(t, f, k + 1) = Append(Said(t, f, k), t[k])
  <2> DEFINE S == Inner(t, f, k)
             a == [i \in S |-> t[i]]   b == [i \in S \cup {k} |-> t[i]]
  <2>1. /\ IsFiniteSet(S) /\ S \subseteq Int
        /\ \A i \in S : i < k /\ t[i] \in Characters
    BY <1>1, InnerIs
  <2>2. DOMAIN a = S /\ DOMAIN b = S \cup {k} /\ b[k] = t[k]
        /\ \A i \in S : a[i] \in Characters /\ b[i] = a[i]
    BY <2>1
  <2>3. Listed(b) = Append(Listed(a), b[k])
    <3>1. k \in Int /\ DOMAIN b = DOMAIN a \cup {k} /\ IsFiniteSet(DOMAIN a)
          /\ DOMAIN a \subseteq Int /\ \A i \in DOMAIN a : i < k /\ b[i] = a[i]
      BY <1>1, <2>1, <2>2
    <3> HIDE DEF a, b, S
    <3> QED
      BY <3>1, ListedOneMore
  <2> QED
    BY <1>4, <1>5, <2>2, <2>3 DEF Said
<1> QED
  BY <1>3, <1>5 DEF Said

(***************************************************************************)
(* The field the reader is in, where it ends.                              *)
(***************************************************************************)
LEMMA PlaceIs ==
  ASSUME NEW t \in Seq(Characters), NEW s, NEW p, NEW f, InField(t, s, p, f)
  PROVE  /\ s.index \in Nat \ {0} /\ p \in Nat \ {0} /\ f \in Nat \ {0}
         /\ p <= f /\ f <= s.index /\ s.index <= TextEnd(t)
         /\ Len(t) \in Nat /\ TextEnd(t) = Len(t) + 1 /\ DOMAIN t = 1..Len(t)
BY TextIs DEF InField

LEMMA OutsideUnlessQuoted ==
  ASSUME NEW t \in Seq(Characters), NEW s, NEW p, NEW f, InField(t, s, p, f),
         FieldSoFar(t, s, f)
  PROVE  Outside(t, s.index) <=> ~s.quoted
<1>1. CASE BareSoFar(t, s, f)
  BY <1>1 DEF BareSoFar
<1>2. CASE QuotedSoFar(t, s, f)
  BY <1>2 DEF QuotedSoFar, QuotedUpTo
<1>3. ASSUME NEW last \in f..(s.index - 1), ClosedAt(t, s, f, last)
      PROVE  Outside(t, s.index) <=> ~s.quoted
  <2>1. last \in DOMAIN t /\ t[last] = QuoteMark /\ ~Outside(t, last) /\ ~s.quoted
    BY <1>3, PlaceIs DEF ClosedAt, QuotedUpTo
  <2>2. Outside(t, last + 1)
    BY <2>1, OutsideStep
  <2>3. CASE s.index = last + 1
    BY <2>1, <2>2, <2>3
  <2>4. CASE s.index = last + 2 /\ t[last + 1] = CR
    <3>1. last + 1 \in DOMAIN t /\ last + 1 + 1 = last + 2
      BY <2>1, <2>4, PlaceIs
    <3>2. t[last + 1] # QuoteMark
      BY <2>4 DEF CR, QuoteMark
    <3> QED
      BY <2>1, <2>2, <2>4, <3>1, <3>2, OutsideStep
  <2> QED
    BY <1>3, <2>3, <2>4 DEF ClosedAt
<1> QED
  BY <1>1, <1>2, <1>3 DEF FieldSoFar

LEMMA BareNotQuoted ==
  ASSUME NEW t \in Seq(Characters), NEW s, NEW p, NEW f, InField(t, s, p, f),
         BareSoFar(t, s, f),
         s.index = f /\ s.index \in DOMAIN t => t[s.index] # QuoteMark
  PROVE  ~Quoted(t, f)
<1>1. f < s.index => f \in f..(s.index - 1)
  BY PlaceIs
<1>2. f < s.index \/ f = s.index
  BY PlaceIs
<1> QED
  BY <1>1, <1>2 DEF BareSoFar, Quoted

LEMMA BareEndsAtComma ==
  ASSUME NEW t \in Seq(Characters), NEW s, NEW p, NEW f, InField(t, s, p, f),
         BareSoFar(t, s, f), s.index \in DOMAIN t, t[s.index] = Comma
  PROVE  WellWritten(t, f) /\ FieldFits(t, f) /\ Meaning(t, f) = s.cell
<1> DEFINE i == s.index
<1>1. i \in Separators(t, {Comma, NL}) /\ i \notin Separators(t, {NL})
  <2>1. Outside(t, i) /\ t[i] = Comma
    BY DEF BareSoFar
  <2> QED
    BY <2>1, SeparatorsAre DEF Comma, NL
<1>2. FieldStop(t, f) = i
  BY <1>1, StopsAhead
<1>3. LastOf(t, f) = i - 1
  BY <1>1, <1>2 DEF LastOf
<1>4. ~Quoted(t, f)
  BY BareNotQuoted DEF Comma, QuoteMark
<1> QED
  BY <1>2, <1>3, <1>4 DEF WellWritten, FieldFits, Meaning, BareSoFar

LEMMA BareEndsLine ==
  ASSUME NEW t \in Seq(Characters), NEW s, NEW p, NEW f, InField(t, s, p, f),
         BareSoFar(t, s, f), s.index \in Separators(t, {NL}), s \in ReaderStates
  PROVE  /\ WellWritten(t, f) /\ FieldFits(t, f)
         /\ Meaning(t, f) = DropCR(s).cell
         /\ DropCR(s) = [s EXCEPT !.cell = Meaning(t, f)]
<1> DEFINE i == s.index
<1>0. i \in Nat /\ f \in Nat \ {0} /\ f <= i /\ i <= TextEnd(t) /\ i \in 1..TextEnd(t)
      /\ Len(t) \in Nat /\ TextEnd(t) = Len(t) + 1 /\ DOMAIN t = 1..Len(t)
  BY PlaceIs
<1>1. i \in Separators(t, {Comma, NL})
  BY SeparatorsAre DEF Separators
<1>2. FieldStop(t, f) = i
  BY <1>1, StopsAhead
<1>3. ~Quoted(t, f)
  <2>1. i \in DOMAIN t => t[i] = NL
    BY SeparatorsAre
  <2> QED
    BY <2>1, BareNotQuoted DEF NL, QuoteMark
<1>4. LastOf(t, f) = IF i > f /\ t[i - 1] = CR THEN i - 2 ELSE i - 1
  BY <1>2, <1>3 DEF LastOf
<1>5. WellWritten(t, f) /\ FieldFits(t, f)
  <2>1. \A j \in f..LastOf(t, f) : j \in f..(i - 1)
    BY <1>0, <1>4
  <2> QED
    BY <1>2, <1>3, <2>1 DEF WellWritten, FieldFits, BareSoFar
<1>6. Meaning(t, f) = SubSeq(t, f, LastOf(t, f)) /\ s.cell = SubSeq(t, f, i - 1)
      /\ ~s.quoteClosed
  BY <1>3 DEF Meaning, BareSoFar
<1>7. CASE i > f
  <2>1. i - 1 \in DOMAIN t /\ f <= i - 1 /\ i - 1 - 1 = i - 2
    BY <1>0, <1>7
  <2>2. s.cell # <<>> /\ Last(s.cell) = t[i - 1] /\ Front(s.cell) = SubSeq(t, f, i - 2)
    BY <1>0, <1>6, <2>1, PieceEnds
  <2> QED
    BY <1>4, <1>5, <1>6, <1>7, <2>2 DEF DropCR, ReaderStates
<1>8. CASE i = f
  <2>1. s.cell = <<>>
    <3>1. i - 1 < f /\ i - 1 \in Int /\ f \in Int
      BY <1>0, <1>8
    <3> QED
      BY <1>6, <3>1, SubSeqEmpty
  <2>2. LastOf(t, f) = i - 1
    BY <1>0, <1>4, <1>8
  <2> QED
    BY <1>5, <1>6, <2>1, <2>2 DEF DropCR, ReaderStates
<1> QED
  BY <1>0, <1>7, <1>8

LEMMA ClosedEnds ==
  ASSUME NEW t \in Seq(Characters), NEW s, NEW p, NEW f, InField(t, s, p, f),
         NEW last \in f..(s.index - 1), ClosedAt(t, s, f, last),
         s.index \in Separators(t, {Comma, NL})
  PROVE  WellWritten(t, f) /\ FieldFits(t, f) /\ Meaning(t, f) = s.cell
<1> DEFINE i == s.index
<1>0. i \in Nat /\ f \in Nat \ {0} /\ f <= i /\ i <= TextEnd(t) /\ last \in Nat
      /\ Len(t) \in Nat /\ TextEnd(t) = Len(t) + 1 /\ DOMAIN t = 1..Len(t)
  BY PlaceIs
<1>1. FieldStop(t, f) = i
  BY StopsAhead
<1>2. f < last /\ t[last] = QuoteMark /\ ~Outside(t, last) /\ last \in DOMAIN t
      /\ t[f] = QuoteMark
  BY <1>0 DEF ClosedAt, QuotedUpTo
<1>3. Quoted(t, f)
  BY <1>0, <1>2 DEF Quoted
<1>4. LastOf(t, f) = last
  <2>1. CASE i = last + 1
    <3>1. i - 1 = last /\ t[i - 1] # CR
      BY <1>0, <1>2, <2>1 DEF CR, QuoteMark
    <3> QED
      BY <1>1, <3>1 DEF LastOf
  <2>2. CASE i = last + 2 /\ t[last + 1] = CR /\ i \in DOMAIN t /\ t[i] = NL
    <3>1. i - 1 = last + 1 /\ i - 2 = last /\ i > f /\ i # TextEnd(t)
      BY <1>0, <1>2, <2>2
    <3>2. i \in Separators(t, {NL})
      BY <2>2, SeparatorsAre
    <3> QED
      BY <1>1, <2>2, <3>1, <3>2 DEF LastOf
  <2> QED
    BY <2>1, <2>2 DEF ClosedAt
<1>5. ASSUME NEW j \in (f + 1)..last, Opening(t, j) PROVE t[j - 1] = QuoteMark
  <2>1. CASE j = last
    BY <1>2, <1>5, <2>1 DEF Opening
  <2>2. CASE j # last
    <3>1. j \in (f + 1)..(last - 1)
      BY <1>0, <2>2
    <3> QED
      BY <1>5, <3>1 DEF ClosedAt, QuotedUpTo
  <2> QED
    BY <2>1, <2>2
<1>6. s.cell = Said(t, f, last) /\ Len(s.cell) <= MaxCell
  BY DEF ClosedAt, QuotedUpTo
<1> QED
  BY <1>2, <1>3, <1>4, <1>5, <1>6 DEF WellWritten, FieldFits, Meaning

LEMMA FieldEnds ==
  ASSUME NEW t \in Seq(Characters), NEW s \in ReaderStates, NEW p, NEW f,
         InField(t, s, p, f), FieldSoFar(t, s, f), ~s.quoted
  PROVE  /\ s.index \in DOMAIN t /\ t[s.index] = Comma =>
              WellWritten(t, f) /\ FieldFits(t, f) /\ Meaning(t, f) = s.cell
         /\ s.index \in Separators(t, {NL}) =>
              /\ WellWritten(t, f) /\ FieldFits(t, f)
              /\ DropCR(s) = [s EXCEPT !.cell = Meaning(t, f)]
              /\ Meaning(t, f) \in Seq(Characters)
<1>1. ASSUME s.index \in DOMAIN t, t[s.index] = Comma
      PROVE  WellWritten(t, f) /\ FieldFits(t, f) /\ Meaning(t, f) = s.cell
  <2>1. CASE BareSoFar(t, s, f)
    BY <1>1, <2>1, BareEndsAtComma
  <2>2. ASSUME NEW last \in f..(s.index - 1), ClosedAt(t, s, f, last)
        PROVE  WellWritten(t, f) /\ FieldFits(t, f) /\ Meaning(t, f) = s.cell
    <3>1. Outside(t, s.index)
      BY OutsideUnlessQuoted
    <3>2. s.index \in Separators(t, {Comma, NL})
      BY <1>1, <3>1, SeparatorsAre
    <3> QED
      BY <2>2, <3>2, ClosedEnds
  <2> QED
    BY <2>1, <2>2 DEF FieldSoFar, QuotedSoFar
<1>2. ASSUME s.index \in Separators(t, {NL})
      PROVE  /\ WellWritten(t, f) /\ FieldFits(t, f)
             /\ DropCR(s) = [s EXCEPT !.cell = Meaning(t, f)]
             /\ Meaning(t, f) \in Seq(Characters)
  <2>0. s.cell \in Seq(Characters)
    BY DEF ReaderStates
  <2>1. CASE BareSoFar(t, s, f)
    <3>1. /\ WellWritten(t, f) /\ FieldFits(t, f)
          /\ DropCR(s) = [s EXCEPT !.cell = Meaning(t, f)]
      BY <1>2, <2>1, BareEndsLine
    <3>2. Meaning(t, f) \in Seq(Characters)
      <4>1. Meaning(t, f) = DropCR(s).cell
        BY <1>2, <2>1, BareEndsLine
      <4>2. s.cell # <<>> => Front(s.cell) \in Seq(Characters)
        <5> SUFFICES ASSUME s.cell # <<>> PROVE Front(s.cell) \in Seq(Characters)
          OBVIOUS
        <5>1. Len(s.cell) \in Nat /\ \A m \in 1..Len(s.cell) : s.cell[m] \in Characters
          BY <2>0
        <5>2. 1 \in Int /\ Len(s.cell) - 1 \in Int
              /\ \A m \in 1..(Len(s.cell) - 1) : s.cell[m] \in Characters
          BY <5>1
        <5> QED
          BY <5>2, SubSeqProperties DEF Front
      <4> QED
        BY <2>0, <4>1, <4>2 DEF DropCR, ReaderStates
    <3> QED
      BY <3>1, <3>2
  <2>2. ASSUME NEW last \in f..(s.index - 1), ClosedAt(t, s, f, last)
        PROVE  /\ WellWritten(t, f) /\ FieldFits(t, f)
               /\ DropCR(s) = [s EXCEPT !.cell = Meaning(t, f)]
               /\ Meaning(t, f) \in Seq(Characters)
    <3>1. s.index \in Separators(t, {Comma, NL})
      BY <1>2, SeparatorsAre DEF Separators
    <3>2. WellWritten(t, f) /\ FieldFits(t, f) /\ Meaning(t, f) = s.cell
      BY <2>2, <3>1, ClosedEnds
    <3>3. s.quoteClosed
      BY <2>2 DEF ClosedAt
    <3> QED
      BY <2>0, <3>2, <3>3 DEF DropCR, ReaderStates
  <2> QED
    BY <2>1, <2>2 DEF FieldSoFar, QuotedSoFar
<1> QED
  BY <1>1, <1>2

\* The field joins the record, unless that is full.
LEMMA FieldAdded ==
  ASSUME NEW t \in Seq(Characters), NEW s \in ReaderStates, NEW p, NEW f,
         InField(t, s, p, f), FieldsRead(t, s, p, f)
  PROVE  Append(s.record, Meaning(t, f))
           = Listed([k \in FieldsBefore(t, p, f) \cup {f} |-> Meaning(t, k)])
<1> DEFINE S == FieldsBefore(t, p, f)
           a == [k \in S |-> Meaning(t, k)]
           b == [k \in S \cup {f} |-> Meaning(t, k)]
<1>1. IsFiniteSet(S) /\ S \subseteq Int /\ (\A k \in S : k < f) /\ f \in Int
  BY PlaceIs, FieldsBeforeAre
<1>3. s.record = Listed(a)
  BY DEF FieldsRead
<1>4. /\ DOMAIN a = S /\ DOMAIN b = DOMAIN a \cup {f} /\ b[f] = Meaning(t, f)
      /\ \A k \in DOMAIN a : k < f /\ b[k] = a[k]
  BY <1>1
<1> HIDE DEF a, b
<1>5. Listed(b) = Append(Listed(a), b[f])
  BY <1>1, <1>4, ListedOneMore
<1> QED
  BY <1>3, <1>4, <1>5 DEF b

LEMMA FieldsCounted ==
  ASSUME NEW t \in Seq(Characters), NEW s \in ReaderStates, NEW p, NEW f,
         InField(t, s, p, f), FieldsRead(t, s, p, f)
  PROVE  /\ Len(s.record) \in Nat /\ Len(s.record) = Cardinality(FieldsBefore(t, p, f))
         /\ Cardinality(FieldsBefore(t, p, f) \cup {f}) = Len(s.record) + 1
<1> DEFINE S == FieldsBefore(t, p, f)   a == [k \in S |-> Meaning(t, k)]
           V == {a[k] : k \in S}
<1>1. IsFiniteSet(S) /\ S \subseteq Int /\ (\A k \in S : k < f) /\ f \in Int
  BY PlaceIs, FieldsBeforeAre
<1>2. f \notin S
  BY <1>1
<1>3. s.record = Listed(a)
  BY DEF FieldsRead
<1>4. /\ IsFiniteSet(DOMAIN a) /\ DOMAIN a \subseteq Int /\ DOMAIN a = S
      /\ \A k \in DOMAIN a : a[k] \in V
  BY <1>1
<1> HIDE DEF V, a
<1>5. Len(Listed(a)) = Cardinality(S)
  BY <1>4, ListedIs
<1> HIDE DEF S
<1>6. Cardinality(S) \in Nat /\ Cardinality(S \cup {f}) = Cardinality(S) + 1
  BY <1>1, <1>2, FS_CardinalityType, FS_AddElement
<1> QED
  BY <1>3, <1>5, <1>6 DEF S

\* The line joins the records, unless there are too many.
LEMMA LineAdded ==
  ASSUME NEW t \in Seq(Characters), NEW s \in ReaderStates, NEW p \in DOMAIN t, NEW f,
         InField(t, s, p, f), LinesRead(t, s, p)
  PROVE  LET lines == LinesBefore(t, s.index + 1) IN
         /\ Len(s.records) = Cardinality(LinesBefore(t, p)) /\ Len(s.records) \in Nat
         /\ Append(s.records, WrittenRecord(t, p))
               = Listed([k \in lines |-> WrittenRecord(t, k)])
         /\ Cardinality(lines) = Cardinality(LinesBefore(t, p)) + 1
<1> DEFINE S == LinesBefore(t, p)
           a == [k \in S |-> WrittenRecord(t, k)]
           b == [k \in S \cup {p} |-> WrittenRecord(t, k)]
<1>0. LinesBefore(t, s.index + 1) = S \cup {p}
  BY LinesAhead
<1>1. IsFiniteSet(S) /\ S \subseteq Int /\ (\A k \in S : k < p) /\ p \in Int
  BY PlaceIs, LineStartsAre DEF LinesBefore
<1>2. p \notin S /\ Cardinality(S \cup {p}) = Cardinality(S) + 1
  <2>1. p \notin S
    BY <1>1
  <2> HIDE DEF S
  <2> QED
    BY <1>1, <2>1, FS_AddElement
<1>3. s.records = Listed(a)
  BY DEF LinesRead
<1>4. /\ DOMAIN a = S /\ DOMAIN b = DOMAIN a \cup {p} /\ b[p] = WrittenRecord(t, p)
      /\ \A k \in DOMAIN a : k < p /\ b[k] = a[k]
  BY <1>1
<1> HIDE DEF a, b
<1>5. Listed(b) = Append(Listed(a), b[p])
  BY <1>1, <1>4, ListedOneMore
<1>6. Len(Listed(a)) = Cardinality(S)
  <2> DEFINE V == {a[k] : k \in S}
  <2>1. IsFiniteSet(DOMAIN a) /\ DOMAIN a \subseteq Int /\ \A k \in DOMAIN a : a[k] \in V
    BY <1>1, <1>4
  <2> HIDE DEF V
  <2> QED
    BY <1>4, <2>1, ListedIs
<1>7. Cardinality(S) \in Nat
  BY <1>1, FS_CardinalityType
<1> QED
  BY <1>0, <1>2, <1>3, <1>4, <1>5, <1>6, <1>7 DEF b

(***************************************************************************)
(* The steps.                                                              *)
(***************************************************************************)
\* What a step must make of the reader.
ReadOn(t, r) ==
  /\ r \in ReaderStates
  /\ \/ r.outcome = "refused" /\ ~Written(t)
     \/ /\ r.outcome = "reading"
        /\ \E p, f \in 1..r.index : ReadUpTo(t, r, p, f)

LEMMA SkipIs ==
  ASSUME NEW s \in ReaderStates, NEW n \in Nat
  PROVE  LET r == Skip(s, n) IN
         /\ r = [s EXCEPT !.index = s.index + n] /\ r \in ReaderStates
         /\ r.index = s.index + n /\ r.cell = s.cell /\ r.record = s.record
         /\ r.records = s.records /\ r.quoted = s.quoted
         /\ r.quoteClosed = s.quoteClosed /\ r.line = s.line
         /\ r.startLine = s.startLine /\ r.outcome = s.outcome
<1>1. s.index \in Nat /\ s.index + n \in Nat
  BY DEF ReaderStates
<1>2. Skip(s, n) = [s EXCEPT !.index = s.index + n]
  BY DEF Skip, ReaderStates
<1>3. [s EXCEPT !.index = s.index + n] \in ReaderStates
  BY <1>1 DEF ReaderStates
<1> QED
  BY <1>2, <1>3 DEF ReaderStates

LEMMA AtStart ==
  ASSUME NEW t, NEW s, NEW i \in Nat, s.index = i + 1, i + 1 \in 1..TextEnd(t),
         i \in Separators(t, {NL}) \/ i = 0
  PROVE  InField(t, s, i + 1, i + 1)
<1>1. /\ s.index \in 1..TextEnd(t) /\ i + 1 \in 1..s.index
      /\ i + 1 \in (i + 1)..s.index /\ i + 1 - 1 = i
  OBVIOUS
<1>2. \A j \in (i + 1)..(s.index - 1) : FALSE
  OBVIOUS
<1> QED
  BY <1>1, <1>2 DEF InField

LEMMA NotASeparator ==
  ASSUME NEW t \in Seq(Characters), NEW s, NEW r, NEW p, NEW f, InField(t, s, p, f),
         s.index \in DOMAIN t, s.index \notin Separators(t, {Comma, NL}),
         r.index = s.index + 1
  PROVE  InField(t, r, p, f)
<1> DEFINE i == s.index
<1>1. /\ i \in Nat \ {0} /\ p \in Nat \ {0} /\ f \in Nat \ {0} /\ p <= f /\ f <= i
      /\ Len(t) \in Nat /\ TextEnd(t) = Len(t) + 1 /\ i \in 1..Len(t)
  BY PlaceIs
<1>2. i \notin Separators(t, {Comma}) /\ i \notin Separators(t, {NL})
  BY SeparatorsAre
<1>3. \A j \in p..(i + 1 - 1) : j \in p..(i - 1) \/ j = i
  BY <1>1
<1>4. \A j \in f..(i + 1 - 1) : j \in f..(i - 1) \/ j = i
  BY <1>1
<1>5. i + 1 \in 1..TextEnd(t) /\ p \in 1..(i + 1) /\ f \in p..(i + 1)
  BY <1>1
<1>6. /\ p = 1 \/ p - 1 \in Separators(t, {NL})
      /\ f = p \/ f - 1 \in Separators(t, {Comma})
      /\ \A j \in p..(i - 1) : j \notin Separators(t, {NL})
      /\ \A j \in f..(i - 1) : j \notin Separators(t, {Comma})
  BY DEF InField
<1>7. \A j \in p..(i + 1 - 1) : j \notin Separators(t, {NL})
  BY <1>2, <1>3, <1>6
<1>8. \A j \in f..(i + 1 - 1) : j \notin Separators(t, {Comma})
  BY <1>2, <1>4, <1>6
<1>9. r.index = i + 1
  OBVIOUS
<1> HIDE DEF i
<1>10. /\ r.index \in 1..TextEnd(t) /\ p \in 1..r.index /\ f \in p..r.index
       /\ r.index - 1 = i + 1 - 1
  BY <1>1, <1>5, <1>9
<1> QED
  BY <1>6, <1>7, <1>8, <1>10 DEF InField

LEMMA CommaStep ==
  ASSUME NEW t \in Seq(Characters), NEW s \in ReaderStates, s.outcome = "reading",
         NEW p, NEW f, ReadUpTo(t, s, p, f), ~s.quoted,
         s.index \in DOMAIN t, t[s.index] = Comma
  PROVE  ReadOn(t, pushCell(Skip(s, 1)))
<1> DEFINE i == s.index   r == pushCell(Skip(s, 1))
<1>0. InField(t, s, p, f) /\ LinesRead(t, s, p) /\ FieldsRead(t, s, p, f)
      /\ FieldSoFar(t, s, f)
  BY DEF ReadUpTo
<1>1. /\ i \in Nat \ {0} /\ p \in Nat \ {0} /\ f \in Nat \ {0} /\ p <= f /\ f <= i
      /\ Len(t) \in Nat /\ TextEnd(t) = Len(t) + 1 /\ i \in 1..Len(t)
      /\ p \in DOMAIN t
  BY <1>0, PlaceIs, TextIs
<1>2. WellWritten(t, f) /\ FieldFits(t, f) /\ Meaning(t, f) = s.cell
  BY <1>0, FieldEnds
<1>3. /\ Len(s.record) = Cardinality(FieldsBefore(t, p, f)) /\ Len(s.record) \in Nat
      /\ Append(s.record, Meaning(t, f))
           = Listed([k \in FieldsBefore(t, p, f) \cup {f} |-> Meaning(t, k)])
      /\ Cardinality(FieldsBefore(t, p, f) \cup {f}) = Len(s.record) + 1
  <2>1. Append(s.record, Meaning(t, f))
           = Listed([k \in FieldsBefore(t, p, f) \cup {f} |-> Meaning(t, k)])
    BY <1>0, FieldAdded
  <2>2. /\ Len(s.record) \in Nat /\ Len(s.record) = Cardinality(FieldsBefore(t, p, f))
        /\ Cardinality(FieldsBefore(t, p, f) \cup {f}) = Len(s.record) + 1
    BY <1>0, FieldsCounted
  <2> QED
    BY <2>1, <2>2
<1>4. MaxColumns \in Nat
  BY CsvAssumption
<1>5. /\ Skip(s, 1) = [s EXCEPT !.index = i + 1] /\ Skip(s, 1) \in ReaderStates
      /\ Skip(s, 1).record = s.record /\ Skip(s, 1).cell = s.cell
  BY SkipIs
<1>6. CASE Len(s.record) >= MaxColumns
  <2>1. r = Throw(Skip(s, 1))
    BY <1>5, <1>6 DEF pushCell
  <2>3. r \in ReaderStates /\ r.outcome = "refused"
    BY <1>5, <2>1 DEF Throw, ReaderStates
  <2>2. ~Written(t)
    BY <1>0, <1>1, <1>3, <1>6, SpoiltLine
  <2> QED
    BY <2>2, <2>3 DEF ReadOn
<1>7. CASE ~(Len(s.record) >= MaxColumns)
  <2>1. r = [s EXCEPT !.index = i + 1, !.record = Append(s.record, s.cell),
                      !.cell = <<>>, !.quoteClosed = FALSE]
    <3>1. r = [Skip(s, 1) EXCEPT !.record = Append(s.record, s.cell),
                                 !.cell = <<>>, !.quoteClosed = FALSE]
      BY <1>5, <1>7 DEF pushCell, ReaderStates
    <3> QED
      BY <1>5, <3>1 DEF ReaderStates
  <2>2. /\ r.index = i + 1 /\ r.cell = <<>> /\ r.record = Append(s.record, s.cell)
        /\ r.records = s.records /\ r.line = s.line /\ r.startLine = s.startLine
        /\ ~r.quoted /\ ~r.quoteClosed /\ r.outcome = "reading"
        /\ r \in ReaderStates
    <3>1. Append(s.record, s.cell) \in Seq(Seq(Characters)) /\ i + 1 \in Nat
          /\ <<>> \in Seq(Characters)
      BY <1>1 DEF ReaderStates
    <3> QED
      BY <2>1, <3>1 DEF ReaderStates
  <2> HIDE DEF r
  <2>3. Outside(t, i) /\ i \in Separators(t, {Comma}) /\ i \notin Separators(t, {NL})
    <3>1. Outside(t, i)
      BY <1>0, OutsideUnlessQuoted
    <3> QED
      BY <3>1, SeparatorsAre DEF Comma, NL
  <2>4. InField(t, r, p, i + 1)
    <3>1. i + 1 \in 1..TextEnd(t) /\ p \in 1..(i + 1) /\ i + 1 \in p..(i + 1)
          /\ i + 1 - 1 = i
      BY <1>1
    <3>2. \A j \in p..(i + 1 - 1) : j \in p..(i - 1) \/ j = i
      BY <1>1
    <3>3. \A j \in (i + 1)..(i + 1 - 1) : FALSE
      BY <1>1
    <3> QED
      <4>1. /\ p = 1 \/ p - 1 \in Separators(t, {NL})
            /\ \A j \in p..(i - 1) : j \notin Separators(t, {NL})
        BY <1>0 DEF InField
      <4>2. \A j \in p..(i + 1 - 1) : j \notin Separators(t, {NL})
        BY <2>3, <3>2, <4>1
      <4>3. i + 1 - 1 \in Separators(t, {Comma})
        BY <2>3, <3>1
      <4>4. /\ r.index \in 1..TextEnd(t) /\ p \in 1..r.index /\ i + 1 \in p..r.index
            /\ r.index - 1 = i + 1 - 1
        BY <1>1, <2>2, <3>1
      <4>5. \A j \in p..(r.index - 1) : j \notin Separators(t, {NL})
        BY <4>2, <4>4
      <4>6. \A j \in (i + 1)..(r.index - 1) : j \notin Separators(t, {Comma})
        BY <3>3, <4>4
      <4> HIDE DEF i
      <4> QED
        BY <4>1, <4>3, <4>4, <4>5, <4>6 DEF InField
  <2>5. LinesRead(t, r, p)
    <3>1. t[i] # NL
      BY DEF Comma, NL
    <3>2. LineNumber(t, i + 1) = LineNumber(t, i)
      BY <3>1, LineNumberStep
    <3> QED
      BY <1>0, <2>2, <3>2 DEF LinesRead
  <2>6. FieldsRead(t, r, p, i + 1)
    <3>1. FieldsBefore(t, p, i + 1) = FieldsBefore(t, p, f) \cup {f}
      BY <1>0, FieldsAhead
    <3>2. Cardinality(FieldsBefore(t, p, i + 1)) <= MaxColumns
      <4>1. Len(s.record) + 1 <= MaxColumns
        BY <1>3, <1>4, <1>7
      <4> QED
        BY <1>3, <3>1, <4>1
    <3>3. \A k \in FieldsBefore(t, p, i + 1) : WellWritten(t, k) /\ FieldFits(t, k)
      BY <1>0, <1>2, <3>1 DEF FieldsRead
    <3> QED
      BY <1>2, <1>3, <2>2, <3>1, <3>2, <3>3 DEF FieldsRead
  <2>7. BareSoFar(t, r, i + 1)
    <3>1. Outside(t, i + 1)
      BY <2>3, OutsideStep DEF Comma, QuoteMark
    <3>2. SubSeq(t, i + 1, i + 1 - 1) = <<>>
      <4>1. i + 1 - 1 < i + 1 /\ i + 1 - 1 \in Int /\ i + 1 \in Int
        BY <1>1
      <4> QED
        BY <4>1, SubSeqEmpty
    <3>3. i + 1 - (i + 1) <= MaxCell
      BY <1>1, CsvAssumption
    <3>4. \A j \in (i + 1)..(i + 1 - 1) : t[j] # QuoteMark
      BY <1>1
    <3> QED
      BY <2>2, <3>1, <3>2, <3>3, <3>4 DEF BareSoFar
  <2>8. p \in 1..r.index /\ i + 1 \in 1..r.index
    BY <1>1, <2>2
  <2>9. ReadUpTo(t, r, p, i + 1)
    BY <2>4, <2>5, <2>6, <2>7 DEF ReadUpTo, FieldSoFar
  <2> QED
    BY <2>2, <2>8, <2>9 DEF ReadOn, r
<1> QED
  BY <1>6, <1>7

\* A record at its end, either before the line's end is passed or after it.
LEMMA RecordStep ==
  ASSUME NEW t \in Seq(Characters), NEW s \in ReaderStates, s.outcome = "reading",
         NEW p \in DOMAIN t, NEW f, ReadUpTo(t, s, p, f), ~s.quoted,
         s.index \in Separators(t, {NL}), NEW u \in {s, Skip(s, 1)}
  PROVE  LET r == pushRecord(u)
             lines == LinesBefore(t, s.index + 1) IN
         /\ r \in ReaderStates
         /\ \/ r.outcome = "refused" /\ ~Written(t)
            \/ /\ r.outcome = "reading" /\ r.index = u.index
               /\ r.cell = <<>> /\ r.record = <<>> /\ ~r.quoted /\ ~r.quoteClosed
               /\ r.line = s.line + 1 /\ r.startLine = s.line + 1
               /\ r.records = Listed([k \in lines |-> WrittenRecord(t, k)])
               /\ Cardinality(lines) <= MaxRows + 1
               /\ \A k \in lines : LineFits(t, k)
<1> DEFINE i == s.index   r == pushRecord(u)   v == DropCR(u)
           lines == LinesBefore(t, i + 1)
<1>0. InField(t, s, p, f) /\ LinesRead(t, s, p) /\ FieldsRead(t, s, p, f)
      /\ FieldSoFar(t, s, f)
  BY DEF ReadUpTo
<1>1. /\ WellWritten(t, f) /\ FieldFits(t, f)
      /\ DropCR(s) = [s EXCEPT !.cell = Meaning(t, f)]
      /\ Meaning(t, f) \in Seq(Characters)
  BY <1>0, FieldEnds
<1>2. v = [u EXCEPT !.cell = Meaning(t, f)] /\ u \in ReaderStates
      /\ u.record = s.record /\ u.records = s.records /\ u.line = s.line
      /\ u.startLine = s.startLine /\ u.outcome = "reading" /\ u.quoted = s.quoted
  <2>1. CASE u = s
    BY <1>1, <2>1
  <2>2. CASE u = Skip(s, 1)
    <3>2. /\ u.cell = s.cell /\ u.quoteClosed = s.quoteClosed /\ u \in ReaderStates
          /\ u.record = s.record /\ u.records = s.records /\ u.line = s.line
          /\ u.startLine = s.startLine /\ u.outcome = "reading" /\ u.quoted = s.quoted
      BY <2>2, SkipIs
    <3>3. DropCR(s).cell = Meaning(t, f)
      BY <1>1 DEF ReaderStates
    <3>4. DropCR(u) = [u EXCEPT !.cell = DropCR(s).cell]
      BY <3>2 DEF DropCR, ReaderStates
    <3> QED
      BY <3>2, <3>3, <3>4
  <2> QED
    BY <2>1, <2>2
<1>3. /\ Len(s.record) = Cardinality(FieldsBefore(t, p, f)) /\ Len(s.record) \in Nat
      /\ Append(s.record, Meaning(t, f))
           = Listed([k \in FieldsBefore(t, p, f) \cup {f} |-> Meaning(t, k)])
      /\ Cardinality(FieldsBefore(t, p, f) \cup {f}) = Len(s.record) + 1
  <2>1. Append(s.record, Meaning(t, f))
           = Listed([k \in FieldsBefore(t, p, f) \cup {f} |-> Meaning(t, k)])
    BY <1>0, FieldAdded
  <2>2. /\ Len(s.record) \in Nat /\ Len(s.record) = Cardinality(FieldsBefore(t, p, f))
        /\ Cardinality(FieldsBefore(t, p, f) \cup {f}) = Len(s.record) + 1
    BY <1>0, FieldsCounted
  <2> QED
    BY <2>1, <2>2
<1>4. FieldStarts(t, p) = FieldsBefore(t, p, f) \cup {f}
  <2>1. LineStop(t, p) = s.index
    BY <1>0, StopsAhead
  <2> QED
    BY <1>0, <2>1, FieldsAhead
<1>5. /\ Len(s.records) = Cardinality(LinesBefore(t, p)) /\ Len(s.records) \in Nat
      /\ Append(s.records, WrittenRecord(t, p))
           = Listed([k \in lines |-> WrittenRecord(t, k)])
      /\ Cardinality(lines) = Len(s.records) + 1
  BY <1>0, LineAdded
<1>6. MaxColumns \in Nat /\ MaxRows \in Nat
  BY CsvAssumption
<1>7. WrittenRecord(t, p) = [cells |-> Append(s.record, Meaning(t, f)),
                            rowNumber |-> s.startLine]
  BY <1>0, <1>3, <1>4 DEF WrittenRecord, LinesRead
<1> HIDE DEF v, i
<1>8. CASE Len(s.record) >= MaxColumns
  <2>1. pushCell(v).outcome = "refused"
    BY <1>2, <1>8 DEF pushCell, Throw, ReaderStates
  <2>2. r = Throw(u)
    BY <2>1 DEF pushRecord, v
  <2>3. r \in ReaderStates /\ r.outcome = "refused"
    BY <1>2, <2>2 DEF Throw, ReaderStates
  <2>4. ~Written(t)
    BY <1>0, <1>3, <1>8, SpoiltLine
  <2> QED
    BY <2>3, <2>4
<1>9. CASE Len(s.records) > MaxRows
  <2>2. r = Throw(u)
    BY <1>2, <1>9 DEF pushRecord
  <2>3. r \in ReaderStates /\ r.outcome = "refused"
    BY <1>2, <2>2 DEF Throw, ReaderStates
  <2>4. ~Written(t)
    BY <1>0, <1>5, <1>9, SpoiltText
  <2> QED
    BY <2>3, <2>4
<1>10. CASE ~(Len(s.record) >= MaxColumns) /\ ~(Len(s.records) > MaxRows)
  <2>1. pushCell(v) = [u EXCEPT !.record = Append(s.record, Meaning(t, f)),
                                !.cell = <<>>, !.quoteClosed = FALSE]
    BY <1>1, <1>2, <1>10 DEF pushCell, ReaderStates
  <2>0. Append(s.record, Meaning(t, f)) \in Seq(Seq(Characters)) /\ <<>> \in Seq(Characters)
        /\ <<>> \in Seq(Seq(Characters)) /\ s.line + 1 \in Nat
    BY <1>1 DEF ReaderStates
  <2>2. pushCell(v).outcome # "refused" /\ pushCell(v) \in ReaderStates
        /\ pushCell(v).record = Append(s.record, Meaning(t, f))
        /\ pushCell(v).records = s.records /\ pushCell(v).line = s.line
    BY <1>2, <2>0, <2>1 DEF ReaderStates
  <2>3. r = [pushCell(v) EXCEPT
               !.records = Append(@, [cells |-> pushCell(v).record,
                                      rowNumber |-> u.startLine]),
               !.record = <<>>, !.line = @ + 1, !.startLine = u.line + 1]
    BY <1>2, <1>10, <2>2 DEF pushRecord, v
  <2>4. r = [u EXCEPT
               !.record = <<>>, !.cell = <<>>, !.quoteClosed = FALSE,
               !.records = Append(s.records, WrittenRecord(t, p)),
               !.line = s.line + 1, !.startLine = s.line + 1]
    <3>1. r = [pushCell(v) EXCEPT
                 !.records = Append(s.records, WrittenRecord(t, p)),
                 !.record = <<>>, !.line = s.line + 1, !.startLine = s.line + 1]
      BY <1>2, <1>7, <2>2, <2>3 DEF ReaderStates
    <3> HIDE DEF r
    <3> QED
      BY <1>2, <2>1, <3>1 DEF ReaderStates
  <2>5. WrittenRecord(t, p) \in [cells : Seq(Seq(Characters)), rowNumber : Nat]
    BY <1>7, <2>0 DEF ReaderStates
  <2>11. Append(s.records, WrittenRecord(t, p))
           \in Seq([cells : Seq(Seq(Characters)), rowNumber : Nat])
    BY <2>5 DEF ReaderStates
  <2> HIDE DEF r
  <2>6. r \in ReaderStates
    BY <1>2, <2>0, <2>4, <2>11 DEF ReaderStates
  <2>7. /\ r.outcome = "reading" /\ r.index = u.index
        /\ r.cell = <<>> /\ r.record = <<>> /\ ~r.quoted /\ ~r.quoteClosed
        /\ r.line = s.line + 1 /\ r.startLine = s.line + 1
        /\ r.records = Append(s.records, WrittenRecord(t, p))
    BY <1>2, <2>4 DEF ReaderStates
  <2>8. LineFits(t, p)
    <3>1. Cardinality(FieldStarts(t, p)) <= MaxColumns
      BY <1>3, <1>4, <1>6, <1>10
    <3> QED
      BY <1>0, <1>1, <1>4, <3>1 DEF LineFits, FieldsRead
  <2>9. \A k \in lines : LineFits(t, k)
    <3>1. lines = LinesBefore(t, p) \cup {p}
      BY <1>0, LinesAhead DEF i
    <3> QED
      BY <1>0, <2>8, <3>1 DEF LinesRead
  <2>10. Cardinality(lines) <= MaxRows + 1
    BY <1>5, <1>6, <1>10
  <2> QED
    BY <1>5, <2>6, <2>7, <2>9, <2>10 DEF i, r
<1> QED
  BY <1>8, <1>9, <1>10

LEMMA LineEndStep ==
  ASSUME NEW t \in Seq(Characters), NEW s \in ReaderStates, s.outcome = "reading",
         NEW p, NEW f, ReadUpTo(t, s, p, f), ~s.quoted,
         s.index \in DOMAIN t, t[s.index] = NL
  PROVE  ReadOn(t, pushRecord(Skip(s, 1)))
<1> DEFINE i == s.index   r == pushRecord(Skip(s, 1))
           lines == LinesBefore(t, i + 1)
<1>0. InField(t, s, p, f) /\ LinesRead(t, s, p) /\ FieldsRead(t, s, p, f)
      /\ FieldSoFar(t, s, f)
  BY DEF ReadUpTo
<1>1. /\ i \in Nat \ {0} /\ p \in Nat \ {0} /\ f \in Nat \ {0} /\ p <= f /\ f <= i
      /\ Len(t) \in Nat /\ TextEnd(t) = Len(t) + 1 /\ i \in 1..Len(t)
      /\ p \in DOMAIN t
  BY <1>0, PlaceIs, TextIs
<1>2. Outside(t, i) /\ i \in Separators(t, {NL})
  <2>1. Outside(t, i)
    BY <1>0, OutsideUnlessQuoted
  <2> QED
    BY <2>1, SeparatorsAre
<1>3. /\ r \in ReaderStates
      /\ \/ r.outcome = "refused" /\ ~Written(t)
         \/ /\ r.outcome = "reading" /\ r.index = Skip(s, 1).index
            /\ r.cell = <<>> /\ r.record = <<>> /\ ~r.quoted /\ ~r.quoteClosed
            /\ r.line = s.line + 1 /\ r.startLine = s.line + 1
            /\ r.records = Listed([k \in lines |-> WrittenRecord(t, k)])
            /\ Cardinality(lines) <= MaxRows + 1
            /\ \A k \in lines : LineFits(t, k)
  BY <1>1, <1>2, RecordStep
<1>4. Skip(s, 1).index = i + 1
  BY SkipIs
<1> HIDE DEF r
<1>5. CASE /\ r.outcome = "reading" /\ r.index = Skip(s, 1).index
           /\ r.cell = <<>> /\ r.record = <<>> /\ ~r.quoted /\ ~r.quoteClosed
           /\ r.line = s.line + 1 /\ r.startLine = s.line + 1
           /\ r.records = Listed([k \in lines |-> WrittenRecord(t, k)])
           /\ Cardinality(lines) <= MaxRows + 1
           /\ \A k \in lines : LineFits(t, k)
  <2>1. r.index = i + 1
    BY <1>4, <1>5
  <2>2. InField(t, r, i + 1, i + 1)
    <3>2. i + 1 \in Nat /\ i + 1 \in 1..TextEnd(t) /\ i + 1 - 1 = i
      BY <1>1
    <3> QED
      <4>1. i \in Nat
        BY <1>1
      <4> QED
        BY <1>2, <2>1, <3>2, <4>1, AtStart
  <2>3. LinesRead(t, r, i + 1)
    <3>1. LineNumber(t, i + 1) = LineNumber(t, i) + 1
      BY LineNumberStep
    <3>2. r.line = LineNumber(t, r.index) /\ r.startLine = LineNumber(t, i + 1)
      BY <1>0, <1>5, <2>1, <3>1 DEF LinesRead
    <3> QED
      BY <1>5, <3>2 DEF LinesRead
  <2>4. FieldsRead(t, r, i + 1, i + 1)
    <3>1. FieldsBefore(t, i + 1, i + 1) = {}
      BY <1>1 DEF FieldsBefore
    <3>2. Cardinality(FieldsBefore(t, i + 1, i + 1)) <= MaxColumns
      <4>1. MaxColumns \in Nat /\ Cardinality({}) = 0
        BY CsvAssumption, FS_EmptySet
      <4>2. Cardinality(FieldsBefore(t, i + 1, i + 1)) = 0
        BY <3>1, <4>1
      <4> HIDE DEF i
      <4> QED
        BY <4>1, <4>2
    <3>3. Listed([k \in FieldsBefore(t, i + 1, i + 1) |-> Meaning(t, k)]) = <<>>
      <4> DEFINE g == [k \in FieldsBefore(t, i + 1, i + 1) |-> Meaning(t, k)]
      <4>1. DOMAIN g = {}
        BY <3>1
      <4> HIDE DEF g
      <4>2. Listed(g) = <<>>
        BY <4>1, ListedNone
      <4> QED
        BY <4>2 DEF g
    <3>4. r.record = <<>>
      BY <1>5
    <3> QED
      BY <3>1, <3>2, <3>3, <3>4 DEF FieldsRead
  <2>5. BareSoFar(t, r, i + 1)
    <3>1. Outside(t, i + 1)
      BY <1>2, OutsideStep DEF NL, QuoteMark
    <3>2. SubSeq(t, i + 1, i + 1 - 1) = <<>>
      <4>1. i + 1 - 1 < i + 1 /\ i + 1 - 1 \in Int /\ i + 1 \in Int
        BY <1>1
      <4> QED
        BY <4>1, SubSeqEmpty
    <3>3. i + 1 - (i + 1) <= MaxCell
      BY <1>1, CsvAssumption
    <3>4. \A j \in (i + 1)..(i + 1 - 1) : t[j] # QuoteMark
      BY <1>1
    <3> QED
      BY <1>5, <2>1, <3>1, <3>2, <3>3, <3>4 DEF BareSoFar
  <2>6. i + 1 \in 1..r.index
    BY <1>1, <2>1
  <2>7. ReadUpTo(t, r, i + 1, i + 1)
    BY <2>2, <2>3, <2>4, <2>5 DEF ReadUpTo, FieldSoFar
  <2> QED
    BY <1>3, <1>5, <2>6, <2>7 DEF ReadOn, r
<1> QED
  BY <1>3, <1>5 DEF ReadOn, r

LEMMA TakeCharIs ==
  ASSUME NEW u \in ReaderStates, NEW c \in Characters
  PROVE  LET r == TakeChar(u, c) IN
         /\ r \in ReaderStates
         /\ Len(u.cell) >= MaxCell => r.outcome = "refused"
         /\ ~(Len(u.cell) >= MaxCell) =>
              /\ r.index = u.index /\ r.cell = Append(u.cell, c)
              /\ r.record = u.record /\ r.records = u.records
              /\ r.quoted = u.quoted /\ r.quoteClosed = u.quoteClosed
              /\ r.line = u.line + (IF c = NL THEN 1 ELSE 0)
              /\ r.startLine = u.startLine /\ r.outcome = u.outcome
              /\ Len(r.cell) <= MaxCell
<1> DEFINE r == TakeChar(u, c)
<1>1. Append(u.cell, c) \in Seq(Characters) /\ Len(u.cell) \in Nat
      /\ Len(Append(u.cell, c)) = Len(u.cell) + 1 /\ MaxCell \in Nat
  BY CsvAssumption DEF ReaderStates
<1>2. CASE Len(u.cell) >= MaxCell
  <2>1. r = [u EXCEPT !.outcome = "refused"]
    BY <1>2 DEF TakeChar, Throw
  <2> QED
    BY <1>2, <2>1 DEF ReaderStates
<1>3. CASE ~(Len(u.cell) >= MaxCell)
  <2>1. u.line + (IF c = NL THEN 1 ELSE 0) \in Nat
    BY DEF ReaderStates
  <2>2. r = [u EXCEPT !.cell = Append(u.cell, c),
                      !.line = u.line + (IF c = NL THEN 1 ELSE 0)]
    BY <1>3 DEF TakeChar, ReaderStates
  <2> HIDE DEF r
  <2>3. r \in ReaderStates
    BY <1>1, <2>1, <2>2 DEF ReaderStates
  <2>4. /\ r.index = u.index /\ r.cell = Append(u.cell, c)
        /\ r.record = u.record /\ r.records = u.records
        /\ r.quoted = u.quoted /\ r.quoteClosed = u.quoteClosed
        /\ r.line = u.line + (IF c = NL THEN 1 ELSE 0)
        /\ r.startLine = u.startLine /\ r.outcome = u.outcome
    BY <2>2 DEF ReaderStates
  <2>5. Len(r.cell) <= MaxCell
    BY <1>1, <1>3, <2>4
  <2> QED
    BY <1>3, <2>3, <2>4, <2>5 DEF r
<1> QED
  BY <1>2, <1>3

\* The reader moves on in the field it is in.
LEMMA MovesOn ==
  ASSUME NEW t \in Seq(Characters), NEW s \in ReaderStates, NEW r \in ReaderStates,
         NEW p, NEW f, ReadUpTo(t, s, p, f), InField(t, r, p, f),
         r.records = s.records, r.record = s.record,
         r.line = LineNumber(t, r.index), r.startLine = s.startLine,
         FieldSoFar(t, r, f), r.outcome = "reading"
  PROVE  ReadOn(t, r)
<1>1. LinesRead(t, r, p) /\ FieldsRead(t, r, p, f)
  BY DEF ReadUpTo, LinesRead, FieldsRead
<1>2. p \in 1..r.index /\ f \in 1..r.index
  BY PlaceIs
<1> QED
  BY <1>1, <1>2 DEF ReadOn, ReadUpTo

LEMMA BareStep ==
  ASSUME NEW t \in Seq(Characters), NEW s \in ReaderStates, s.outcome = "reading",
         NEW p, NEW f, ReadUpTo(t, s, p, f), BareSoFar(t, s, f),
         s.index \in DOMAIN t, t[s.index] \notin {QuoteMark, Comma, NL}
  PROVE  ReadOn(t, TakeChar(Skip(s, 1), t[s.index]))
<1> DEFINE i == s.index   r == TakeChar(Skip(s, 1), t[i])
<1>0. InField(t, s, p, f) /\ LinesRead(t, s, p)
  BY DEF ReadUpTo
<1>1. /\ i \in Nat \ {0} /\ p \in Nat \ {0} /\ f \in Nat \ {0} /\ p <= f /\ f <= i
      /\ Len(t) \in Nat /\ TextEnd(t) = Len(t) + 1 /\ i \in 1..Len(t)
      /\ p \in DOMAIN t /\ t[i] \in Characters /\ MaxCell \in Nat
  BY <1>0, PlaceIs, TextIs, CsvAssumption
<1>2. i \notin Separators(t, {Comma, NL})
  BY SeparatorsAre
<1>3. /\ Skip(s, 1) \in ReaderStates /\ Skip(s, 1).index = i + 1
      /\ Skip(s, 1).cell = s.cell /\ Skip(s, 1).line = s.line
      /\ Skip(s, 1).record = s.record /\ Skip(s, 1).records = s.records
      /\ Skip(s, 1).quoted = s.quoted /\ Skip(s, 1).quoteClosed = s.quoteClosed
      /\ Skip(s, 1).startLine = s.startLine /\ Skip(s, 1).outcome = s.outcome
  BY SkipIs
<1>4. InField(t, Skip(s, 1), p, f)
  BY <1>0, <1>2, <1>3, NotASeparator
<1>5. s.cell = SubSeq(t, f, i - 1) /\ Len(s.cell) = i - f
  <2>1. f <= i - 1 + 1 /\ i - 1 <= Len(t) /\ i - 1 \in Nat /\ i - 1 - f + 1 = i - f
    BY <1>1
  <2>2. Len(SubSeq(t, f, i - 1)) = i - 1 - f + 1
    BY <1>1, <2>1, PieceIs
  <2> QED
    BY <2>1, <2>2 DEF BareSoFar
<1>6. CASE Len(s.cell) >= MaxCell
  <2>1. r \in ReaderStates /\ r.outcome = "refused"
    BY <1>1, <1>3, <1>6, TakeCharIs
  <2>2. FieldStop(t, f) \in (i + 1)..TextEnd(t)
    BY <1>3, <1>4, StopsAhead
  <2>3. ~Quoted(t, f)
    BY <1>0, BareNotQuoted
  <2>4. ~(FieldStop(t, f) - f <= MaxCell)
    <3> DEFINE stop == FieldStop(t, f)   long == Len(s.cell)
    <3>1. /\ stop \in Int /\ stop >= i + 1 /\ long = i - f /\ long >= MaxCell
          /\ i \in Nat /\ f \in Nat /\ MaxCell \in Nat
      BY <1>1, <1>5, <1>6, <2>2
    <3> HIDE DEF stop, long, i
    <3>2. ~(stop - f <= MaxCell)
      BY <3>1
    <3> QED
      BY <3>2 DEF stop
  <2>5. ~FieldFits(t, f)
    BY <2>3, <2>4, Zenon DEF FieldFits
  <2>6. ~Written(t)
    BY <1>0, <1>1, <2>5, SpoiltField
  <2> QED
    BY <2>1, <2>6 DEF ReadOn
<1>7. CASE ~(Len(s.cell) >= MaxCell)
  <2>1. /\ r \in ReaderStates
        /\ r.index = i + 1 /\ r.cell = Append(s.cell, t[i])
        /\ r.record = s.record /\ r.records = s.records
        /\ r.quoted = s.quoted /\ r.quoteClosed = s.quoteClosed
        /\ r.line = s.line + (IF t[i] = NL THEN 1 ELSE 0)
        /\ r.startLine = s.startLine /\ r.outcome = "reading"
    <3>1. ~(Len(Skip(s, 1).cell) >= MaxCell)
      BY <1>3, <1>7
    <3>2. /\ r \in ReaderStates
          /\ r.index = Skip(s, 1).index /\ r.cell = Append(Skip(s, 1).cell, t[i])
          /\ r.record = Skip(s, 1).record /\ r.records = Skip(s, 1).records
          /\ r.quoted = Skip(s, 1).quoted /\ r.quoteClosed = Skip(s, 1).quoteClosed
          /\ r.line = Skip(s, 1).line + (IF t[i] = NL THEN 1 ELSE 0)
          /\ r.startLine = Skip(s, 1).startLine /\ r.outcome = Skip(s, 1).outcome
      BY <1>1, <1>3, <3>1, TakeCharIs
    <3> HIDE DEF r
    <3> QED
      BY <1>3, <3>2
  <2> HIDE DEF r
  <2>2. r.line = LineNumber(t, r.index)
    BY <1>0, <2>1, LineNumberStep DEF LinesRead
  <2>3. InField(t, r, p, f)
    BY <1>0, <1>2, <2>1, NotASeparator
  <2>4. BareSoFar(t, r, f)
    <3>1. Outside(t, i + 1)
      BY OutsideStep DEF BareSoFar
    <3>2. r.cell = SubSeq(t, f, i)
      BY <1>1, <1>5, <2>1, PieceGrows
    <3>3. \A j \in f..i : j \in f..(i - 1) \/ j = i
      BY <1>1
    <3>4. \A j \in f..i : t[j] # QuoteMark
      BY <3>3 DEF BareSoFar
    <3>5. r.index - f <= MaxCell /\ r.index - 1 = i
      <4>1. i - f < MaxCell
        BY <1>1, <1>5, <1>7
      <4> QED
        BY <1>1, <2>1, <4>1
    <3>6. ~r.quoted /\ ~r.quoteClosed
      BY <2>1 DEF BareSoFar
    <3>7. Outside(t, r.index)
      BY <2>1, <3>1
    <3> QED
      BY <3>2, <3>4, <3>5, <3>6, <3>7 DEF BareSoFar
  <2>5. ReadOn(t, r)
    BY <2>1, <2>2, <2>3, <2>4, MovesOn DEF FieldSoFar
  <2> QED
    BY <2>5 DEF r
<1> QED
  BY <1>6, <1>7

\* A field ends no earlier than the reader is, but for a CR at a line's end.
LEMMA LastAhead ==
  ASSUME NEW t \in Seq(Characters), NEW s \in ReaderStates, NEW p, NEW f,
         InField(t, s, p, f), s.index \in DOMAIN t,
         s.index \notin Separators(t, {Comma, NL})
  PROVE  /\ LastOf(t, f) \in Int /\ LastOf(t, f) <= Len(t)
         /\ LastOf(t, f) >= s.index \/
              /\ t[s.index] = CR /\ s.index + 1 \in Separators(t, {NL})
              /\ s.index = Len(t) => ~Quoted(t, f)
<1> DEFINE i == s.index   stop == FieldStop(t, f)
<1>1. /\ i \in Nat \ {0} /\ f \in Nat \ {0} /\ f <= i
      /\ Len(t) \in Nat /\ TextEnd(t) = Len(t) + 1 /\ i \in 1..Len(t)
  BY PlaceIs
<1>2. stop \in (i + 1)..TextEnd(t)
  <2>1. Skip(s, 1).index = i + 1
    BY SkipIs
  <2>2. InField(t, Skip(s, 1), p, f)
    BY <2>1, NotASeparator
  <2> QED
    BY <2>1, <2>2, StopsAhead
<1>3. stop \in Nat /\ stop >= i + 1 /\ stop <= Len(t) + 1
  BY <1>1, <1>2
<1>4. CASE LastOf(t, f) = stop - 1
  BY <1>1, <1>3, <1>4
<1>5. CASE LastOf(t, f) # stop - 1
  <2>1. /\ t[stop - 1] = CR /\ stop \in Separators(t, {NL})
        /\ stop = TextEnd(t) => ~Quoted(t, f)
        /\ LastOf(t, f) = stop - 2
    BY <1>5 DEF LastOf
  <2>2. CASE stop = i + 1
    <3>1. stop - 1 = i
      BY <1>1, <2>2
    <3> QED
      BY <1>1, <1>3, <2>1, <2>2, <3>1
  <2>3. CASE stop # i + 1
    BY <1>1, <1>3, <2>1, <2>3
  <2> QED
    BY <2>2, <2>3
<1> HIDE DEF stop
<1> QED
  BY <1>4, <1>5

LEMMA OpenQuoteStep ==
  ASSUME NEW t \in Seq(Characters), NEW s \in ReaderStates, s.outcome = "reading",
         NEW p, NEW f, ReadUpTo(t, s, p, f), BareSoFar(t, s, f),
         s.index \in DOMAIN t, t[s.index] = QuoteMark, s.cell = <<>>
  PROVE  ReadOn(t, [Skip(s, 1) EXCEPT !.quoted = TRUE])
<1> DEFINE i == s.index   r == [Skip(s, 1) EXCEPT !.quoted = TRUE]
<1>0. InField(t, s, p, f) /\ LinesRead(t, s, p)
  BY DEF ReadUpTo
<1>1. /\ i \in Nat \ {0} /\ f \in Nat \ {0} /\ f <= i
      /\ Len(t) \in Nat /\ TextEnd(t) = Len(t) + 1 /\ i \in 1..Len(t)
      /\ MaxCell \in Nat
  BY <1>0, PlaceIs, TextIs, CsvAssumption
<1>2. i \notin Separators(t, {Comma, NL})
  BY SeparatorsAre DEF QuoteMark, Comma, NL
<1>3. /\ r \in ReaderStates
      /\ r.index = i + 1 /\ r.cell = s.cell
      /\ r.record = s.record /\ r.records = s.records
      /\ r.quoted = TRUE /\ r.quoteClosed = s.quoteClosed
      /\ r.line = s.line /\ r.startLine = s.startLine /\ r.outcome = "reading"
  <2>1. /\ Skip(s, 1) \in ReaderStates /\ Skip(s, 1).index = i + 1
        /\ Skip(s, 1).cell = s.cell /\ Skip(s, 1).line = s.line
        /\ Skip(s, 1).record = s.record /\ Skip(s, 1).records = s.records
        /\ Skip(s, 1).quoteClosed = s.quoteClosed
        /\ Skip(s, 1).startLine = s.startLine /\ Skip(s, 1).outcome = s.outcome
    BY SkipIs
  <2> QED
    BY <2>1 DEF ReaderStates
<1> HIDE DEF r
<1>4. InField(t, r, p, f)
  BY <1>0, <1>2, <1>3, NotASeparator
<1>5. r.line = LineNumber(t, r.index)
  <2>1. LineNumber(t, i + 1) = LineNumber(t, i) + 0 /\ LineNumber(t, i) \in Nat
    BY LineNumberStep DEF NL, QuoteMark
  <2> QED
    BY <1>0, <1>3, <2>1 DEF LinesRead
<1>6. i = f
  <2>1. s.cell = SubSeq(t, f, i - 1) /\ Len(s.cell) = 0
    BY DEF BareSoFar
  <2>2. f <= i - 1 + 1 /\ i - 1 <= Len(t) /\ i - 1 \in Nat /\ i - 1 - f + 1 = i - f
    BY <1>1
  <2>3. Len(SubSeq(t, f, i - 1)) = i - 1 - f + 1
    BY <1>1, <2>2, PieceIs
  <2> QED
    BY <1>1, <2>1, <2>2, <2>3
<1>7. QuotedSoFar(t, r, f)
  <2>1. ~Outside(t, i + 1)
    BY OutsideStep DEF BareSoFar
  <2>2. Said(t, f, i + 1) = <<>>
    <3> DEFINE g == [k \in Inner(t, f, i + 1) |-> t[k]]
    <3>1. Inner(t, f, i + 1) = {}
      BY <1>1, <1>6 DEF Inner
    <3>2. DOMAIN g = {}
      BY <3>1
    <3> HIDE DEF g
    <3>3. Listed(g) = <<>>
      BY <3>2, ListedNone
    <3> QED
      BY <3>3 DEF Said, g
  <2>3. \A j \in (f + 1)..(i + 1 - 1) : FALSE
    BY <1>1, <1>6
  <2>4. r.cell = Said(t, f, i + 1) /\ Len(r.cell) <= MaxCell
    BY <1>1, <1>3, <2>2
  <2>5. r.quoted /\ ~r.quoteClosed /\ f < r.index /\ t[f] = QuoteMark
    BY <1>1, <1>3, <1>6 DEF BareSoFar
  <2> QED
    BY <1>3, <2>1, <2>3, <2>4, <2>5 DEF QuotedSoFar, QuotedUpTo
<1>8. ReadOn(t, r)
  BY <1>3, <1>4, <1>5, <1>7, MovesOn DEF FieldSoFar
<1> QED
  BY <1>8 DEF r

LEMMA StrayQuote ==
  ASSUME NEW t \in Seq(Characters), NEW s \in ReaderStates,
         NEW p, NEW f, ReadUpTo(t, s, p, f), BareSoFar(t, s, f),
         s.index \in DOMAIN t, t[s.index] = QuoteMark, s.cell # <<>>
  PROVE  ~Written(t)
<1> DEFINE i == s.index
<1>0. InField(t, s, p, f)
  BY DEF ReadUpTo
<1>1. /\ i \in Nat \ {0} /\ f \in Nat \ {0} /\ f <= i /\ p \in DOMAIN t
      /\ Len(t) \in Nat /\ TextEnd(t) = Len(t) + 1 /\ i \in 1..Len(t)
  BY <1>0, PlaceIs, TextIs
<1>2. i \notin Separators(t, {Comma, NL})
  BY SeparatorsAre DEF QuoteMark, Comma, NL
<1>3. i # f
  <2> SUFFICES ASSUME i = f PROVE FALSE
    OBVIOUS
  <2>1. s.cell = SubSeq(t, f, i - 1)
    BY DEF BareSoFar
  <2>2. i - 1 < f /\ i - 1 \in Int /\ f \in Int
    BY <1>1
  <2> QED
    BY <2>1, <2>2, SubSeqEmpty
<1>4. ~Quoted(t, f)
  BY <1>0, <1>3, BareNotQuoted
<1>5. LastOf(t, f) \in Int /\ LastOf(t, f) >= i
  BY <1>0, <1>2, LastAhead DEF CR, QuoteMark
<1>6. ~WellWritten(t, f)
  <2>1. i \in f..LastOf(t, f)
    BY <1>1, <1>5
  <2> QED
    BY <1>4, <2>1 DEF WellWritten
<1> QED
  BY <1>0, <1>1, <1>6, SpoiltField

\* In quotes.
LEMMA QuotedPlace ==
  ASSUME NEW t \in Seq(Characters), NEW s \in ReaderStates,
         NEW p, NEW f, InField(t, s, p, f), QuotedSoFar(t, s, f), s.index \in DOMAIN t
  PROVE  /\ Quoted(t, f) /\ p \in DOMAIN t /\ f < s.index
         /\ s.index \notin Separators(t, {Comma, NL})
         /\ ~Outside(t, s.index)
         /\ Outside(t, s.index + 1) <=> t[s.index] = QuoteMark
         /\ LastOf(t, f) \in Int /\ LastOf(t, f) <= Len(t)
         /\ WellWritten(t, f) => LastOf(t, f) >= s.index
<1> DEFINE i == s.index
<1>1. /\ i \in Nat \ {0} /\ f \in Nat \ {0} /\ f <= i /\ p \in DOMAIN t /\ f \in DOMAIN t
      /\ Len(t) \in Nat /\ TextEnd(t) = Len(t) + 1 /\ i \in 1..Len(t)
  BY PlaceIs, TextIs
<1>2. f < i /\ t[f] = QuoteMark /\ ~Outside(t, i)
  BY DEF QuotedSoFar, QuotedUpTo
<1>3. Quoted(t, f)
  BY <1>1, <1>2 DEF Quoted
<1>4. i \notin Separators(t, {Comma, NL})
  BY <1>2, SeparatorsAre
<1>5. Outside(t, i + 1) <=> t[i] = QuoteMark
  BY <1>2, OutsideStep
<1>6. /\ LastOf(t, f) \in Int /\ LastOf(t, f) <= Len(t)
      /\ LastOf(t, f) >= i \/
           /\ t[i] = CR /\ i + 1 \in Separators(t, {NL})
           /\ i = Len(t) => ~Quoted(t, f)
  BY <1>4, LastAhead
<1>7. ASSUME WellWritten(t, f), ~(LastOf(t, f) >= i) PROVE FALSE
  <2>1. t[i] = CR /\ i + 1 \in Separators(t, {NL}) /\ i # Len(t)
    BY <1>3, <1>6, <1>7
  <2>2. i + 1 \in DOMAIN t
    BY <1>1, <2>1
  <2>3. Outside(t, i + 1)
    BY <2>1, <2>2, SeparatorsAre
  <2> QED
    BY <1>5, <2>1, <2>3 DEF CR, QuoteMark
<1> QED
  BY <1>1, <1>2, <1>3, <1>4, <1>5, <1>6, <1>7

\* One more than the limit.
LEMMA QuotedTooLong ==
  ASSUME NEW t \in Seq(Characters), NEW s \in ReaderStates,
         NEW p, NEW f, InField(t, s, p, f), QuotedSoFar(t, s, f), s.index \in DOMAIN t,
         Len(s.cell) >= MaxCell, WellWritten(t, f) => LastOf(t, f) > s.index
  PROVE  ~Written(t)
<1> DEFINE i == s.index   last == LastOf(t, f)
<1>1. Quoted(t, f) /\ p \in DOMAIN t /\ ~Outside(t, i) /\ f < i
      /\ last \in Int /\ last <= Len(t)
  BY QuotedPlace
<1>2. i \in Nat /\ f \in Nat \ {0} /\ i <= TextEnd(t) /\ TextEnd(t) = Len(t) + 1
      /\ Len(t) \in Nat
  BY PlaceIs
<1>3. s.cell = Said(t, f, i)
  BY DEF QuotedSoFar, QuotedUpTo
<1> SUFFICES ASSUME WellWritten(t, f) PROVE ~FieldFits(t, f)
  BY <1>1, SpoiltField
<1>4. last > i /\ last \in Nat /\ last <= TextEnd(t)
  BY <1>1, <1>2
<1> HIDE DEF last, i
<1>5. Inner(t, f, i) \cup {i} \in SUBSET Inner(t, f, last) /\ i \notin Inner(t, f, i)
  BY <1>1, <1>2, <1>4 DEF Inner, Opening
<1>6. /\ IsFiniteSet(Inner(t, f, last)) /\ IsFiniteSet(Inner(t, f, i))
      /\ Len(Said(t, f, last)) = Cardinality(Inner(t, f, last))
      /\ Len(Said(t, f, i)) = Cardinality(Inner(t, f, i))
  BY <1>2, <1>4, InnerIs
<1>7. /\ Cardinality(Inner(t, f, i) \cup {i}) = Cardinality(Inner(t, f, i)) + 1
      /\ Cardinality(Inner(t, f, i)) \in Nat /\ Cardinality(Inner(t, f, last)) \in Nat
  BY <1>5, <1>6, FS_AddElement, FS_CardinalityType
<1>8. Cardinality(Inner(t, f, i) \cup {i}) <= Cardinality(Inner(t, f, last))
  BY <1>5, <1>6, FS_Subset
<1>9. MaxCell \in Nat
  BY CsvAssumption
<1>10. Len(Said(t, f, last)) > MaxCell
  BY <1>3, <1>6, <1>7, <1>8, <1>9
<1> QED
  BY <1>1, <1>9, <1>10 DEF FieldFits, Meaning, last

LEMMA QuotedTypes ==
  ASSUME NEW t \in Seq(Characters), NEW s, NEW p, NEW f, InField(t, s, p, f),
         s.index \in DOMAIN t
  PROVE  /\ s.index \in Nat \ {0} /\ f \in Nat \ {0} /\ p \in Nat \ {0}
         /\ f <= s.index /\ Len(t) \in Nat /\ TextEnd(t) = Len(t) + 1
         /\ s.index \in 1..Len(t) /\ DOMAIN t = 1..Len(t)
         /\ t[s.index] \in Characters /\ MaxCell \in Nat
BY PlaceIs, TextIs, CsvAssumption

LEMMA TakeQuoted ==
  ASSUME NEW t \in Seq(Characters), NEW s \in ReaderStates, s.outcome = "reading",
         NEW p, NEW f, ReadUpTo(t, s, p, f), QuotedSoFar(t, s, f),
         s.index \in DOMAIN t, t[s.index] # QuoteMark
  PROVE  ReadOn(t, TakeChar(Skip(s, 1), t[s.index]))
<1> DEFINE i == s.index   u == Skip(s, 1)   r == TakeChar(u, t[i])
<1>0. InField(t, s, p, f) /\ LinesRead(t, s, p)
  BY DEF ReadUpTo
<1>1. /\ i \in Nat \ {0} /\ f \in Nat \ {0} /\ f <= i /\ i \in 1..Len(t)
      /\ Len(t) \in Nat /\ t[i] \in Characters /\ MaxCell \in Nat
  BY <1>0, QuotedTypes
<1>2. /\ Quoted(t, f) /\ f < i /\ i \notin Separators(t, {Comma, NL})
      /\ ~Outside(t, i) /\ ~Outside(t, i + 1)
      /\ LastOf(t, f) \in Int
      /\ WellWritten(t, f) => LastOf(t, f) >= i
  BY <1>0, QuotedPlace
<1>3. /\ u \in ReaderStates /\ u.index = i + 1
      /\ u.cell = s.cell /\ u.line = s.line
      /\ u.record = s.record /\ u.records = s.records
      /\ u.quoted = s.quoted /\ u.quoteClosed = s.quoteClosed
      /\ u.startLine = s.startLine /\ u.outcome = s.outcome
  BY SkipIs
<1>4. s.cell = Said(t, f, i) /\ s.quoted /\ ~s.quoteClosed /\ t[f] = QuoteMark
      /\ \A j \in (f + 1)..(i - 1) : Opening(t, j) => t[j - 1] = QuoteMark
  BY DEF QuotedSoFar, QuotedUpTo
<1> HIDE DEF u
<1>5. CASE Len(s.cell) >= MaxCell
  <2>1. r \in ReaderStates /\ r.outcome = "refused"
    BY <1>1, <1>3, <1>5, TakeCharIs
  <2>2. WellWritten(t, f) => LastOf(t, f) > i
    <3>1. WellWritten(t, f) => t[LastOf(t, f)] = QuoteMark
      BY <1>2 DEF WellWritten
    <3>2. WellWritten(t, f) => LastOf(t, f) # i
      BY <3>1
    <3> QED
      BY <1>1, <1>2, <3>2
  <2>3. ~Written(t)
    BY <1>0, <1>5, <2>2, QuotedTooLong
  <2> QED
    BY <2>1, <2>3 DEF ReadOn, u
<1>6. CASE ~(Len(s.cell) >= MaxCell)
  <2>0. ~(Len(u.cell) >= MaxCell)
    BY <1>3, <1>6
  <2>1. /\ r \in ReaderStates
        /\ r.index = i + 1 /\ r.cell = Append(s.cell, t[i])
        /\ r.record = s.record /\ r.records = s.records
        /\ r.quoted = s.quoted /\ r.quoteClosed = s.quoteClosed
        /\ r.line = s.line + (IF t[i] = NL THEN 1 ELSE 0)
        /\ r.startLine = s.startLine /\ r.outcome = "reading"
        /\ Len(r.cell) <= MaxCell
    <3>1. /\ r \in ReaderStates
          /\ r.index = u.index /\ r.cell = Append(u.cell, t[i])
          /\ r.record = u.record /\ r.records = u.records
          /\ r.quoted = u.quoted /\ r.quoteClosed = u.quoteClosed
          /\ r.line = u.line + (IF t[i] = NL THEN 1 ELSE 0)
          /\ r.startLine = u.startLine /\ r.outcome = u.outcome
          /\ Len(r.cell) <= MaxCell
      BY <1>1, <1>3, <2>0, TakeCharIs
    <3> HIDE DEF r
    <3> QED
      BY <1>3, <3>1
  <2> HIDE DEF r
  <2>2. r.line = LineNumber(t, r.index)
    BY <1>0, <2>1, LineNumberStep DEF LinesRead
  <2>3. InField(t, r, p, f)
    BY <1>0, <1>2, <2>1, NotASeparator
  <2>4. QuotedSoFar(t, r, f)
    <3>1. ~Opening(t, i)
      BY <1>2 DEF Opening
    <3>2. r.cell = Said(t, f, i + 1)
      BY <1>1, <1>2, <1>4, <2>1, <3>1, SaidGrows
    <3>3. \A j \in (f + 1)..(i + 1 - 1) : j \in (f + 1)..(i - 1) \/ j = i
      BY <1>1
    <3>4. \A j \in (f + 1)..(r.index - 1) : Opening(t, j) => t[j - 1] = QuoteMark
      BY <1>4, <2>1, <3>1, <3>3
    <3>5. f < r.index
      BY <1>1, <1>2, <2>1
    <3> QED
      BY <1>2, <1>4, <2>1, <3>2, <3>4, <3>5 DEF QuotedSoFar, QuotedUpTo
  <2>5. ReadOn(t, r)
    BY <2>1, <2>2, <2>3, <2>4, MovesOn DEF FieldSoFar
  <2> QED
    BY <2>5 DEF r, u
<1> QED
  BY <1>5, <1>6

\* Two quotes in a row are one that is said.
LEMMA DoubledQuote ==
  ASSUME NEW t \in Seq(Characters), NEW s \in ReaderStates, s.outcome = "reading",
         NEW p, NEW f, ReadUpTo(t, s, p, f), QuotedSoFar(t, s, f),
         s.index \in DOMAIN t, t[s.index] = QuoteMark,
         s.index + 1 \in DOMAIN t, t[s.index + 1] = QuoteMark
  PROVE  ReadOn(t, TakeChar(Skip(s, 2), QuoteMark))
<1> DEFINE i == s.index   v == Skip(s, 1)   u == Skip(s, 2)   r == TakeChar(u, QuoteMark)
<1>0. InField(t, s, p, f) /\ LinesRead(t, s, p)
  BY DEF ReadUpTo
<1>1. /\ i \in Nat \ {0} /\ f \in Nat \ {0} /\ f <= i /\ i \in 1..Len(t)
      /\ Len(t) \in Nat /\ MaxCell \in Nat /\ i + 1 + 1 = i + 2 /\ i + 1 \in Nat
  BY <1>0, QuotedTypes
<1>2. /\ Quoted(t, f) /\ f < i /\ i \notin Separators(t, {Comma, NL})
      /\ ~Outside(t, i) /\ Outside(t, i + 1) /\ LastOf(t, f) \in Int
  BY <1>0, QuotedPlace
<1>3. /\ u \in ReaderStates /\ u.index = i + 2
      /\ u.cell = s.cell /\ u.line = s.line
      /\ u.record = s.record /\ u.records = s.records
      /\ u.quoted = s.quoted /\ u.quoteClosed = s.quoteClosed
      /\ u.startLine = s.startLine /\ u.outcome = s.outcome
  BY SkipIs
<1>4. s.cell = Said(t, f, i) /\ s.quoted /\ ~s.quoteClosed /\ t[f] = QuoteMark
      /\ \A j \in (f + 1)..(i - 1) : Opening(t, j) => t[j - 1] = QuoteMark
  BY DEF QuotedSoFar, QuotedUpTo
<1>5. v.index = i + 1 /\ v \in ReaderStates
  BY SkipIs
<1>6. InField(t, v, p, f) /\ v.index \notin Separators(t, {Comma, NL})
  <2>1. InField(t, v, p, f)
    BY <1>0, <1>2, <1>5, NotASeparator
  <2>2. i + 1 \notin Separators(t, {Comma, NL})
    BY SeparatorsAre DEF QuoteMark, Comma, NL
  <2> QED
    BY <1>5, <2>1, <2>2
<1>7. ~Outside(t, i + 2)
  BY <1>1, <1>2, OutsideStep
<1> HIDE DEF u, v
<1>8. CASE Len(s.cell) >= MaxCell
  <2>1. r \in ReaderStates /\ r.outcome = "refused"
    BY <1>1, <1>3, <1>8, TakeCharIs DEF Characters
  <2>2. LastOf(t, f) > i
    <3>1. LastOf(t, f) >= i + 1
      BY <1>5, <1>6, LastAhead DEF QuoteMark, CR
    <3> QED
      BY <1>1, <1>2, <3>1
  <2>3. ~Written(t)
    BY <1>0, <1>8, <2>2, QuotedTooLong
  <2> QED
    BY <2>1, <2>3 DEF ReadOn, u
<1>9. CASE ~(Len(s.cell) >= MaxCell)
  <2>0. ~(Len(u.cell) >= MaxCell)
    BY <1>3, <1>9
  <2>1. /\ r \in ReaderStates
        /\ r.index = i + 2 /\ r.cell = Append(s.cell, QuoteMark)
        /\ r.record = s.record /\ r.records = s.records
        /\ r.quoted = s.quoted /\ r.quoteClosed = s.quoteClosed
        /\ r.line = s.line
        /\ r.startLine = s.startLine /\ r.outcome = "reading"
        /\ Len(r.cell) <= MaxCell
    <3>0. QuoteMark \in Characters /\ QuoteMark # NL /\ u.line + 0 = u.line
      BY <1>3 DEF Characters, QuoteMark, NL, ReaderStates
    <3>1. /\ r \in ReaderStates
          /\ r.index = u.index /\ r.cell = Append(u.cell, QuoteMark)
          /\ r.record = u.record /\ r.records = u.records
          /\ r.quoted = u.quoted /\ r.quoteClosed = u.quoteClosed
          /\ r.line = u.line + (IF QuoteMark = NL THEN 1 ELSE 0)
          /\ r.startLine = u.startLine /\ r.outcome = u.outcome
          /\ Len(r.cell) <= MaxCell
      BY <1>3, <2>0, <3>0, TakeCharIs
    <3>2. r.line = s.line
      BY <1>3, <3>0, <3>1
    <3> HIDE DEF r
    <3> QED
      BY <1>3, <3>1, <3>2
  <2> HIDE DEF r
  <2>2. r.line = LineNumber(t, r.index)
    <3>1. LineNumber(t, i + 1) = LineNumber(t, i) + 0 /\ LineNumber(t, i) \in Nat
      BY LineNumberStep DEF NL, QuoteMark
    <3>2. LineNumber(t, i + 1 + 1) = LineNumber(t, i + 1) + 0
      BY LineNumberStep DEF NL, QuoteMark
    <3>3. LineNumber(t, i + 2) = LineNumber(t, i)
      BY <1>1, <3>1, <3>2
    <3> QED
      BY <1>0, <2>1, <3>3 DEF LinesRead
  <2>3. InField(t, r, p, f)
    <3>1. r.index = v.index + 1 /\ v.index \in DOMAIN t
      BY <1>1, <1>5, <2>1
    <3> QED
      BY <1>6, <3>1, NotASeparator
  <2>4. QuotedSoFar(t, r, f)
    <3>1. ~Opening(t, i) /\ Opening(t, i + 1)
      BY <1>2 DEF Opening
    <3>2. Said(t, f, i + 1) = Append(Said(t, f, i), QuoteMark)
      BY <1>1, <1>2, <3>1, SaidGrows
    <3>3. Said(t, f, i + 1 + 1) = Said(t, f, i + 1)
      <4>1. f < i + 1
        BY <1>1
      <4> QED
        BY <1>1, <3>1, <4>1, SaidGrows
    <3>4. r.cell = Said(t, f, r.index)
      BY <1>1, <1>4, <2>1, <3>2, <3>3
    <3>5. \A j \in (f + 1)..(i + 2 - 1) : j \in (f + 1)..(i - 1) \/ j = i \/ j = i + 1
      BY <1>1
    <3>6. i + 1 - 1 = i
      BY <1>1
    <3>7. \A j \in (f + 1)..(r.index - 1) : Opening(t, j) => t[j - 1] = QuoteMark
      BY <1>4, <2>1, <3>1, <3>5, <3>6
    <3>8. f < r.index
      BY <1>1, <1>2, <2>1
    <3> QED
      BY <1>4, <1>7, <2>1, <3>4, <3>7, <3>8 DEF QuotedSoFar, QuotedUpTo
  <2>5. ReadOn(t, r)
    BY <2>1, <2>2, <2>3, <2>4, MovesOn DEF FieldSoFar
  <2> QED
    BY <2>5 DEF r, u
<1> QED
  BY <1>8, <1>9

LEMMA CloseQuote ==
  ASSUME NEW t \in Seq(Characters), NEW s \in ReaderStates, s.outcome = "reading",
         NEW p, NEW f, ReadUpTo(t, s, p, f), QuotedSoFar(t, s, f),
         s.index \in DOMAIN t, t[s.index] = QuoteMark,
         s.index + 1 \in DOMAIN t => t[s.index + 1] # QuoteMark
  PROVE  ReadOn(t, [Skip(s, 1) EXCEPT !.quoted = FALSE, !.quoteClosed = TRUE])
<1> DEFINE i == s.index
           r == [Skip(s, 1) EXCEPT !.quoted = FALSE, !.quoteClosed = TRUE]
<1>0. InField(t, s, p, f) /\ LinesRead(t, s, p)
  BY DEF ReadUpTo
<1>1. /\ i \in Nat \ {0} /\ f \in Nat \ {0} /\ f <= i /\ i \in 1..Len(t)
      /\ Len(t) \in Nat
  BY <1>0, QuotedTypes
<1>2. f < i /\ i \notin Separators(t, {Comma, NL})
  BY <1>0, QuotedPlace
<1>3. /\ r \in ReaderStates
      /\ r.index = i + 1 /\ r.cell = s.cell
      /\ r.record = s.record /\ r.records = s.records
      /\ r.quoted = FALSE /\ r.quoteClosed = TRUE
      /\ r.line = s.line /\ r.startLine = s.startLine /\ r.outcome = "reading"
  <2>1. /\ Skip(s, 1) \in ReaderStates /\ Skip(s, 1).index = i + 1
        /\ Skip(s, 1).cell = s.cell /\ Skip(s, 1).line = s.line
        /\ Skip(s, 1).record = s.record /\ Skip(s, 1).records = s.records
        /\ Skip(s, 1).startLine = s.startLine /\ Skip(s, 1).outcome = s.outcome
    BY SkipIs
  <2> QED
    BY <2>1 DEF ReaderStates
<1> HIDE DEF r
<1>4. InField(t, r, p, f)
  BY <1>0, <1>2, <1>3, NotASeparator
<1>5. r.line = LineNumber(t, r.index)
  <2>1. LineNumber(t, i + 1) = LineNumber(t, i) + 0 /\ LineNumber(t, i) \in Nat
    BY LineNumberStep DEF NL, QuoteMark
  <2> QED
    BY <1>0, <1>3, <2>1 DEF LinesRead
<1>6. ClosedAt(t, r, f, i)
  <2>1. QuotedUpTo(t, r, f, i)
    BY <1>3 DEF QuotedSoFar, QuotedUpTo
  <2> QED
    BY <1>3, <2>1 DEF ClosedAt
<1>7. i \in f..(r.index - 1)
  BY <1>1, <1>3
<1>8. ReadOn(t, r)
  BY <1>3, <1>4, <1>5, <1>6, <1>7, MovesOn DEF FieldSoFar
<1> QED
  BY <1>8 DEF r

LEMMA SkipCR ==
  ASSUME NEW t \in Seq(Characters), NEW s \in ReaderStates, s.outcome = "reading",
         NEW p, NEW f, ReadUpTo(t, s, p, f),
         NEW last \in f..(s.index - 1), ClosedAt(t, s, f, last),
         s.index \in DOMAIN t, t[s.index] = CR,
         s.index + 1 \in DOMAIN t, t[s.index + 1] = NL
  PROVE  ReadOn(t, Skip(s, 1))
<1> DEFINE i == s.index   r == Skip(s, 1)
<1>0. InField(t, s, p, f) /\ LinesRead(t, s, p)
  BY DEF ReadUpTo
<1>1. /\ i \in Nat \ {0} /\ f \in Nat \ {0} /\ f <= i /\ i \in 1..Len(t)
      /\ Len(t) \in Nat /\ last \in Nat /\ f <= last /\ last <= i - 1
  BY <1>0, QuotedTypes
<1>2. i \notin Separators(t, {Comma, NL})
  <2>1. i \in DOMAIN t /\ t[i] = CR /\ CR \notin {Comma, NL}
    BY DEF CR, Comma, NL
  <2> QED
    BY <2>1, SeparatorsAre
<1>3. /\ r \in ReaderStates
      /\ r.index = i + 1 /\ r.cell = s.cell
      /\ r.record = s.record /\ r.records = s.records
      /\ r.quoted = s.quoted /\ r.quoteClosed = s.quoteClosed
      /\ r.line = s.line /\ r.startLine = s.startLine /\ r.outcome = "reading"
  BY SkipIs
<1> HIDE DEF r
<1>4. InField(t, r, p, f)
  BY <1>0, <1>2, <1>3, NotASeparator
<1>5. r.line = LineNumber(t, r.index)
  <2>1. LineNumber(t, i + 1) = LineNumber(t, i) + 0 /\ LineNumber(t, i) \in Nat
    BY LineNumberStep DEF NL, CR
  <2> QED
    BY <1>0, <1>3, <2>1 DEF LinesRead
<1>6. i = last + 1
  BY DEF ClosedAt, CR, NL
<1>7. ClosedAt(t, r, f, last)
  <2>1. QuotedUpTo(t, r, f, last)
    BY <1>3 DEF ClosedAt, QuotedUpTo
  <2>2. r.index = last + 2 /\ t[last + 1] = CR /\ r.index \in DOMAIN t
        /\ t[r.index] = NL
    BY <1>1, <1>3, <1>6
  <2> QED
    BY <1>3, <2>1, <2>2 DEF ClosedAt
<1>8. last \in f..(r.index - 1)
  BY <1>1, <1>3
<1>9. ReadOn(t, r)
  BY <1>3, <1>4, <1>5, <1>7, <1>8, MovesOn DEF FieldSoFar
<1> QED
  BY <1>9 DEF r

\* After the quotes that close a field only its end may come.
LEMMA AfterThrow ==
  ASSUME NEW t \in Seq(Characters), NEW s \in ReaderStates,
         NEW p, NEW f, ReadUpTo(t, s, p, f),
         NEW last \in f..(s.index - 1), ClosedAt(t, s, f, last),
         s.index \in DOMAIN t, t[s.index] \notin {Comma, NL},
         ~(t[s.index] = CR /\ s.index + 1 \in DOMAIN t /\ t[s.index + 1] = NL)
  PROVE  ~Written(t)
<1> DEFINE i == s.index   end == LastOf(t, f)
<1>0. InField(t, s, p, f)
  BY DEF ReadUpTo
<1>1. /\ i \in Nat \ {0} /\ f \in Nat \ {0} /\ f <= i /\ i \in 1..Len(t)
      /\ Len(t) \in Nat /\ last \in Nat /\ f <= last /\ last <= i - 1
      /\ TextEnd(t) = Len(t) + 1 /\ DOMAIN t = 1..Len(t) /\ p \in DOMAIN t
  BY <1>0, QuotedTypes, PlaceIs
<1>2. i \notin Separators(t, {Comma, NL})
  BY SeparatorsAre
<1>3. /\ i = last + 1 /\ t[i] # QuoteMark /\ ~Outside(t, last) /\ t[last] = QuoteMark
      /\ t[f] = QuoteMark
  BY DEF ClosedAt, QuotedUpTo
<1>4. Outside(t, i) /\ Quoted(t, f)
  <2>1. last \in DOMAIN t /\ f \in DOMAIN t
    BY <1>1
  <2> QED
    BY <1>3, <2>1, OutsideStep DEF Quoted
<1>5. end \in Int /\ end <= Len(t) /\ end >= i
  <2>1. /\ end \in Int /\ end <= Len(t)
        /\ end >= i \/
             /\ t[i] = CR /\ i + 1 \in Separators(t, {NL})
             /\ i = Len(t) => ~Quoted(t, f)
    BY <1>0, <1>2, LastAhead
  <2>2. ~(t[i] = CR /\ i + 1 \in Separators(t, {NL}) /\ i # Len(t))
    <3>1. i # Len(t) => i + 1 \in DOMAIN t
      BY <1>1
    <3> QED
      BY <3>1, SeparatorsAre
  <2> QED
    BY <1>4, <2>1, <2>2
<1> HIDE DEF end
<1> SUFFICES ASSUME WellWritten(t, f) PROVE FALSE
  BY <1>0, <1>1, SpoiltField
<1>6. /\ t[end] = QuoteMark
      /\ \A k \in (f + 1)..end : Opening(t, k) => t[k - 1] = QuoteMark
  BY <1>4 DEF WellWritten, end
<1> DEFINE T == {j \in i..end : t[j] = QuoteMark}
<1>7. T \subseteq Nat /\ end \in T
  BY <1>1, <1>5, <1>6
<1>8. PICK k \in T : \A j \in T : k <= j
  <2> HIDE DEF T
  <2> QED
    BY <1>7, LeastNatural
<1>9. k \in Nat /\ i <= k /\ k <= end /\ t[k] = QuoteMark /\ k # i
  BY <1>1, <1>3, <1>5, <1>8
<1>10. ASSUME NEW j \in i..(k - 1) PROVE t[j] # QuoteMark
  <2>1. j \in i..end /\ ~(k <= j)
    BY <1>1, <1>5, <1>9
  <2> QED
    BY <1>8, <2>1
<1>11. Outside(t, k)
  <2>1. i \in 1..TextEnd(t) /\ k \in i..TextEnd(t)
    BY <1>1, <1>5, <1>9
  <2> QED
    BY <1>4, <1>10, <2>1, OutsideStays
<1>12. t[k - 1] = QuoteMark
  <2>1. k \in (f + 1)..end
    BY <1>1, <1>5, <1>9
  <2> QED
    BY <1>6, <1>9, <1>11, <2>1 DEF Opening
<1>13. k - 1 \in i..(k - 1)
  BY <1>1, <1>9
<1> QED
  BY <1>10, <1>12, <1>13

\* The text ends in quotes.
LEMMA EndsInQuotes ==
  ASSUME NEW t \in Seq(Characters), NEW s \in ReaderStates,
         NEW p, NEW f, ReadUpTo(t, s, p, f), QuotedSoFar(t, s, f),
         s.index = TextEnd(t)
  PROVE  ~Written(t)
<1>0. InField(t, s, p, f)
  BY DEF ReadUpTo
<1>1. /\ f \in Nat \ {0} /\ Len(t) \in Nat /\ TextEnd(t) = Len(t) + 1
      /\ DOMAIN t = 1..Len(t) /\ p \in Nat \ {0} /\ p <= f
  BY <1>0, PlaceIs
<1>2. f < TextEnd(t) /\ t[f] = QuoteMark /\ ~Outside(t, TextEnd(t))
  BY DEF QuotedSoFar, QuotedUpTo
<1>3. Quoted(t, f) /\ p \in DOMAIN t /\ Len(t) \in DOMAIN t
  BY <1>1, <1>2 DEF Quoted
<1>4. FieldStop(t, f) = TextEnd(t)
  BY <1>0, StopsAhead, SeparatorsAre
<1>5. LastOf(t, f) = Len(t)
  BY <1>1, <1>3, <1>4 DEF LastOf
<1>6. ~(t[Len(t)] = QuoteMark /\ ~Outside(t, Len(t)))
  BY <1>1, <1>2, <1>3, OutsideStep
<1>7. ~WellWritten(t, f)
  BY <1>3, <1>5, <1>6 DEF WellWritten
<1> QED
  BY <1>0, <1>3, <1>7, SpoiltField

\* What the text's end must make of the reader.
ReadOut(t, r) ==
  /\ r \in ReaderStates
  /\ \/ r.outcome = "refused" /\ ~Written(t)
     \/ r.outcome = "read" /\ Written(t) /\ r.records = WrittenRecords(t)

LEMMA LinesAll ==
  ASSUME NEW t \in Seq(Characters), NEW k \in Nat, k >= TextEnd(t)
  PROVE  LinesBefore(t, k) = LineStarts(t)
<1>1. \A i \in LineStarts(t) : i < k
  BY TextIs, LineStartsAre
<1> QED
  BY <1>1 DEF LinesBefore

\* All is read if the reader has the lines before k, and none is after it.
LEMMA AllRead ==
  ASSUME NEW t \in Seq(Characters), NEW k \in Nat, k >= TextEnd(t), NEW r,
         r.records = Listed([i \in LinesBefore(t, k) |-> WrittenRecord(t, i)]),
         Cardinality(LinesBefore(t, k)) <= MaxRows + 1,
         \A i \in LinesBefore(t, k) : LineFits(t, i)
  PROVE  Written(t) /\ r.records = WrittenRecords(t)
BY LinesAll DEF Written, WrittenRecords

\* A line in which nothing is read yet is none when the text has no more.
LEMMA NothingLeft ==
  ASSUME NEW t \in Seq(Characters), NEW s \in ReaderStates,
         NEW p, NEW f, ReadUpTo(t, s, p, f), s.index = TextEnd(t), ~s.quoted
  PROVE  p \in DOMAIN t <=> s.cell # <<>> \/ s.record # <<>> \/ s.quoteClosed
<1> DEFINE i == s.index
<1>0. InField(t, s, p, f) /\ FieldsRead(t, s, p, f) /\ FieldSoFar(t, s, f)
  BY DEF ReadUpTo
<1>1. /\ i \in Nat \ {0} /\ p \in Nat \ {0} /\ f \in Nat \ {0} /\ p <= f /\ f <= i
      /\ Len(t) \in Nat /\ TextEnd(t) = Len(t) + 1 /\ DOMAIN t = 1..Len(t)
  BY <1>0, PlaceIs
<1>2. /\ Len(s.record) = Cardinality(FieldsBefore(t, p, f))
      /\ IsFiniteSet(FieldsBefore(t, p, f))
  <2> DEFINE S == FieldsBefore(t, p, f)   a == [k \in S |-> Meaning(t, k)]
             V == {a[k] : k \in S}
  <2>1. IsFiniteSet(S) /\ S \subseteq Int
    BY <1>1, FieldsBeforeAre
  <2>2. /\ IsFiniteSet(DOMAIN a) /\ DOMAIN a \subseteq Int /\ DOMAIN a = S
        /\ \A k \in DOMAIN a : a[k] \in V
    BY <2>1
  <2>3. s.record = Listed(a)
    BY <1>0 DEF FieldsRead
  <2> HIDE DEF V, a
  <2>4. Len(Listed(a)) = Cardinality(S)
    BY <2>2, ListedIs
  <2> QED
    BY <2>1, <2>3, <2>4
<1>3. s.record = <<>> <=> FieldsBefore(t, p, f) = {}
  <2>1. s.record = <<>> <=> Len(s.record) = 0
    BY DEF ReaderStates
  <2>2. Cardinality(FieldsBefore(t, p, f)) = 0 <=> FieldsBefore(t, p, f) = {}
    BY <1>2, FS_EmptySet
  <2> QED
    BY <1>2, <2>1, <2>2
<1>4. FieldsBefore(t, p, f) = {} <=> p = f
  <2>1. p # f => p \in FieldsBefore(t, p, f)
    BY <1>1 DEF FieldsBefore
  <2>2. p = f => FieldsBefore(t, p, f) = {}
    BY <1>1 DEF FieldsBefore
  <2> QED
    BY <2>1, <2>2
<1>5. s.cell = <<>> /\ ~s.quoteClosed <=> f = i
  <2>1. CASE BareSoFar(t, s, f)
    <3>1. f <= i - 1 + 1 /\ i - 1 <= Len(t) /\ i - 1 \in Nat /\ i - 1 - f + 1 = i - f
      BY <1>1
    <3>2. Len(SubSeq(t, f, i - 1)) = i - 1 - f + 1 /\ SubSeq(t, f, i - 1) \in Seq(Characters)
      BY <1>1, <3>1, PieceIs
    <3>3. s.cell = <<>> <=> Len(s.cell) = 0
      BY DEF ReaderStates
    <3>4. s.cell = SubSeq(t, f, i - 1) /\ ~s.quoteClosed
      BY <2>1 DEF BareSoFar
    <3>5. Len(s.cell) = i - f
      BY <3>1, <3>2, <3>4
    <3>6. i - f = 0 <=> f = i
      BY <1>1
    <3> QED
      BY <3>3, <3>4, <3>5, <3>6
  <2>2. CASE \E last \in f..(i - 1) : ClosedAt(t, s, f, last)
    <3>1. s.quoteClosed /\ f # i
      BY <1>1, <2>2 DEF ClosedAt
    <3> QED
      BY <3>1
  <2> QED
    BY <1>0, <2>1, <2>2 DEF FieldSoFar, QuotedSoFar
<1>6. p \in DOMAIN t <=> ~(p = f /\ f = i)
  BY <1>1
<1> QED
  BY <1>3, <1>4, <1>5, <1>6

LEMMA EndStep ==
  ASSUME NEW t \in Seq(Characters), NEW s \in ReaderStates, s.outcome = "reading",
         NEW p, NEW f, ReadUpTo(t, s, p, f), s.index = TextEnd(t)
  PROVE  ReadOut(t, AtEnd(s))
<1>0. InField(t, s, p, f) /\ FieldSoFar(t, s, f) /\ LinesRead(t, s, p)
  BY DEF ReadUpTo
<1>1. /\ p \in Nat \ {0} /\ p <= s.index /\ s.index \in Nat
      /\ Len(t) \in Nat /\ TextEnd(t) = Len(t) + 1 /\ DOMAIN t = 1..Len(t)
  BY <1>0, PlaceIs
<1>2. CASE s.quoted
  <2>1. QuotedSoFar(t, s, f)
    BY <1>0, <1>2 DEF FieldSoFar, BareSoFar, ClosedAt
  <2>2. ~Written(t)
    BY <2>1, EndsInQuotes
  <2>3. AtEnd(s) = [s EXCEPT !.outcome = "refused"]
    BY <1>2 DEF AtEnd, Throw
  <2> QED
    BY <2>2, <2>3 DEF ReadOut, ReaderStates
<1>3. CASE ~s.quoted /\ p \in DOMAIN t
  <2> DEFINE r == pushRecord(s)   lines == LinesBefore(t, s.index + 1)
  <2>1. s.index \in Separators(t, {NL})
    BY SeparatorsAre
  <2>2. /\ r \in ReaderStates
        /\ \/ r.outcome = "refused" /\ ~Written(t)
           \/ /\ r.outcome = "reading"
              /\ r.records = Listed([k \in lines |-> WrittenRecord(t, k)])
              /\ Cardinality(lines) <= MaxRows + 1
              /\ \A k \in lines : LineFits(t, k)
    <3>1. s \in {s, Skip(s, 1)}
      OBVIOUS
    <3> QED
      BY <1>3, <2>1, <3>1, RecordStep
  <2>3. s.cell # <<>> \/ s.record # <<>> \/ s.quoteClosed
    BY <1>3, NothingLeft
  <2> HIDE DEF r
  <2>4. AtEnd(s) = IF r.outcome = "refused" THEN r ELSE [r EXCEPT !.outcome = "read"]
    BY <1>3, <2>3 DEF AtEnd, r
  <2>5. CASE r.outcome = "refused"
    BY <2>2, <2>4, <2>5 DEF ReadOut
  <2>6. CASE r.outcome # "refused"
    <3>1. s.index + 1 \in Nat /\ s.index + 1 >= TextEnd(t)
      BY <1>1
    <3>2. Written(t) /\ r.records = WrittenRecords(t)
      <4>1. /\ r.records = Listed([k \in lines |-> WrittenRecord(t, k)])
            /\ Cardinality(lines) <= MaxRows + 1
            /\ \A k \in lines : LineFits(t, k)
        BY <2>2, <2>6
      <4> QED
        BY <3>1, <4>1, AllRead
    <3>3. AtEnd(s) = [r EXCEPT !.outcome = "read"]
      BY <2>4, <2>6
    <3> QED
      BY <2>2, <3>2, <3>3 DEF ReadOut, ReaderStates
  <2> QED
    BY <2>5, <2>6
<1>4. CASE ~s.quoted /\ p \notin DOMAIN t
  <2>1. ~(s.cell # <<>> \/ s.record # <<>> \/ s.quoteClosed)
    BY <1>4, NothingLeft
  <2>2. AtEnd(s) = [s EXCEPT !.outcome = "read"]
    BY <1>4, <2>1 DEF AtEnd
  <2>3. p >= TextEnd(t)
    BY <1>1, <1>4
  <2>4. Written(t) /\ s.records = WrittenRecords(t)
    BY <1>0, <1>1, <2>3, AllRead DEF LinesRead
  <2> QED
    BY <2>2, <2>4 DEF ReadOut, ReaderStates
<1> QED
  BY <1>2, <1>3, <1>4

\* The reader at the text's start.
LEMMA AtTheStart ==
  ASSUME NEW t \in Seq(Characters), NEW s \in ReaderStates, s.index = 1,
         s.cell = <<>>, s.record = <<>>, s.records = <<>>, ~s.quoted, ~s.quoteClosed,
         s.line = 1, s.startLine = 1
  PROVE  ReadUpTo(t, s, 1, 1)
<1>1. Len(t) \in Nat /\ TextEnd(t) = Len(t) + 1
  BY TextIs
<1>2. InField(t, s, 1, 1)
  BY <1>1 DEF InField
<1>3. LinesBefore(t, 1) = {} /\ FieldsBefore(t, 1, 1) = {} /\ Cardinality({}) = 0
  <2>1. LinesBefore(t, 1) = {}
    BY <1>1, LineStartsAre DEF LinesBefore
  <2> QED
    BY <2>1, FS_EmptySet DEF FieldsBefore
<1>4. MaxRows \in Nat /\ MaxColumns \in Nat /\ MaxCell \in Nat
  BY CsvAssumption
<1>5. LinesRead(t, s, 1)
  <2> DEFINE g == [i \in LinesBefore(t, 1) |-> WrittenRecord(t, i)]
  <2>1. DOMAIN g = {}
    BY <1>3
  <2>4. Cardinality(LinesBefore(t, 1)) = 0
    BY <1>3
  <2>2. Cardinality(LinesBefore(t, 1)) <= MaxRows + 1
    BY <1>4, <2>4
  <2> HIDE DEF g
  <2>3. s.records = Listed(g)
    BY <2>1, ListedNone
  <2> QED
    BY <1>3, <2>2, <2>3, LineNumberAtOne DEF LinesRead, g
<1>6. FieldsRead(t, s, 1, 1)
  <2> DEFINE g == [i \in FieldsBefore(t, 1, 1) |-> Meaning(t, i)]
  <2>1. DOMAIN g = {}
    BY <1>3
  <2>4. Cardinality(FieldsBefore(t, 1, 1)) = 0
    BY <1>3
  <2>2. Cardinality(FieldsBefore(t, 1, 1)) <= MaxColumns
    BY <1>4, <2>4
  <2> HIDE DEF g
  <2>3. s.record = Listed(g)
    BY <2>1, ListedNone
  <2> QED
    BY <1>3, <2>2, <2>3 DEF FieldsRead, g
<1>7. BareSoFar(t, s, 1)
  <2>1. SubSeq(t, 1, 0) = <<>>
    BY SubSeqEmpty
  <2> QED
    BY <1>4, <2>1, OutsideAtOne DEF BareSoFar
<1> QED
  BY <1>2, <1>5, <1>6, <1>7 DEF ReadUpTo, FieldSoFar

LEMMA CsvInitial ==
  CsvInit => CsvInv
<1> SUFFICES ASSUME CsvInit PROVE CsvInv
  OBVIOUS
<1>1. text \in Texts /\ text \in Seq(Characters)
  BY CsvAssumption DEF CsvInit
<1>2. /\ reader \in ReaderStates /\ reader.index = 1
      /\ reader.cell = <<>> /\ reader.record = <<>> /\ reader.records = <<>>
      /\ ~reader.quoted /\ ~reader.quoteClosed /\ reader.line = 1
      /\ reader.startLine = 1 /\ reader.outcome = "reading"
  BY DEF CsvInit, ReaderStates
<1>3. ReadUpTo(text, reader, 1, 1)
  BY <1>1, <1>2, AtTheStart
<1> QED
  BY <1>1, <1>2, <1>3 DEF CsvInv, CsvTypes

\* What comes next in quotes, after them, and in a bare cell.
LEMMA InQuotesStep ==
  ASSUME text \in Seq(Characters), reader \in ReaderStates, reader.outcome = "reading",
         NEW p, NEW f, ReadUpTo(text, reader, p, f), reader.quoted,
         reader.index \in DOMAIN text
  PROVE  ReadOn(text, InQuotes(reader, text[reader.index]))
<1> DEFINE i == reader.index
<1>1. QuotedSoFar(text, reader, f)
  BY DEF ReadUpTo, FieldSoFar, BareSoFar, ClosedAt
<1>2. CASE text[i] # QuoteMark
  BY <1>1, <1>2, TakeQuoted DEF InQuotes
<1>3. CASE text[i] = QuoteMark /\ i + 1 \in DOMAIN text /\ text[i + 1] = QuoteMark
  <2>1. InQuotes(reader, text[i]) = TakeChar(Skip(reader, 2), QuoteMark)
    BY <1>3 DEF InQuotes, TextAt
  <2>2. ReadOn(text, TakeChar(Skip(reader, 2), QuoteMark))
    BY <1>1, <1>3, DoubledQuote
  <2> QED
    BY <2>1, <2>2
<1>4. CASE text[i] = QuoteMark /\ ~(i + 1 \in DOMAIN text /\ text[i + 1] = QuoteMark)
  <2>1. TextAt(i + 1) # QuoteMark
    BY <1>4 DEF TextAt, QuoteMark
  <2>2. InQuotes(reader, text[i])
          = [Skip(reader, 1) EXCEPT !.quoted = FALSE, !.quoteClosed = TRUE]
    BY <1>4, <2>1 DEF InQuotes
  <2>3. ReadOn(text, [Skip(reader, 1) EXCEPT !.quoted = FALSE, !.quoteClosed = TRUE])
    BY <1>1, <1>4, CloseQuote
  <2> QED
    BY <2>2, <2>3
<1> QED
  BY <1>2, <1>3, <1>4

LEMMA AfterQuotesStep ==
  ASSUME text \in Seq(Characters), reader \in ReaderStates, reader.outcome = "reading",
         NEW p, NEW f, ReadUpTo(text, reader, p, f), ~reader.quoted, reader.quoteClosed,
         reader.index \in DOMAIN text
  PROVE  ReadOn(text, AfterQuotes(reader, text[reader.index]))
<1> DEFINE i == reader.index   c == text[i]
<1>1. PICK last \in f..(i - 1) : ClosedAt(text, reader, f, last)
  BY DEF ReadUpTo, FieldSoFar, BareSoFar, QuotedSoFar
<1>2. CASE c = Comma
  <2>1. AfterQuotes(reader, c) = pushCell(Skip(reader, 1))
    BY <1>2 DEF AfterQuotes, Comma, NL, CR
  <2> QED
    BY <1>2, <2>1, CommaStep
<1>3. CASE c = NL
  <2>1. AfterQuotes(reader, c) = pushRecord(Skip(reader, 1))
    BY <1>3 DEF AfterQuotes, Comma, NL, CR
  <2> QED
    BY <1>3, <2>1, LineEndStep
<1>4. CASE c = CR /\ i + 1 \in DOMAIN text /\ text[i + 1] = NL
  <2>1. TextAt(i + 1) = NL
    BY <1>4 DEF TextAt
  <2>2. AfterQuotes(reader, c) = Skip(reader, 1)
    BY <1>4, <2>1 DEF AfterQuotes, Comma, NL, CR
  <2>3. ReadOn(text, Skip(reader, 1))
    BY <1>1, <1>4, SkipCR
  <2> QED
    BY <2>2, <2>3
<1>5. CASE c \notin {Comma, NL} /\ ~(c = CR /\ i + 1 \in DOMAIN text /\ text[i + 1] = NL)
  <2>1. c = CR => TextAt(i + 1) # NL
    BY <1>5 DEF TextAt, NL
  <2>2. AfterQuotes(reader, c) = [reader EXCEPT !.outcome = "refused"]
    BY <1>5, <2>1 DEF AfterQuotes, Throw
  <2>3. ~Written(text)
    BY <1>1, <1>5, AfterThrow
  <2> QED
    BY <2>2, <2>3 DEF ReadOn, ReaderStates
<1> QED
  BY <1>2, <1>3, <1>4, <1>5

LEMMA InBareCellStep ==
  ASSUME text \in Seq(Characters), reader \in ReaderStates, reader.outcome = "reading",
         NEW p, NEW f, ReadUpTo(text, reader, p, f), ~reader.quoted, ~reader.quoteClosed,
         reader.index \in DOMAIN text
  PROVE  ReadOn(text, InBareCell(reader, text[reader.index]))
<1> DEFINE i == reader.index   c == text[i]
<1>1. BareSoFar(text, reader, f)
  BY DEF ReadUpTo, FieldSoFar, ClosedAt, QuotedSoFar
<1>2. CASE c = Comma
  <2>1. InBareCell(reader, c) = pushCell(Skip(reader, 1))
    BY <1>2 DEF InBareCell, Comma, NL, QuoteMark
  <2> QED
    BY <1>2, <2>1, CommaStep
<1>3. CASE c = NL
  <2>1. InBareCell(reader, c) = pushRecord(Skip(reader, 1))
    BY <1>3 DEF InBareCell, Comma, NL, QuoteMark
  <2> QED
    BY <1>3, <2>1, LineEndStep
<1>4. CASE c = QuoteMark /\ reader.cell = <<>>
  <2>1. InBareCell(reader, c) = [Skip(reader, 1) EXCEPT !.quoted = TRUE]
    BY <1>4 DEF InBareCell, Comma, NL, QuoteMark
  <2>2. ReadOn(text, [Skip(reader, 1) EXCEPT !.quoted = TRUE])
    BY <1>1, <1>4, OpenQuoteStep
  <2> QED
    BY <2>1, <2>2
<1>5. CASE c = QuoteMark /\ reader.cell # <<>>
  <2>1. InBareCell(reader, c) = [reader EXCEPT !.outcome = "refused"]
    BY <1>5 DEF InBareCell, Throw, Comma, NL, QuoteMark
  <2>2. ~Written(text)
    BY <1>1, <1>5, StrayQuote
  <2> QED
    BY <2>1, <2>2 DEF ReadOn, ReaderStates
<1>6. CASE c \notin {QuoteMark, Comma, NL}
  <2>1. InBareCell(reader, c) = TakeChar(Skip(reader, 1), c)
    BY <1>6 DEF InBareCell
  <2>2. ReadOn(text, TakeChar(Skip(reader, 1), c))
    BY <1>1, <1>6, BareStep
  <2> QED
    BY <2>1, <2>2
<1> QED
  BY <1>2, <1>3, <1>4, <1>5, <1>6

LEMMA ReadCharacterKeeps ==
  ASSUME CsvInv, ReadCharacter PROVE CsvInv'
<1>1. /\ text \in Texts /\ text \in Seq(Characters) /\ reader \in ReaderStates
      /\ reader.outcome = "reading" /\ text' = text
  BY CsvAssumption DEF CsvInv, CsvTypes, ReadCharacter
<1>2. PICK p, f \in 1..reader.index : ReadUpTo(text, reader, p, f)
  BY <1>1 DEF CsvInv
<1>3. CASE reader.index \in DOMAIN text
  <2> DEFINE c == text[reader.index]
  <2>1. TextAt(reader.index) = c
    BY <1>3 DEF TextAt
  <2>2. c # "end"
    <3>1. c \in Characters
      BY <1>1, <1>3, TextIs
    <3> QED
      BY <3>1 DEF Characters, QuoteMark, Comma, NL, CR, EqualSign
  <2> HIDE DEF c
  <2>3. reader' = IF reader.quoted THEN InQuotes(reader, c)
                  ELSE IF reader.quoteClosed THEN AfterQuotes(reader, c)
                  ELSE InBareCell(reader, c)
    <3>1. reader' = CASE c = "end" -> AtEnd(reader)
                      [] c # "end" /\ reader.quoted -> InQuotes(reader, c)
                      [] c # "end" /\ ~reader.quoted /\ reader.quoteClosed ->
                           AfterQuotes(reader, c)
                      [] OTHER -> InBareCell(reader, c)
      BY <2>1 DEF ReadCharacter
    <3> QED
      BY <2>2, <3>1
  <2>4. ReadOn(text, reader')
    BY <1>1, <1>2, <1>3, <2>3, InQuotesStep, AfterQuotesStep, InBareCellStep DEF c
  <2> QED
    BY <1>1, <2>4 DEF ReadOn, CsvInv, CsvTypes
<1>4. CASE reader.index \notin DOMAIN text
  <2>1. reader' = AtEnd(reader)
    BY <1>4 DEF ReadCharacter, TextAt
  <2>2. reader.index = TextEnd(text)
    <3>1. InField(text, reader, p, f)
      BY <1>2 DEF ReadUpTo
    <3>2. /\ reader.index \in Nat \ {0} /\ reader.index <= TextEnd(text)
          /\ Len(text) \in Nat /\ TextEnd(text) = Len(text) + 1
          /\ DOMAIN text = 1..Len(text)
      BY <1>1, <3>1, PlaceIs
    <3> QED
      BY <1>4, <3>2
  <2>3. ReadOut(text, reader')
    BY <1>1, <1>2, <2>1, <2>2, EndStep
  <2> QED
    BY <1>1, <2>3 DEF ReadOut, CsvInv, CsvTypes
<1> QED
  BY <1>3, <1>4

LEMMA CheckRowsKeeps ==
  ASSUME CsvInv, CheckRows PROVE CsvInv'
<1>1. /\ text \in Texts /\ reader \in ReaderStates /\ text' = text
      /\ Written(text) /\ reader.records = WrittenRecords(text)
      /\ reader' = [reader EXCEPT !.outcome =
                      IF Acceptable THEN "accepted" ELSE "rejected"]
  BY DEF CsvInv, CsvTypes, CheckRows
<1>2. /\ reader' \in ReaderStates /\ reader'.records = reader.records
      /\ reader'.outcome \in {"accepted", "rejected"}
      /\ reader'.outcome = "accepted" => Acceptable
  BY <1>1 DEF ReaderStates
<1>3. Acceptable' <=> Acceptable
  <2>1. Rows' = Rows
    BY <1>2 DEF Rows, Blank, Solid
  <2>2. Headers' = Headers
    BY <2>1 DEF Headers
  <2> QED
    BY <2>1, <2>2 DEF Acceptable
<1> QED
  BY <1>1, <1>2, <1>3 DEF CsvInv, CsvTypes

\* CsvInv holds in every state the reader can reach, on any text.
LEMMA CsvInvHolds ==
  CsvInit /\ [][CsvNext]_csvVars => []CsvInv
<1>1. CsvInv /\ UNCHANGED csvVars => CsvInv'
  <2> SUFFICES ASSUME CsvInv, UNCHANGED csvVars PROVE CsvInv'
    OBVIOUS
  <2>1. text' = text /\ reader' = reader
    BY DEF csvVars
  <2>2. Rows' = Rows
    BY <2>1 DEF Rows, Blank, Solid
  <2>3. Headers' = Headers
    BY <2>2 DEF Headers
  <2>4. Acceptable' <=> Acceptable
    BY <2>2, <2>3 DEF Acceptable
  <2> QED
    BY <2>1, <2>4 DEF CsvInv, CsvTypes
<1>2. CsvInv /\ [CsvNext]_csvVars => CsvInv'
  BY <1>1, ReadCharacterKeeps, CheckRowsKeeps DEF CsvNext
<1> QED
  BY <1>2, CsvInitial, PTL

LEMMA RowsAreRecords ==
  ASSUME reader \in ReaderStates
  PROVE  /\ Len(Rows) \in Nat /\ DOMAIN Rows = 1..Len(Rows)
         /\ \A i \in DOMAIN Rows : Rows[i] \in ToSet(reader.records)
<1> DEFINE S == {n \in DOMAIN reader.records : ~Blank(reader.records[n])}
           g == [n \in S |-> reader.records[n]]
           V == ToSet(reader.records)
<1>1. IsFiniteSet(S) /\ S \subseteq Int /\ S \subseteq DOMAIN reader.records
  <2>1. Len(reader.records) \in Nat /\ DOMAIN reader.records = 1..Len(reader.records)
    BY DEF ReaderStates
  <2>2. IsFiniteSet(1..Len(reader.records)) /\ S \in SUBSET (1..Len(reader.records))
    BY <2>1, FS_Interval
  <2>3. IsFiniteSet(S)
    <3> HIDE DEF S
    <3> QED
      BY <2>2, FS_Subset
  <2> QED
    BY <2>1, <2>2, <2>3
<1>2. Rows = Listed(g)
  BY DEF Rows
<1>3. \A n \in S : reader.records[n] \in V
  BY <1>1 DEF ToSet
<1>4. DOMAIN g = S /\ \A n \in DOMAIN g : g[n] \in V
  BY <1>3
<1> HIDE DEF S, g, V
<1>5. Listed(g) \in Seq(V)
  BY <1>1, <1>4, ListedIs
<1>6. /\ Len(Rows) \in Nat /\ DOMAIN Rows = 1..Len(Rows)
      /\ \A i \in DOMAIN Rows : Rows[i] \in V
  BY <1>2, <1>5
<1> QED
  BY <1>6 DEF V

\* A row says of a header what its record has in that header's column.
LEMMA ValuesAre ==
  ASSUME IsInjective(Headers), NEW row, NEW k \in DOMAIN Headers
  PROVE  Values(row)[Headers[k]] = Trim(row.cells[k])
<1>1. Headers[k] \in ToSet(Headers)
  BY DEF ToSet
<1>2. (CHOOSE n \in DOMAIN Headers : Headers[n] = Headers[k]) = k
  <2>1. \A n \in DOMAIN Headers : Headers[n] = Headers[k] => n = k
    BY DEF IsInjective
  <2> QED
    BY <2>1
<1>3. Values(row)[Headers[k]]
        = Trim(row.cells[CHOOSE n \in DOMAIN Headers : Headers[n] = Headers[k]])
  BY <1>1 DEF Values
<1> QED
  BY <1>2, <1>3

\* A row handed on says of every header what is written in its column.
LEMMA AcceptedSaysWritten ==
  ASSUME CsvInv, reader.outcome = "accepted", NEW i \in DOMAIN parseCsv
  PROVE  \E w \in ToSet(WrittenRecords(text)) :
           /\ w.rowNumber = parseCsv[i].rowNumber
           /\ \A k \in DOMAIN Headers :
                parseCsv[i].values[Headers[k]] = Trim(w.cells[k])
<1>1. /\ reader \in ReaderStates /\ reader.records = WrittenRecords(text)
      /\ IsInjective(Headers)
  BY DEF CsvInv, CsvTypes, Acceptable
<1>2. /\ Len(Rows) \in Nat /\ DOMAIN Rows = 1..Len(Rows)
      /\ \A n \in DOMAIN Rows : Rows[n] \in ToSet(reader.records)
  BY <1>1, RowsAreRecords
<1>3. i \in 1..(Len(Rows) - 1)
  BY DEF parseCsv
<1>4. i + 1 \in DOMAIN Rows
  BY <1>2, <1>3
<1>5. parseCsv[i] = [rowNumber |-> Rows[i + 1].rowNumber, values |-> Values(Rows[i + 1])]
  BY <1>3 DEF parseCsv
<1>6. \A k \in DOMAIN Headers :
        Values(Rows[i + 1])[Headers[k]] = Trim(Rows[i + 1].cells[k])
  BY <1>1, ValuesAre
<1>7. /\ parseCsv[i].rowNumber = Rows[i + 1].rowNumber
      /\ parseCsv[i].values = Values(Rows[i + 1])
  BY <1>5
<1>8. Rows[i + 1] \in ToSet(WrittenRecords(text))
  BY <1>1, <1>2, <1>4
<1> QED
  BY <1>6, <1>7, <1>8

\* parseCsv takes exactly the texts that are comma separated values within the
\* limits, and what it hands on is what is written, whatever the text and limits.
THEOREM ReadsAsWrittenHolds ==
  CsvInit /\ [][CsvNext]_csvVars => []ReadsAsWritten
<1>1. CsvInv => ReadsAsWritten
  <2> SUFFICES ASSUME CsvInv PROVE ReadsAsWritten
    OBVIOUS
  <2>1. /\ reader.outcome = "refused" => ~Written(text)
        /\ reader.outcome \in {"read", "rejected", "accepted"} =>
             Written(text) /\ reader.records = WrittenRecords(text)
    BY DEF CsvInv
  <2>2. reader.outcome = "accepted" =>
          \A i \in DOMAIN parseCsv : \E w \in ToSet(WrittenRecords(text)) :
            /\ w.rowNumber = parseCsv[i].rowNumber
            /\ \A k \in DOMAIN Headers :
                 parseCsv[i].values[Headers[k]] = Trim(w.cells[k])
    BY AcceptedSaysWritten
  <2> QED
    BY <2>1, <2>2 DEF ReadsAsWritten
<1> QED
  BY <1>1, CsvInvHolds, PTL
=============================================================================
