----------------------------- MODULE PartsProofs -----------------------------
(***************************************************************************)
(* Proofs about the parts that share no state, each for any value of its   *)
(* own constants: the page of the overview, the screens of the imports and *)
(* of the alerts, the worker's connection, the owner's requests, the       *)
(* figures the pages show, and the exchange's calendar.                    *)
(*                                                                         *)
(* The screens.  What a page shows was read at several moments; the        *)
(* invariants say of each piece how old it may be, and for an answer on    *)
(* its way what it will find when it comes.                                *)
(*                                                                         *)
(* The connection, for any number of readers and attempts and whatever     *)
(* cursors the provider hands out: no client is lost, no failure is handed *)
(* to a later call, and a read that ends has the provider's pages, each    *)
(* once.  At most one attempt is under way at a time, the one the readers  *)
(* share, and while one is there is no client; each of the two is younger  *)
(* than the close, unless the close waits for it.  About a read the        *)
(* invariant adds that the cursors it remembers are those of the pages it  *)
(* has and of the one it asks for.                                         *)
(*                                                                         *)
(* The requests, for any sessions, any number of calls side by side, and   *)
(* any moments: what is exported or deleted was asked for, and what the    *)
(* controls say of a call is what became of it.                            *)
(*                                                                         *)
(* The figures, for any accounts, securities and options, any amounts and  *)
(* any roundings: sums over the same rows, taken by security, by kind, by  *)
(* support or by account, are the same.  The books balance from every      *)
(* snapshot to the portfolio as it is now, so that between two snapshots   *)
(* nothing is left but what the markets did, once what the records say was *)
(* paid in or out is off.                                                  *)
(*                                                                         *)
(* The calendar, for any of the years 1901 to 2198: that the holidays it   *)
(* constructs from the year are those a date's own rules recognize, the    *)
(* Easter among them by the moon; and that the last close is the end of    *)
(* the last session.  And that the hours the schedule of the refreshes     *)
(* takes as constants are, over any days of this calendar, the calendar's. *)
(***************************************************************************)
EXTENDS MarketCalendar, Overview, ImportScreen, Inbox, Connection, Requests,
        Figures, Sums, FiniteSetTheorems, TLAPS

(***************************************************************************)
(* The overview page.                                                      *)
(***************************************************************************)
PageStates ==
  [step : {"closed", "opened", "loaded", "charted", "answered"},
   shown : Nat, openedAt : Nat, failed : BOOLEAN, fresh : BOOLEAN,
   trend : SUBSET Nat,
   label : {"none", "source_error", "live", "disconnected"}]

OverviewTypes ==
  /\ clock \in Nat /\ valuedAt \in Seq(Nat)
  /\ heartbeatAt \in Nat
  /\ page \in PageStates

\* No snapshot was promoted over a later one, nor is one from the future; a
\* heartbeat follows the first.
InOrder ==
  /\ \A i, j \in 1..Newest : i <= j => valuedAt[i] <= valuedAt[j]
  /\ \A i \in 1..Newest : valuedAt[i] <= clock
  /\ owed => Newest > 0
  /\ heartbeatAt # 0 => Newest > 0 /\ valuedAt[1] <= heartbeatAt

\* What the page has read so far.
PageTrue ==
  /\ page.step # "closed" => page.shown \in 1..Newest /\ page.openedAt <= clock
  /\ page.fresh =>
       /\ page.step \in {"loaded", "charted", "answered"}
       /\ page.openedAt - valuedAt[page.shown] <= FreshFor
  /\ page.step \in {"charted", "answered"} =>
       page.shown \in page.trend /\ page.trend \subseteq 1..Newest
  /\ page.label = "live" =>
       /\ page.step = "answered" /\ page.fresh
       /\ enrolled /\ heartbeatAt # 0

OverviewInv == OverviewTypes /\ InOrder /\ PageTrue

LEMMA OverviewInitInv == OverviewInit => OverviewInv
<1> SUFFICES ASSUME OverviewInit PROVE OverviewInv
  OBVIOUS
<1> USE DEF OverviewInit
<1>1. OverviewTypes
  BY DEF OverviewTypes, Closed, PageStates
<1>2. Len(valuedAt) = 0
  OBVIOUS
<1>3. InOrder
  BY <1>2 DEF InOrder, Newest
<1>4. PageTrue
  BY DEF PageTrue, Closed
<1> QED
  BY <1>1, <1>3, <1>4 DEF OverviewInv

\* A step of the system adds snapshots and time.
LEMMA SystemKeeps ==
  ASSUME OverviewInv, SystemNext, UNCHANGED page, page.step # "answered"
  PROVE  OverviewInv'
<1> USE OverviewAssumption DEF OverviewInv, Newest
<1>1. CASE Tick
  BY <1>1 DEF Tick, OverviewTypes, InOrder, PageTrue, PageStates
<1>2. CASE StartRun \/ FailRun
  <2>1. UNCHANGED <<clock, valuedAt, owed, heartbeatAt, enrolled>>
    BY <1>2 DEF StartRun, FailRun
  <2> QED
    BY <2>1 DEF OverviewTypes, InOrder, PageTrue
<1>3. CASE Disconnect
  BY <1>3 DEF Disconnect, OverviewTypes, InOrder, PageTrue
<1>4. ASSUME NEW t \in 1..clock, Promote(t)
      PROVE  OverviewInv'
  <2>1. /\ valuedAt' = Append(valuedAt, t) /\ t \in Nat /\ t <= clock
        /\ valuedAt \in Seq(Nat) /\ clock' = clock /\ heartbeatAt' = heartbeatAt
        /\ enrolled' = enrolled /\ owed' = TRUE
    BY <1>4 DEF Promote, OverviewTypes
  <2>2. /\ Len(valuedAt') = Len(valuedAt) + 1 /\ Len(valuedAt) \in Nat
        /\ \A i \in 1..Len(valuedAt) : valuedAt'[i] = valuedAt[i]
        /\ valuedAt'[Len(valuedAt) + 1] = t
        /\ valuedAt' \in Seq(Nat)
    BY <2>1
  <2>3. OverviewTypes'
    BY <2>1, <2>2 DEF OverviewTypes
  <2>4. \A i \in 1..Newest : valuedAt[i] <= t
    <3>1. Newest > 0 => t >= valuedAt[Newest]
      BY <1>4 DEF Promote
    <3>2. ASSUME NEW i \in 1..Newest PROVE valuedAt[i] <= valuedAt[Newest]
      <4>1. i \in 1..Newest /\ Newest \in 1..Newest /\ i <= Newest
        BY <2>2
      <4>2. InOrder
        OBVIOUS
      <4> QED
        BY <4>1, <4>2 DEF InOrder
    <3>3. \A i \in 1..Newest : valuedAt[i] \in Nat
      BY <2>1
    <3> QED
      BY <2>1, <2>2, <3>1, <3>2, <3>3
  <2>5. InOrder'
    <3>1. \A i \in 1..Len(valuedAt)' : i \in 1..Newest \/ i = Newest + 1
      BY <2>2
    <3>2. \A i, j \in 1..Len(valuedAt)' : i <= j => valuedAt'[i] <= valuedAt'[j]
      BY <2>1, <2>2, <2>4, <3>1 DEF InOrder
    <3>3. \A i \in 1..Len(valuedAt)' : valuedAt'[i] <= clock'
      BY <2>1, <2>2, <3>1 DEF InOrder
    <3> QED
      BY <2>1, <2>2, <3>2, <3>3 DEF InOrder
  <2>6. PageTrue'
    BY <2>1, <2>2 DEF PageTrue
  <2> QED
    BY <2>3, <2>5, <2>6
<1>5. ASSUME NEW ok \in BOOLEAN, EndEvaluation(ok)
      PROVE  OverviewInv'
  <2>1. OverviewTypes'
    BY <1>5 DEF EndEvaluation, OverviewTypes
  <2>2. InOrder'
    BY <1>5 DEF EndEvaluation, OverviewTypes, InOrder
  <2>3. PageTrue'
    BY <1>5 DEF EndEvaluation, OverviewTypes, PageTrue
  <2> QED
    BY <2>1, <2>2, <2>3
<1> QED
  BY <1>1, <1>2, <1>3, <1>4, <1>5 DEF SystemNext

\* A step of the page reads.
LEMMA PageKeeps ==
  ASSUME OverviewInv, PageNext, UNCHANGED systemVars
  PROVE  OverviewInv'
<1> USE OverviewAssumption DEF OverviewInv, Newest, systemVars
<1>1. InOrder'
  BY DEF InOrder
<1>2. CASE OpenPage
  <2>1. /\ page'.step = "opened" /\ page'.shown = Newest
        /\ page'.openedAt = clock /\ page'.fresh = FALSE
        /\ page'.label = "none"
    BY <1>2 DEF OpenPage, Closed
  <2>2. OverviewTypes'
    <3>1. /\ Newest \in Nat /\ clock \in Nat
          /\ UNCHANGED <<clock, valuedAt, heartbeatAt>>
      BY DEF OverviewTypes
    <3>2. page' \in PageStates
      BY <1>2, <3>1 DEF OpenPage, Closed, PageStates
    <3> QED
      BY <3>1, <3>2 DEF OverviewTypes
  <2>3. Newest \in 1..Newest
    BY <1>2 DEF OpenPage, OverviewTypes
  <2>4. PageTrue'
    BY <2>1, <2>3 DEF PageTrue, OverviewTypes
  <2> QED
    BY <1>1, <2>2, <2>4
<1>3. CASE LoadPage
  <2>1. /\ page.step = "opened" /\ page'.step = "loaded"
        /\ page'.shown = page.shown /\ page'.openedAt = page.openedAt
        /\ page'.fresh <=> clock - valuedAt[page.shown] <= FreshFor
        /\ page'.label = page.label
    BY <1>3 DEF LoadPage, freshnessAtRead, OverviewTypes, PageStates
  <2>2. OverviewTypes'
    <3> DEFINE Loaded(was, new) ==
          [page EXCEPT !.step = "loaded", !.failed = was, !.fresh = new]
    <3>1. \A was, new \in BOOLEAN : Loaded(was, new) \in PageStates
      BY DEF OverviewTypes, PageStates
    <3>2. page' = Loaded(latestRun = "failed", freshnessAtRead(page.shown))
      BY <1>3 DEF LoadPage
    <3>3. /\ (latestRun = "failed") \in BOOLEAN
          /\ freshnessAtRead(page.shown) \in BOOLEAN
      BY DEF freshnessAtRead
    <3>4. page' \in PageStates
      BY <3>1, <3>2, <3>3, Zenon
    <3> QED
      BY <3>4 DEF OverviewTypes
  <2>3. /\ page.shown \in 1..Newest /\ valuedAt[page.shown] \in Nat
        /\ page.openedAt \in Nat /\ clock \in Nat /\ page.openedAt <= clock
    BY <2>1 DEF OverviewTypes, PageTrue, PageStates
  <2>4. PageTrue'
    BY <2>1, <2>3 DEF PageTrue
  <2> QED
    BY <1>1, <2>2, <2>4
<1>4. CASE ReadTrend
  <2>1. /\ page.step = "loaded" /\ page'.step = "charted"
        /\ page'.shown = page.shown /\ page'.openedAt = page.openedAt
        /\ page'.fresh = page.fresh /\ page'.label = page.label
        /\ page'.trend = history(page.shown)
    BY <1>4 DEF ReadTrend, OverviewTypes, PageStates
  <2>2. OverviewTypes'
    <3>1. history(page.shown) \in SUBSET Nat
      BY DEF history
    <3> QED
      BY <1>4, <3>1 DEF ReadTrend, OverviewTypes, PageStates
  <2>3. page.shown \in 1..Newest /\ valuedAt[page.shown] \in Nat
    BY <2>1 DEF OverviewTypes, PageTrue
  <2>4. page.shown \in history(page.shown)
    BY <2>3 DEF history
  <2>5. PageTrue'
    BY <2>1, <2>3, <2>4 DEF PageTrue, history
  <2> QED
    BY <1>1, <2>2, <2>5
<1>5. CASE ClosePage
  BY <1>1, <1>5 DEF ClosePage, Closed, OverviewTypes, PageTrue, PageStates
<1>6. ASSUME NEW read \in BOOLEAN, AnswerPage(read)
      PROVE  OverviewInv'
  BY <1>1, <1>6
  DEF AnswerPage, evaluateConnectedHealth, readOperationalProbe,
      connectedHealthProbe, OverviewTypes, PageTrue, PageStates
<1> QED
  BY <1>2, <1>3, <1>4, <1>5, <1>6 DEF PageNext

\* The invariant of the overview is inductive: snapshots are in order of their
\* valuation, and the page is about those it has read.
THEOREM OverviewInvariance == OverviewSpec => []OverviewInv
<1>1. OverviewInv /\ [OverviewNext]_overviewVars => OverviewInv'
  <2> SUFFICES ASSUME OverviewInv, [OverviewNext]_overviewVars
               PROVE  OverviewInv'
    OBVIOUS
  <2>1. CASE UNCHANGED overviewVars
    BY <2>1 DEF overviewVars, systemVars, OverviewInv, OverviewTypes, InOrder,
                PageTrue, Newest
  <2> QED
    BY <2>1, SystemKeeps, PageKeeps DEF OverviewNext
<1> QED
  BY <1>1, OverviewInitInv, PTL DEF OverviewSpec

\* currentSnapshot and history: a page put together from several reads is not
\* torn, however many snapshots are promoted between them.
THEOREM PageNotTorn == OverviewSpec => []TrendMeetsHeadline
<1>1. OverviewInv => TrendMeetsHeadline
  <2> SUFFICES ASSUME OverviewInv, page.step = "answered"
               PROVE  /\ page.shown \in page.trend
                      /\ \A i \in page.trend :
                           valuedAt[i] > valuedAt[page.shown] => i > page.shown
    BY DEF TrendMeetsHeadline
  <2> USE DEF OverviewInv, OverviewTypes, InOrder, PageTrue, Newest
  <2>1. \A i \in page.trend : i \in 1..Newest /\ valuedAt[i] \in Nat
    OBVIOUS
  <2>2. page.shown \in 1..Newest /\ valuedAt[page.shown] \in Nat
    OBVIOUS
  <2>3. \A i \in page.trend : ~(i > page.shown) => valuedAt[i] <= valuedAt[page.shown]
    BY <2>1, <2>2
  <2> QED
    BY <2>1, <2>2, <2>3
<1> QED
  BY <1>1, OverviewInvariance, PTL

\* The live label is never on old values, and never without a worker that has
\* marked its heartbeat since the first snapshot.
THEOREM LiveLabelHonest == OverviewSpec => []LiveIsFresh
<1>1. OverviewInv => LiveIsFresh
  BY DEF OverviewInv, OverviewTypes, InOrder, PageTrue, LiveIsFresh, Newest
<1> QED
  BY <1>1, OverviewInvariance, PTL

(***************************************************************************)
(* The import screen.                                                      *)
(***************************************************************************)
AllRows == UNION {OfferedRows[f] : f \in ImportFiles}

Uploads == [file : ImportFiles, at : {"sent", "ok", "failed"}, number : Nat]
Confirms == [file : ImportFiles, ids : SUBSET AllRows, shown : SUBSET AllRows,
             at : {"sent", "ok", "failed"}, number : Nat]

ScreenTypes ==
  /\ stage \in {"select", "preview", "confirming", "complete"}
  /\ preview \in ImportFiles \cup {NoFile}
  /\ selected \subseteq AllRows
  /\ uploads \subseteq Uploads /\ confirms \subseteq Confirms
  /\ recorded \in [ImportFiles -> SUBSET AllRows]
  /\ asked \in [upload : Nat, confirm : Nat]

\* However out of order: what is ticked is on the screen, and the first stage
\* has no preview.
TicksShown ==
  /\ stage = "select" => preview = NoFile
  /\ selected \subseteq (IF preview = NoFile THEN {} ELSE OfferedRows[preview])

\* An owner who waits has one request under way, from the stage that began it.
OneRequest ==
  /\ uploads # {} => stage = "select" /\ confirms = {}
  /\ \A u, v \in uploads : u = v
  /\ \A c, d \in confirms : c = d

\* A confirmation of an owner who waits is of what is on the screen.
ConfirmsTheScreen ==
  \A c \in confirms :
    /\ stage = "confirming" /\ c.file = preview /\ c.ids = selected
    /\ c.at = "ok" => recorded[c.file] = c.ids

InTurn ==
  orderly =>
    /\ OneRequest /\ ConfirmsTheScreen
    /\ stage # "select" => preview # NoFile
    /\ stage = "complete" => confirms = {} /\ recorded[preview] = selected

ImportScreenInv ==
  ScreenTypes /\ TicksShown /\ AsksForWhatIsShown /\ InTurn

LEMMA ImportScreenInitInv == ImportScreenInit => ImportScreenInv
BY DEF ImportScreenInit, ImportScreenInv, ScreenTypes, TicksShown,
       AsksForWhatIsShown, InTurn, OneRequest, ConfirmsTheScreen

LEMMA TickedAreSelected ==
  ASSUME ImportScreenInv
  PROVE  TickedRows = selected
BY DEF ImportScreenInv, TicksShown, TickedRows

\* A request moves on: it stays the only one if it was.
LEMMA UploadMoves ==
  ASSUME ScreenTypes, NEW u \in uploads, NEW how \in {"sent", "ok", "failed"},
         Upload(u, how)
  PROVE  /\ uploads' \subseteq Uploads /\ uploads # {}
         /\ (\A v, w \in uploads : v = w) => \A v, w \in uploads' : v = w
<1>1. [u EXCEPT !.at = how] \in Uploads
  BY DEF ScreenTypes, Uploads
<1> QED
  BY <1>1 DEF Upload, ScreenTypes

LEMMA ConfirmMoves ==
  ASSUME ScreenTypes, NEW c \in confirms, NEW how \in {"ok", "failed"},
         Confirmed(c, how)
  PROVE  /\ confirms' \subseteq Confirms /\ confirms # {}
         /\ \A d \in confirms' : d \in confirms \/ d = [c EXCEPT !.at = how]
         /\ (\A d \in confirms : d = c) => confirms' = {[c EXCEPT !.at = how]}
         /\ LET d == [c EXCEPT !.at = how] IN
              d.file = c.file /\ d.ids = c.ids /\ d.shown = c.shown /\ d.at = how
<1>1. [c EXCEPT !.at = how] \in Confirms
  BY DEF ScreenTypes, Confirms
<1>2. LET d == [c EXCEPT !.at = how] IN
        d.file = c.file /\ d.ids = c.ids /\ d.shown = c.shown /\ d.at = how
  BY DEF ScreenTypes, Confirms
<1> QED
  BY <1>1, <1>2 DEF Confirmed, ScreenTypes

\* What the owner does.
LEMMA OwnerKeeps ==
  ASSUME ImportScreenInv,
         \/ RefuseFile \/ confirmSelection \/ StartOver
         \/ \E f \in ImportFiles : loadConnectedFile(f)
         \/ \E row \in AllRows : ToggleRow(row)
  PROVE  ImportScreenInv'
<1> USE ImportScreenAssumption DEF ImportScreenInv
<1>1. CASE RefuseFile
  BY <1>1 DEF RefuseFile, ScreenTypes, TicksShown, AsksForWhatIsShown, InTurn,
              OneRequest, ConfirmsTheScreen
<1>2. CASE confirmSelection
  <2> DEFINE new == [file |-> preview, ids |-> selected, shown |-> TickedRows,
                     at |-> "sent", number |-> asked.confirm + 1]
  <2>1. TickedRows = selected
    BY TickedAreSelected
  <2>2. preview # NoFile /\ preview \in ImportFiles
    BY <1>2 DEF confirmSelection, TickedRows, ScreenTypes
  <2>3. new \in Confirms /\ confirms' = confirms \cup {new}
    BY <1>2, <2>1, <2>2 DEF confirmSelection, ScreenTypes, Confirms
  <2>4. ScreenTypes'
    BY <1>2, <2>3 DEF confirmSelection, ScreenTypes
  <2>5. TicksShown' /\ AsksForWhatIsShown'
    BY <1>2, <2>1, <2>2, <2>3 DEF confirmSelection, TicksShown, AsksForWhatIsShown
  <2>6. InTurn'
    <3> SUFFICES ASSUME orderly' PROVE InTurn'
      BY DEF InTurn
    <3>1. confirms' = {new} /\ uploads' = {} /\ stage' = "confirming"
      BY <1>2, <2>3 DEF confirmSelection, Waiting
    <3>2. preview' = preview /\ selected' = selected /\ recorded' = recorded
      BY <1>2 DEF confirmSelection
    <3> QED
      BY <2>2, <3>1, <3>2 DEF InTurn, OneRequest, ConfirmsTheScreen
  <2> QED
    BY <2>4, <2>5, <2>6
<1>3. CASE StartOver
  BY <1>3 DEF StartOver, Waiting, ScreenTypes, TicksShown, AsksForWhatIsShown,
              InTurn, OneRequest, ConfirmsTheScreen
<1>4. ASSUME NEW f \in ImportFiles, loadConnectedFile(f)
      PROVE  ImportScreenInv'
  <2> DEFINE new == [file |-> f, at |-> "sent", number |-> asked.upload + 1]
  <2>1. new \in Uploads /\ uploads' = uploads \cup {new}
    BY <1>4 DEF loadConnectedFile, ScreenTypes, Uploads
  <2>2. ScreenTypes'
    BY <1>4, <2>1 DEF loadConnectedFile, ScreenTypes
  <2>3. TicksShown' /\ AsksForWhatIsShown'
    BY <1>4 DEF loadConnectedFile, TicksShown, AsksForWhatIsShown
  <2>4. InTurn'
    <3> SUFFICES ASSUME orderly' PROVE InTurn'
      BY DEF InTurn
    <3>1. uploads' = {new} /\ confirms' = {} /\ stage' = "select"
      BY <1>4, <2>1 DEF loadConnectedFile, Waiting
    <3> QED
      BY <3>1 DEF InTurn, OneRequest, ConfirmsTheScreen
  <2> QED
    BY <2>2, <2>3, <2>4
<1>5. ASSUME NEW row \in AllRows, ToggleRow(row)
      PROVE  ImportScreenInv'
  <2>1. ScreenTypes'
    BY <1>5 DEF ToggleRow, ScreenTypes
  <2>2. TicksShown' /\ AsksForWhatIsShown'
    BY <1>5 DEF ToggleRow, TicksShown, AsksForWhatIsShown
  <2>3. InTurn'
    BY <1>5 DEF ToggleRow, InTurn, OneRequest, ConfirmsTheScreen
  <2> QED
    BY <2>1, <2>2, <2>3
<1> QED
  BY <1>1, <1>2, <1>3, <1>4, <1>5

\* What the server does.
LEMMA ServerKeeps ==
  ASSUME ImportScreenInv,
         \/ \E u \in uploads : PreviewRoute(u)
         \/ \E c \in confirms : ConfirmRoute(c)
  PROVE  ImportScreenInv'
<1> USE DEF ImportScreenInv
<1>1. ASSUME NEW u \in uploads, PreviewRoute(u)
      PROVE  ImportScreenInv'
  <2>1. PICK how \in {"ok", "failed"} : Upload(u, how)
    BY <1>1 DEF PreviewRoute
  <2>2. /\ uploads' \subseteq Uploads /\ uploads # {}
        /\ (\A v, w \in uploads : v = w) => \A v, w \in uploads' : v = w
    BY <2>1, UploadMoves
  <2>3. UNCHANGED <<importScreen, confirms, recorded, asked, orderly>>
    BY <1>1 DEF PreviewRoute
  <2> QED
    BY <2>2, <2>3
    DEF importScreen, ScreenTypes, TicksShown, AsksForWhatIsShown, InTurn,
        OneRequest, ConfirmsTheScreen
<1>2. ASSUME NEW c \in confirms, ConfirmRoute(c)
      PROVE  ImportScreenInv'
  <2>1. PICK how \in {"ok", "failed"} :
          /\ Confirmed(c, how)
          /\ how = "ok" => recorded' = [recorded EXCEPT ![c.file] = c.ids]
    BY <1>2 DEF ConfirmRoute
  <2>2. \/ recorded' = [recorded EXCEPT ![c.file] = c.ids]
        \/ recorded' = recorded
    BY <1>2 DEF ConfirmRoute
  <2>3. UNCHANGED <<importScreen, uploads, asked, orderly>>
    BY <1>2 DEF ConfirmRoute
  <2> DEFINE moved == [c EXCEPT !.at = how]
  <2>4. /\ confirms' \subseteq Confirms
        /\ \A d \in confirms' : d \in confirms \/ d = moved
        /\ (\A d \in confirms : d = c) => confirms' = {moved}
        /\ moved.file = c.file /\ moved.ids = c.ids /\ moved.shown = c.shown
        /\ moved.at = how
    BY <2>1, ConfirmMoves
  <2>5. c.file \in ImportFiles /\ c.ids \in SUBSET AllRows
    BY DEF ScreenTypes, Confirms
  <2> HIDE DEF moved
  <2>6. ScreenTypes'
    BY <2>2, <2>3, <2>4, <2>5 DEF importScreen, ScreenTypes
  <2>7. TicksShown' /\ AsksForWhatIsShown'
    BY <2>3, <2>4 DEF importScreen, TicksShown, AsksForWhatIsShown
  <2>8. InTurn'
    <3> SUFFICES ASSUME orderly PROVE InTurn'
      BY <2>3 DEF InTurn
    <3>1. confirms' = {moved} /\ uploads' = {} /\ stage' = "confirming"
      BY <2>3, <2>4 DEF importScreen, InTurn, OneRequest, ConfirmsTheScreen
    <3>2. /\ moved.file = preview' /\ moved.ids = selected'
          /\ preview' # NoFile
      BY <2>3, <2>4 DEF importScreen, InTurn, ConfirmsTheScreen
    <3>3. moved.at = "ok" => recorded'[moved.file] = moved.ids
      BY <2>1, <2>4, <2>5 DEF ScreenTypes
    <3> QED
      BY <3>1, <3>2, <3>3 DEF InTurn, OneRequest, ConfirmsTheScreen
  <2> QED
    BY <2>6, <2>7, <2>8
<1> QED
  BY <1>1, <1>2

\* The answers.
LEMMA AnswersKeep ==
  ASSUME ImportScreenInv,
         \/ \E u \in uploads : PreviewAnswered(u)
         \/ \E c \in confirms : ConfirmAnswered(c)
  PROVE  ImportScreenInv'
<1> USE ImportScreenAssumption DEF ImportScreenInv
<1>1. ASSUME NEW u \in uploads, PreviewAnswered(u)
      PROVE  ImportScreenInv'
  <2>1. u.file \in ImportFiles
    BY DEF ScreenTypes, Uploads
  <2>2. ScreenTypes'
    BY <1>1, <2>1 DEF PreviewAnswered, ShowPreview, ScreenTypes, AllRows
  <2>3. TicksShown' /\ AsksForWhatIsShown'
    BY <1>1, <2>1
    DEF PreviewAnswered, ShowPreview, TicksShown, AsksForWhatIsShown
  <2>4. InTurn'
    BY <1>1, <2>1
    DEF PreviewAnswered, ShowPreview, InTurn, OneRequest, ConfirmsTheScreen
  <2> QED
    BY <2>2, <2>3, <2>4
<1>2. ASSUME NEW c \in confirms, ConfirmAnswered(c)
      PROVE  ImportScreenInv'
  <2>1. ScreenTypes'
    BY <1>2 DEF ConfirmAnswered, ShowOutcome, ScreenTypes
  <2>2. TicksShown' /\ AsksForWhatIsShown'
    BY <1>2 DEF ConfirmAnswered, ShowOutcome, TicksShown, AsksForWhatIsShown
  <2>3. InTurn'
    BY <1>2
    DEF ConfirmAnswered, ShowOutcome, InTurn, OneRequest, ConfirmsTheScreen
  <2> QED
    BY <2>1, <2>2, <2>3
<1> QED
  BY <1>1, <1>2

\* The invariant of the import screen is inductive: an owner who waits has one
\* request under way, about what is on the screen.
THEOREM ImportScreenInvariance == ImportScreenSpec => []ImportScreenInv
<1>1. ImportScreenInv /\ [ImportScreenNext]_importScreenVars => ImportScreenInv'
  <2> SUFFICES ASSUME ImportScreenInv, [ImportScreenNext]_importScreenVars
               PROVE  ImportScreenInv'
    OBVIOUS
  <2>1. CASE UNCHANGED importScreenVars
    BY <2>1
    DEF importScreenVars, ImportScreenInv, ScreenTypes, TicksShown,
        AsksForWhatIsShown, InTurn, OneRequest, ConfirmsTheScreen
  <2> QED
    BY <2>1, OwnerKeeps, ServerKeeps, AnswersKeep DEF ImportScreenNext, AllRows
<1> QED
  BY <1>1, ImportScreenInitInv, PTL DEF ImportScreenSpec

\* ImportScreen.tsx: whatever order answers come in, a confirmation asks for
\* the rows that were ticked; and for an owner who waits, "complete" stands
\* beside what was recorded.
THEOREM ScreenHonest == ImportScreenSpec => []ImportScreenHonest
<1>1. ImportScreenInv => ImportScreenHonest
  <2> SUFFICES ASSUME ImportScreenInv PROVE ImportScreenHonest
    OBVIOUS
  <2> QED
    BY TickedAreSelected
    DEF ImportScreenInv, ImportScreenHonest, CompleteIsRecorded, PreviewStays,
        InTurn
<1> QED
  BY <1>1, ImportScreenInvariance, PTL

(***************************************************************************)
(* The inbox of alerts.                                                    *)
(***************************************************************************)
Moments == Int \cup {Unmuted}
CallSteps == {"sent", "ok", "failed"}

ReadCalls ==
  [kind : {"read"}, event : Events, until : Int,
   was : [Events -> {"new", "read"}], at : CallSteps, press : Nat]
MuteCalls ==
  [kind : {"mute", "unmute"}, event : Events, until : Int,
   was : [Events -> Moments], at : CallSteps, press : Nat]

InboxTypes ==
  /\ readAt \in [Events -> BOOLEAN] /\ mutedUntil \in [Rules -> Moments]
  /\ items \in [Events -> {"new", "read"}] /\ muted \in [Events -> Moments]
  /\ calls \subseteq ReadCalls \cup MuteCalls
  /\ presses \in Nat /\ lost \in Nat /\ hour \in Nat

\* Two moments that mean the same for a mute: equal, or both over.
SameMute(u, v) == u = v \/ (~Later(u) /\ ~Later(v))

Asked(c) == IF c.kind = "mute" THEN c.until ELSE Unmuted
ReadUnderWay(e) == \E c \in calls : c.kind = "read" /\ c.event = e
MuteUnderWay(e) == \E c \in calls : c.kind # "read" /\ c.event = e

\* As long as calls do not tangle, a rule has one call under way.
OneCall == \A c, d \in calls : RuleOf[c.event] = RuleOf[d.event] => c = d
PressesCount ==
  /\ \A c \in calls : c.press <= presses
  /\ \A c, d \in calls : c.press = d.press => c = d

\* Where no call is under way the screen shows the row, and where one is, the
\* row says what the call has done; the newest call can still put back what
\* was shown before it.
ReadsTrue ==
  /\ \A e \in Events : ~ReadUnderWay(e) => items[e] = ShownState(e)
  /\ \A c \in calls : c.kind = "read" =>
       /\ items[c.event] = "read" /\ readAt[c.event] = (c.at = "ok")
       /\ c.press = presses =>
            \A e \in Events : c.was[e] = IF e = c.event THEN "new" ELSE items[e]

MutesTrue ==
  /\ \A e \in OnlyEvents :
       ~MuteUnderWay(e) => SameMute(muted[e], mutedUntil[RuleOf[e]])
  /\ \A c \in calls : c.kind # "read" =>
       /\ SameMute(muted[c.event], Asked(c))
       /\ c.event \in OnlyEvents =>
            SameMute(IF c.at = "ok" THEN Asked(c) ELSE c.was[c.event],
                     mutedUntil[RuleOf[c.event]])
       /\ c.press = presses =>
            \A e \in Events \ {c.event} : SameMute(c.was[e], muted[e])

InboxInv ==
  /\ InboxTypes /\ PressesCount
  /\ lost = 0 /\ ~tangled => OneCall /\ ReadsTrue /\ MutesTrue

LEMMA InboxInitInv == InboxInit => InboxInv
<1> SUFFICES ASSUME InboxInit PROVE InboxInv
  OBVIOUS
<1> USE InboxAssumption DEF InboxInit
<1>1. InboxTypes
  BY DEF InboxTypes, ShownState, ShownMute, Moments
<1>2. PressesCount /\ OneCall
  BY DEF PressesCount, OneCall
<1>3. ReadsTrue
  BY DEF ReadsTrue
<1>4. MutesTrue
  <2>1. ASSUME NEW e \in Events
        PROVE  SameMute(muted[e], mutedUntil[RuleOf[e]])
    <3>1. muted[e] = ShownMute(e)
      OBVIOUS
    <3>2. ~Later(Unmuted)
      BY DEF Later
    <3> QED
      BY <3>1, <3>2 DEF SameMute, ShownMute
  <2> QED
    BY <2>1 DEF MutesTrue, OnlyEvents
<1> QED
  BY <1>1, <1>2, <1>3, <1>4 DEF InboxInv

\* A press, whichever button it is of.
LEMMA PressKeeps ==
  ASSUME InboxInv, NEW kind \in {"read", "mute", "unmute"}, NEW e \in Events,
         NEW was, Press(kind, e, was),
         kind = "read" =>
           /\ items[e] = "new" /\ items' = [items EXCEPT ![e] = "read"]
           /\ was = items /\ UNCHANGED muted,
         kind # "read" =>
           /\ muted' = [muted EXCEPT ![e] = IF kind = "mute"
                                            THEN hour + SnoozeFor ELSE Unmuted]
           /\ was = muted /\ UNCHANGED items
  PROVE  InboxInv'
<1> USE InboxAssumption DEF InboxInv
<1>0. PICK c : c = NewCall(kind, e, was)
  OBVIOUS
<1>1. /\ calls' = calls \cup {c} /\ presses' = presses + 1
      /\ tangled' = (tangled \/ \E d \in calls : RuleOf[d.event] = RuleOf[e])
      /\ UNCHANGED <<readAt, mutedUntil, refused, lost, hour>>
  BY <1>0 DEF Press, serverRows
<1>2. /\ c.kind = kind /\ c.event = e /\ c.until = hour + SnoozeFor
      /\ c.was = was /\ c.at = "sent" /\ c.press = presses + 1
  BY <1>0 DEF NewCall
<1>3. c \in ReadCalls \cup MuteCalls
  <2>1. CASE kind = "read"
    BY <1>0, <2>1 DEF NewCall, ReadCalls, InboxTypes, CallSteps
  <2>2. CASE kind # "read"
    BY <1>0, <2>2 DEF NewCall, MuteCalls, InboxTypes, CallSteps, Moments
  <2> QED
    BY <2>1, <2>2
<1>4. \A d \in calls : d.press \in Nat /\ d.event \in Events
  BY DEF InboxTypes, ReadCalls, MuteCalls
<1>5. InboxTypes'
  BY <1>1, <1>3 DEF InboxTypes, Moments
<1>6. PressesCount'
  BY <1>1, <1>2, <1>4 DEF PressesCount, InboxTypes
<1>7. ASSUME lost' = 0, ~tangled' PROVE OneCall' /\ ReadsTrue' /\ MutesTrue'
  <2>1. OneCall /\ ReadsTrue /\ MutesTrue
    BY <1>1, <1>7
  <2>2. \A d \in calls : RuleOf[d.event] # RuleOf[e] /\ d.event # e
    BY <1>1, <1>7
  <2>3. \A d \in calls : d.press # presses'
    BY <1>1, <1>4 DEF PressesCount, InboxTypes
  <2>4. OneCall'
    BY <1>1, <1>2, <2>1, <2>2 DEF OneCall
  <2>5. ReadsTrue'
    <3>1. \A x \in Events : x # e => items'[x] = items[x] /\ muted'[x] = muted[x]
      BY DEF InboxTypes
    <3>2. ASSUME NEW x \in Events, ~ReadUnderWay(x)'
          PROVE  items'[x] = ShownState(x)'
      <4>1. ~ReadUnderWay(x) /\ (kind = "read" => x # e)
        BY <1>1, <1>2, <3>2 DEF ReadUnderWay
      <4> QED
        BY <1>1, <2>1, <3>1, <4>1 DEF ReadsTrue, ShownState
    <3>3. ASSUME NEW d \in calls, d.kind = "read"
          PROVE  items'[d.event] = "read" /\ readAt'[d.event] = (d.at = "ok")
      BY <1>1, <1>4, <2>1, <2>2, <3>1, <3>3 DEF ReadsTrue
    <3>4. ASSUME kind = "read"
          PROVE  /\ items'[e] = "read" /\ readAt'[e] = FALSE
                 /\ \A x \in Events : was[x] = IF x = e THEN "new" ELSE items'[x]
      <4>1. items[e] = ShownState(e)
        BY <2>1, <2>2 DEF ReadsTrue, ReadUnderWay
      <4> QED
        BY <1>1, <3>1, <3>4, <4>1 DEF ShownState, InboxTypes
    <3>5. ASSUME NEW d \in calls', d.kind = "read"
          PROVE  /\ items'[d.event] = "read" /\ readAt'[d.event] = (d.at = "ok")
                 /\ d.press = presses' =>
                      \A x \in Events :
                        d.was[x] = IF x = d.event THEN "new" ELSE items'[x]
      <4>1. CASE d \in calls
        BY <2>3, <3>3, <3>5, <4>1
      <4>2. CASE d = c
        BY <1>1, <1>2, <3>4, <3>5, <4>2
      <4> QED
        BY <1>1, <4>1, <4>2
    <3> QED
      BY <3>2, <3>5 DEF ReadsTrue
  <2>6. MutesTrue'
    <3>1. \A x \in Events : x # e => muted'[x] = muted[x]
      BY DEF InboxTypes
    <3>2. ASSUME NEW x \in OnlyEvents, ~MuteUnderWay(x)'
          PROVE  SameMute(muted[x], mutedUntil[RuleOf[x]])'
      <4>1. ~MuteUnderWay(x) /\ (kind # "read" => x # e)
        BY <1>1, <1>2, <3>2 DEF MuteUnderWay
      <4>2. SameMute(muted[x], mutedUntil[RuleOf[x]]) /\ muted'[x] = muted[x]
        BY <2>1, <3>1, <4>1 DEF MutesTrue, OnlyEvents
      <4> QED
        BY <1>1, <4>2 DEF SameMute, Later
    <3>3. ASSUME NEW d \in calls, d.kind # "read"
          PROVE  /\ SameMute(muted[d.event], Asked(d))'
                 /\ d.event \in OnlyEvents =>
                      SameMute(IF d.at = "ok" THEN Asked(d) ELSE d.was[d.event],
                               mutedUntil[RuleOf[d.event]])'
      BY <1>1, <1>4, <2>1, <2>2, <3>1, <3>3
      DEF MutesTrue, SameMute, Later, Asked, OnlyEvents
    <3>4. ASSUME kind # "read"
          PROVE  /\ SameMute(muted[e], Asked(c))'
                 /\ e \in OnlyEvents =>
                      SameMute(was[e], mutedUntil[RuleOf[e]])'
                 /\ \A x \in Events \ {e} : SameMute(was[x], muted[x])'
      <4>1. muted'[e] = IF kind = "mute" THEN hour + SnoozeFor ELSE Unmuted
        BY <3>4 DEF InboxTypes
      <4>2. e \in OnlyEvents => SameMute(muted[e], mutedUntil[RuleOf[e]])
        BY <2>1, <2>2 DEF MutesTrue, MuteUnderWay
      <4>3. SameMute(muted[e], Asked(c))'
        BY <1>1, <1>2, <3>4, <4>1 DEF SameMute, Asked
      <4>4. \A u, v : SameMute(u, v) => SameMute(u, v)'
        BY <1>1 DEF SameMute, Later
      <4>5. e \in OnlyEvents => SameMute(was[e], mutedUntil[RuleOf[e]])'
        BY <1>1, <3>4, <4>2, <4>4 DEF OnlyEvents
      <4>6. \A x \in Events \ {e} : SameMute(was[x], muted[x])'
        BY <3>1, <3>4 DEF SameMute
      <4> QED
        BY <4>3, <4>5, <4>6
    <3>5. ASSUME NEW d \in calls', d.kind # "read"
          PROVE  /\ SameMute(muted[d.event], Asked(d))'
                 /\ d.event \in OnlyEvents =>
                      SameMute(IF d.at = "ok" THEN Asked(d) ELSE d.was[d.event],
                               mutedUntil[RuleOf[d.event]])'
                 /\ d.press = presses' =>
                      \A x \in Events \ {d.event} : SameMute(d.was[x], muted[x])'
      <4>1. CASE d \in calls
        BY <2>3, <3>3, <3>5, <4>1
      <4>2. CASE d = c
        BY <1>1, <1>2, <3>4, <3>5, <4>2
      <4> QED
        BY <1>1, <4>1, <4>2
    <3> QED
      BY <3>2, <3>5 DEF MutesTrue, OnlyEvents
  <2> QED
    BY <2>4, <2>5, <2>6
<1> QED
  BY <1>5, <1>6, <1>7

LEMMA OwnerPresses ==
  ASSUME InboxInv, NEW e \in Events, markRead(e) \/ snooze(e) \/ unmute(e)
  PROVE  InboxInv'
<1>1. CASE markRead(e)
  BY <1>1, PressKeeps DEF markRead
<1>2. CASE snooze(e)
  BY <1>2, PressKeeps DEF snooze
<1>3. CASE unmute(e)
  BY <1>3, PressKeeps DEF unmute
<1> QED
  BY <1>1, <1>2, <1>3

\* A call that moves on stays the call it was.
LEMMA CallMoves ==
  ASSUME InboxInv, NEW c \in calls, NEW how \in CallSteps, Become(c, how),
         UNCHANGED presses
  PROVE  \E d \in ReadCalls \cup MuteCalls :
           /\ d.kind = c.kind /\ d.event = c.event /\ d.until = c.until
           /\ d.was = c.was /\ d.press = c.press /\ d.at = how
           /\ calls' = (calls \ {c}) \cup {d}
           /\ PressesCount' /\ (OneCall => OneCall')
           /\ calls' \subseteq ReadCalls \cup MuteCalls
           /\ \A e : ReadUnderWay(e)' = ReadUnderWay(e)
           /\ \A e : MuteUnderWay(e)' = MuteUnderWay(e)
<1> DEFINE d == [c EXCEPT !.at = how]
<1>1. /\ c \in ReadCalls \cup MuteCalls /\ calls \subseteq ReadCalls \cup MuteCalls
      /\ PressesCount
  BY DEF InboxInv, InboxTypes
<1>2. /\ d \in ReadCalls \cup MuteCalls
      /\ d.kind = c.kind /\ d.event = c.event /\ d.until = c.until
      /\ d.was = c.was /\ d.press = c.press /\ d.at = how
  BY <1>1 DEF ReadCalls, MuteCalls
<1>3. calls' = (calls \ {c}) \cup {d}
  BY DEF Become
<1> HIDE DEF d
<1>4. PressesCount'
  BY <1>1, <1>2, <1>3 DEF PressesCount
<1>5. OneCall => OneCall'
  BY <1>1, <1>2, <1>3 DEF OneCall
<1>6. /\ \A e : ReadUnderWay(e)' = ReadUnderWay(e)
      /\ \A e : MuteUnderWay(e)' = MuteUnderWay(e)
  BY <1>2, <1>3 DEF ReadUnderWay, MuteUnderWay
<1> QED
  BY <1>1, <1>2, <1>3, <1>4, <1>5, <1>6

\* The server handles a call, and its answer arrives or not.
LEMMA HandleKeeps ==
  ASSUME InboxInv, NEW c \in calls, Handle(c)
  PROVE  InboxInv'
<1> USE InboxAssumption DEF InboxInv
<1>1. PICK how \in CallSteps :
        Become(c, how) /\ (how # "ok" => lost' = lost + 1) /\ lost' \in {lost, lost + 1}
  BY DEF Handle, CallSteps
<1>2. /\ UNCHANGED <<items, muted, presses, hour, tangled>>
      /\ c.at = "sent" /\ InTime(c) /\ Update(c)
  BY DEF Handle, screen
<1>3. PICK d \in ReadCalls \cup MuteCalls :
        /\ d.kind = c.kind /\ d.event = c.event /\ d.until = c.until
        /\ d.was = c.was /\ d.press = c.press /\ d.at = how
        /\ calls' = (calls \ {c}) \cup {d}
        /\ PressesCount' /\ (OneCall => OneCall')
        /\ calls' \subseteq ReadCalls \cup MuteCalls
        /\ \A e : ReadUnderWay(e)' = ReadUnderWay(e)
        /\ \A e : MuteUnderWay(e)' = MuteUnderWay(e)
  BY <1>1, <1>2, CallMoves
<1>4. c.event \in Events /\ c.until \in Int /\ c.kind \in {"read", "mute", "unmute"}
  BY DEF InboxTypes, ReadCalls, MuteCalls
<1>5. /\ c.kind = "read" =>
           readAt' = [readAt EXCEPT ![c.event] = TRUE] /\ UNCHANGED mutedUntil
      /\ c.kind # "read" =>
           /\ mutedUntil' = [mutedUntil EXCEPT ![RuleOf[c.event]] = Asked(c)]
           /\ UNCHANGED readAt
  BY <1>2, <1>4 DEF Update, MuteRule, Asked
<1>6. InboxTypes'
  <2>1. readAt' \in [Events -> BOOLEAN] /\ mutedUntil' \in [Rules -> Moments]
    <3>1. CASE c.kind = "read"
      <4>1. \A b \in BOOLEAN :
              [readAt EXCEPT ![c.event] = b] \in [Events -> BOOLEAN]
        BY DEF InboxTypes
      <4> QED
        BY <1>5, <3>1, <4>1 DEF InboxTypes
    <3>2. CASE c.kind # "read"
      BY <1>4, <1>5, <3>2 DEF InboxTypes, Moments, Asked
    <3> QED
      BY <3>1, <3>2
  <2> QED
    BY <1>1, <1>2, <1>3, <2>1 DEF InboxTypes
<1>7. ASSUME lost' = 0, ~tangled' PROVE OneCall' /\ ReadsTrue' /\ MutesTrue'
  <2>1. OneCall /\ ReadsTrue /\ MutesTrue /\ how = "ok"
    BY <1>1, <1>2, <1>7 DEF InboxTypes
  <2>2. \A x \in calls : RuleOf[x.event] = RuleOf[c.event] => x = c
    BY <2>1 DEF OneCall
  <2>3. ReadsTrue'
    <3>1. ASSUME NEW e \in Events, ~ReadUnderWay(e)'
          PROVE  items'[e] = ShownState(e)'
      <4>1. c.kind = "read" => e # c.event
        BY <1>3, <3>1 DEF ReadUnderWay
      <4> QED
        BY <1>2, <1>3, <1>4, <1>5, <2>1, <3>1, <4>1
        DEF ReadsTrue, ShownState, InboxTypes
    <3>2. ASSUME NEW x \in calls', x.kind = "read"
          PROVE  /\ items'[x.event] = "read" /\ readAt'[x.event] = (x.at = "ok")
                 /\ x.press = presses' =>
                      \A e \in Events :
                        x.was[e] = IF e = x.event THEN "new" ELSE items'[e]
      <4>1. CASE x \in calls \ {c}
        <5>1. x.event # c.event /\ x.event \in Events
          BY <2>2, <4>1 DEF InboxTypes, ReadCalls, MuteCalls
        <5>2. readAt'[x.event] = readAt[x.event]
          BY <1>4, <1>5, <5>1 DEF InboxTypes
        <5> QED
          BY <1>2, <2>1, <3>2, <4>1, <5>2 DEF ReadsTrue
      <4>2. CASE x = d
        <5>1. readAt'[c.event] = TRUE
          BY <1>3, <1>4, <1>5, <3>2, <4>2 DEF InboxTypes
        <5>2. x.event = c.event /\ x.was = c.was /\ x.press = c.press /\ x.at = "ok"
          BY <1>3, <2>1, <4>2
        <5>3. readAt'[x.event] = (x.at = "ok")
          BY <5>1, <5>2
        <5>4. c.kind = "read" /\ presses' = presses /\ items' = items
          BY <1>2, <1>3, <3>2, <4>2
        <5>5. /\ items[c.event] = "read"
              /\ c.press = presses =>
                   \A e \in Events :
                     c.was[e] = IF e = c.event THEN "new" ELSE items[e]
          BY <2>1, <5>4 DEF ReadsTrue
        <5> QED
          BY <5>2, <5>3, <5>4, <5>5
      <4> QED
        BY <1>3, <4>1, <4>2
    <3> QED
      BY <3>1, <3>2 DEF ReadsTrue
  <2>4. MutesTrue'
    <3>1. \A u, v : SameMute(u, v)' = SameMute(u, v)
      BY <1>2 DEF SameMute, Later
    <3>2. ASSUME NEW e \in Events, c.kind # "read" => RuleOf[e] # RuleOf[c.event]
          PROVE  mutedUntil'[RuleOf[e]] = mutedUntil[RuleOf[e]]
      BY <1>4, <1>5, <3>2 DEF InboxTypes
    <3>3. ASSUME NEW e \in OnlyEvents, ~MuteUnderWay(e)'
          PROVE  SameMute(muted[e], mutedUntil[RuleOf[e]])'
      <4>1. c.kind # "read" => e # c.event
        BY <1>3, <3>3 DEF MuteUnderWay
      <4>2. mutedUntil'[RuleOf[e]] = mutedUntil[RuleOf[e]]
        BY <1>4, <3>2, <4>1 DEF OnlyEvents
      <4> QED
        BY <1>2, <1>3, <2>1, <3>1, <3>3, <4>2 DEF MutesTrue
    <3>4. ASSUME NEW x \in calls', x.kind # "read"
          PROVE  /\ SameMute(muted[x.event], Asked(x))'
                 /\ x.event \in OnlyEvents =>
                      SameMute(IF x.at = "ok" THEN Asked(x) ELSE x.was[x.event],
                               mutedUntil[RuleOf[x.event]])'
                 /\ x.press = presses' =>
                      \A e \in Events \ {x.event} : SameMute(x.was[e], muted[e])'
      <4>1. CASE x \in calls \ {c}
        <5>1. RuleOf[x.event] # RuleOf[c.event] /\ x.event \in Events
          BY <2>2, <4>1 DEF InboxTypes, ReadCalls, MuteCalls
        <5>2. mutedUntil'[RuleOf[x.event]] = mutedUntil[RuleOf[x.event]]
          BY <3>2, <5>1
        <5> QED
          BY <1>2, <2>1, <3>1, <3>4, <4>1, <5>2 DEF MutesTrue, Asked
      <4>2. CASE x = d
        <5>1. mutedUntil'[RuleOf[c.event]] = Asked(c) /\ Asked(d) = Asked(c)
          BY <1>3, <1>4, <1>5, <3>4, <4>2 DEF InboxTypes, Asked
        <5>2. \A u : SameMute(u, u)
          BY DEF SameMute
        <5> QED
          BY <1>2, <1>3, <2>1, <3>1, <3>4, <4>2, <5>1, <5>2 DEF MutesTrue
      <4> QED
        BY <1>3, <4>1, <4>2
    <3> QED
      BY <3>3, <3>4 DEF MutesTrue
  <2> QED
    BY <1>3, <2>1, <2>3, <2>4
<1> QED
  BY <1>3, <1>6, <1>7

LEMMA RefuseKeeps ==
  ASSUME InboxInv, NEW c \in calls, Refuse(c)
  PROVE  InboxInv'
<1> USE InboxAssumption DEF InboxInv
<1>1. /\ UNCHANGED <<readAt, mutedUntil, items, muted, presses, lost, hour, tangled>>
      /\ c.at = "sent" /\ Become(c, "failed")
  BY DEF Refuse, screen, serverRows
<1>2. PICK d \in ReadCalls \cup MuteCalls :
        /\ d.kind = c.kind /\ d.event = c.event /\ d.until = c.until
        /\ d.was = c.was /\ d.press = c.press /\ d.at = "failed"
        /\ calls' = (calls \ {c}) \cup {d}
        /\ PressesCount' /\ (OneCall => OneCall')
        /\ calls' \subseteq ReadCalls \cup MuteCalls
        /\ \A e : ReadUnderWay(e)' = ReadUnderWay(e)
        /\ \A e : MuteUnderWay(e)' = MuteUnderWay(e)
  BY <1>1, CallMoves DEF CallSteps
<1>3. InboxTypes'
  BY <1>1, <1>2 DEF InboxTypes
<1>4. \A u, v : SameMute(u, v)' = SameMute(u, v)
  BY <1>1 DEF SameMute, Later
<1>5. ReadsTrue => ReadsTrue'
  BY <1>1, <1>2 DEF ReadsTrue, ShownState
<1>6. MutesTrue => MutesTrue'
  BY <1>1, <1>2, <1>4 DEF MutesTrue, Asked
<1> QED
  BY <1>1, <1>2, <1>3, <1>5, <1>6

\* An answer: what was shown goes back when it failed.
LEMMA AnswerKeeps ==
  ASSUME InboxInv, NEW c \in calls, Answer(c)
  PROVE  InboxInv'
<1> USE InboxAssumption DEF InboxInv
<1>1. /\ UNCHANGED <<readAt, mutedUntil, presses, lost, hour>>
      /\ calls' = calls \ {c} /\ c.at \in {"ok", "failed"}
      /\ c.at = "ok" => UNCHANGED <<items, muted, tangled>>
      /\ c.at = "failed" =>
           /\ Rollback(c)
           /\ tangled' = (tangled \/ calls # {c} \/ c.press # presses)
  BY DEF Answer, serverRows
<1>2. c \in ReadCalls \cup MuteCalls /\ c.event \in Events
  BY DEF InboxTypes, ReadCalls, MuteCalls
<1>3. InboxTypes'
  <2>1. CASE c.at = "ok"
    BY <1>1, <2>1 DEF InboxTypes
  <2>2. CASE c.at = "failed"
    <3>1. CASE c.kind = "read"
      BY <1>1, <1>2, <2>2, <3>1 DEF Rollback, InboxTypes, ReadCalls, MuteCalls
    <3>2. CASE c.kind # "read"
      BY <1>1, <1>2, <2>2, <3>2 DEF Rollback, InboxTypes, ReadCalls, MuteCalls
    <3> QED
      BY <3>1, <3>2
  <2> QED
    BY <1>1, <2>1, <2>2
<1>4. PressesCount'
  BY <1>1 DEF PressesCount
<1>5. \A u, v : SameMute(u, v)' = SameMute(u, v)
  BY <1>1 DEF SameMute, Later
<1>6. ASSUME lost' = 0, ~tangled' PROVE OneCall' /\ ReadsTrue' /\ MutesTrue'
  <2>0. ~tangled
    <3>1. CASE c.at = "ok"
      BY <1>1, <1>6, <3>1
    <3>2. CASE c.at = "failed"
      BY <1>1, <1>6, <3>2
    <3> QED
      BY <1>1, <3>1, <3>2
  <2>1. OneCall /\ ReadsTrue /\ MutesTrue
    BY <1>1, <1>6, <2>0
  <2>2. OneCall' /\ \A x \in calls : RuleOf[x.event] = RuleOf[c.event] => x = c
    BY <1>1, <2>1 DEF OneCall
  <2>3. CASE c.at = "ok"
    <3>1. \A e : ReadUnderWay(e) => ReadUnderWay(e)' \/ (e = c.event /\ c.kind = "read")
      BY <1>1 DEF ReadUnderWay
    <3>2. \A e : MuteUnderWay(e) => MuteUnderWay(e)' \/ (e = c.event /\ c.kind # "read")
      BY <1>1 DEF MuteUnderWay
    <3>3. c.kind = "read" => items[c.event] = ShownState(c.event)
      BY <2>1, <2>3 DEF ReadsTrue, ShownState
    <3>4. c.kind # "read" /\ c.event \in OnlyEvents =>
            SameMute(muted[c.event], mutedUntil[RuleOf[c.event]])
      <4>1. \A u, v, w : SameMute(u, v) /\ SameMute(v, w) => SameMute(u, w)
        BY DEF SameMute
      <4> QED
        BY <2>1, <2>3, <4>1 DEF MutesTrue
    <3>5. ReadsTrue'
      BY <1>1, <2>1, <2>3, <3>1, <3>3 DEF ReadsTrue, ShownState
    <3>6. MutesTrue'
      BY <1>1, <1>5, <2>1, <2>3, <3>2, <3>4 DEF MutesTrue, Asked
    <3> QED
      BY <2>2, <3>5, <3>6
  <2>4. CASE c.at = "failed"
    <3>1. calls = {c} /\ calls' = {} /\ c.press = presses /\ c.at # "ok"
      BY <1>1, <1>6, <2>4
    <3>2. ASSUME NEW e \in Events PROVE items'[e] = ShownState(e)'
      <4>1. CASE c.kind = "read"
        <5>1. readAt[c.event] = FALSE
          BY <2>1, <3>1, <4>1 DEF ReadsTrue
        <5>2. e # c.event => items[e] = ShownState(e)
          BY <2>1, <3>1 DEF ReadsTrue, ReadUnderWay
        <5>3. items'[e] = IF e = c.event THEN "new" ELSE items[e]
          BY <1>1, <2>1, <2>4, <3>1, <4>1 DEF ReadsTrue, Rollback
        <5> QED
          BY <1>1, <5>1, <5>2, <5>3 DEF ShownState
      <4>2. CASE c.kind # "read"
        <5>1. items[e] = ShownState(e)
          BY <2>1, <3>1, <4>2 DEF ReadsTrue, ReadUnderWay
        <5> QED
          BY <1>1, <2>4, <4>2, <5>1 DEF Rollback, ShownState
      <4> QED
        BY <4>1, <4>2
    <3>3. ASSUME NEW e \in OnlyEvents
          PROVE  SameMute(muted[e], mutedUntil[RuleOf[e]])'
      <4>1. CASE c.kind # "read"
        <5>1. muted' = c.was
          BY <1>1, <2>4, <4>1 DEF Rollback
        <5>2. CASE e = c.event
          <6>1. SameMute(c.was[e], mutedUntil[RuleOf[e]])
            BY <2>1, <3>1, <4>1, <5>2 DEF MutesTrue
          <6> QED
            BY <1>1, <1>5, <5>1, <6>1
        <5>3. CASE e # c.event
          <6>1. SameMute(c.was[e], muted[e])
            BY <2>1, <3>1, <4>1, <5>3 DEF MutesTrue, OnlyEvents
          <6>2. SameMute(muted[e], mutedUntil[RuleOf[e]])
            BY <2>1, <3>1, <5>3 DEF MutesTrue, MuteUnderWay
          <6>3. \A u, v, w : SameMute(u, v) /\ SameMute(v, w) => SameMute(u, w)
            BY DEF SameMute
          <6> QED
            BY <1>1, <1>5, <5>1, <6>1, <6>2, <6>3
        <5> QED
          BY <5>2, <5>3
      <4>2. CASE c.kind = "read"
        <5>1. SameMute(muted[e], mutedUntil[RuleOf[e]])
          BY <2>1, <3>1, <4>2 DEF MutesTrue, MuteUnderWay
        <5> QED
          BY <1>1, <1>5, <2>4, <4>2, <5>1 DEF Rollback
      <4> QED
        BY <4>1, <4>2
    <3> QED
      BY <2>2, <3>1, <3>2, <3>3 DEF ReadsTrue, MutesTrue, OnlyEvents
  <2> QED
    BY <1>1, <2>3, <2>4
<1> QED
  BY <1>3, <1>4, <1>6

\* Time passes: what is over stays over, and is taken off the screen.
LEMMA TimeKeeps ==
  ASSUME InboxInv, ExpireMutes \/ PassTime
  PROVE  InboxInv'
<1> USE InboxAssumption DEF InboxInv
<1>1. /\ UNCHANGED <<readAt, mutedUntil, items, calls, presses, lost, tangled>>
      /\ hour' \in {hour, hour + 1} /\ hour' \in Nat
      /\ \A e \in Events : muted'[e] = muted[e] \/
           (muted'[e] = Unmuted /\ ~Later(muted[e]) /\ hour' = hour)
      /\ muted' \in [Events -> Moments]
  BY DEF ExpireMutes, PassTime, serverRows, screen, InboxTypes, Moments
<1>2. InboxTypes' /\ PressesCount' /\ (OneCall => OneCall')
  BY <1>1 DEF InboxTypes, PressesCount, OneCall
<1>3. ReadsTrue => ReadsTrue'
  BY <1>1 DEF ReadsTrue, ReadUnderWay, ShownState
<1>4. \A u, v \in Moments : SameMute(u, v) => SameMute(u, v)'
  BY <1>1 DEF SameMute, Later, Moments, InboxTypes
<1>5. \A e \in Events : \A v \in Moments :
        SameMute(muted[e], v) => SameMute(muted[e], v)'
  <2> SUFFICES ASSUME NEW e \in Events, NEW v \in Moments, SameMute(muted[e], v)
               PROVE  SameMute(muted[e], v)'
    OBVIOUS
  <2>1. CASE muted'[e] = muted[e]
    BY <1>4, <2>1 DEF InboxTypes, SameMute
  <2>2. CASE muted'[e] = Unmuted /\ ~Later(muted[e]) /\ hour' = hour
    BY <2>2 DEF SameMute, Later
  <2> QED
    BY <1>1, <2>1, <2>2
<1>6. \A u, v : SameMute(u, v) <=> SameMute(v, u)
  BY DEF SameMute
<1>7. ASSUME MutesTrue PROVE MutesTrue'
  <2>1. \A e \in Events : mutedUntil[RuleOf[e]] \in Moments
    BY DEF InboxTypes
  <2>2. \A c \in calls : c.kind # "read" =>
          c.event \in Events /\ Asked(c) \in Moments /\ c.was \in [Events -> Moments]
    BY DEF InboxTypes, ReadCalls, MuteCalls, Asked, Moments
  <2>3. ASSUME NEW e \in OnlyEvents, ~MuteUnderWay(e)'
        PROVE  SameMute(muted[e], mutedUntil[RuleOf[e]])'
    BY <1>1, <1>5, <1>7, <2>1, <2>3 DEF MutesTrue, MuteUnderWay, OnlyEvents
  <2>4. ASSUME NEW c \in calls, c.kind # "read"
        PROVE  /\ SameMute(muted[c.event], Asked(c))'
               /\ c.event \in OnlyEvents =>
                    SameMute(IF c.at = "ok" THEN Asked(c) ELSE c.was[c.event],
                             mutedUntil[RuleOf[c.event]])'
               /\ c.press = presses' =>
                    \A e \in Events \ {c.event} : SameMute(c.was[e], muted[e])'
    <3>1. SameMute(muted[c.event], Asked(c))'
      BY <1>5, <1>7, <2>2, <2>4 DEF MutesTrue, Asked
    <3>2. c.event \in OnlyEvents =>
            SameMute(IF c.at = "ok" THEN Asked(c) ELSE c.was[c.event],
                     mutedUntil[RuleOf[c.event]])'
      BY <1>1, <1>4, <1>7, <2>1, <2>2, <2>4 DEF MutesTrue, Asked
    <3>3. ASSUME c.press = presses', NEW e \in Events \ {c.event}
          PROVE  SameMute(c.was[e], muted[e])'
      <4>1. SameMute(c.was[e], muted[e])
        BY <1>1, <1>7, <2>4, <3>3 DEF MutesTrue
      <4>2. SameMute(muted[e], c.was[e])'
        BY <1>5, <1>6, <2>2, <2>4, <4>1
      <4> QED
        BY <4>2 DEF SameMute
    <3> QED
      BY <3>1, <3>2, <3>3
  <2> QED
    BY <1>1, <2>3, <2>4 DEF MutesTrue, OnlyEvents
<1> QED
  BY <1>1, <1>2, <1>3, <1>7

\* The invariant of the inbox is inductive: as long as calls do not tangle, the
\* screen shows the rows, but for what a call under way has still to do.
THEOREM InboxInvariance == InboxSpec => []InboxInv
<1>1. InboxInv /\ [InboxNext]_inboxVars => InboxInv'
  <2> SUFFICES ASSUME InboxInv, [InboxNext]_inboxVars PROVE InboxInv'
    OBVIOUS
  <2>1. CASE UNCHANGED inboxVars
    BY <2>1
    DEF inboxVars, InboxInv, InboxTypes, PressesCount, OneCall, ReadsTrue,
        ReadUnderWay, ShownState, MutesTrue, MuteUnderWay, SameMute, Asked,
        Later
  <2> QED
    BY <2>1, OwnerPresses, HandleKeeps, RefuseKeeps, AnswerKeeps, TimeKeeps
    DEF InboxNext
<1> QED
  BY <1>1, InboxInitInv, PTL DEF InboxSpec

\* AlertsCenter.tsx and its routes: once every call is answered the screen
\* shows what the rows say, if no call that failed had company.
THEOREM InboxSettles == InboxSpec => []SettledScreenTrue
<1>1. InboxInv => SettledScreenTrue
  <2> SUFFICES ASSUME InboxInv, calls = {}, lost = 0, ~tangled
               PROVE  ReadAsShown /\ MutedAsShown
    BY DEF SettledScreenTrue
  <2>1. ReadAsShown
    BY DEF InboxInv, ReadsTrue, ReadUnderWay, ReadAsShown
  <2>2. MutedAsShown
    BY DEF InboxInv, MutesTrue, MuteUnderWay, MutedAsShown, SameMute
  <2> QED
    BY <2>1, <2>2
<1> QED
  BY <1>1, InboxInvariance, PTL

(***************************************************************************)
(* The connection.                                                         *)
(***************************************************************************)
USE DEF UnderWay

ConnectionSpec == ConnectionInit /\ [][ConnectionNext]_connectionVars

Statuses == {"connecting", "open", "failing", "failed", "closed"}
Steps == {"idle", "waiting", "calling", "done", "failed", "drifted"}
Reads == [step : Steps, on : Nat, past : SUBSET Nat,
          cursor : Pages \cup {NoMore}, cursors : SUBSET Cursors,
          pages : Seq(Pages)]

ConnectionTypes ==
  /\ attempts \in Seq(Statuses)
  /\ client \in {0} \cup DOMAIN attempts
  /\ connection \in {0} \cup DOMAIN attempts
  /\ reads \in [Readers -> Reads]
  /\ closer \in [step : {"none", "waiting", "closing", "closed"}, on : Nat]
  /\ lateFrom \in 0..(Len(attempts) + 1)
  /\ nextOf \in [Pages -> Cursors \cup {NoMore}]

\* The transport has an attempt or a client, never both.
OneAttemptAtATime ==
  /\ \A n \in DOMAIN attempts : attempts[n] \in UnderWay <=> n = connection
  /\ client # 0 => attempts[client] = "open" /\ connection = 0
  /\ \A n \in DOMAIN attempts : attempts[n] = "open" =>
       n = client \/ (closer.step = "closing" /\ closer.on = n)

\* What is there once close was called is younger than it, but for the attempt
\* that close waits for.
Younger ==
  /\ closer.step = "waiting" =>
       /\ closer.on \in DOMAIN attempts
       /\ \/ attempts[closer.on] \in UnderWay
          \/ attempts[closer.on] = "failed"
          \/ attempts[closer.on] = "open" /\ client = closer.on
  /\ closer.step = "closing" =>
       /\ closer.on \in DOMAIN attempts
       /\ attempts[closer.on] = "open" /\ closer.on # client
  /\ closer.step # "none" =>
       /\ client # 0 => \/ client >= lateFrom
                        \/ closer.step = "waiting" /\ client = closer.on
       /\ connection # 0 => \/ connection >= lateFrom
                            \/ /\ closer.step = "waiting"
                               /\ connection = closer.on

\* A call knows no failed attempt as its own that had ended before it.
OwnAttempt(read) ==
  /\ read.past \subseteq Ended
  /\ read.on \in read.past => attempts[read.on] \in {"open", "closed"}
  /\ read.step \in {"waiting", "calling", "failed"} => read.on \in DOMAIN attempts

\* The pages follow one another, and the cursors that were handed out lead to
\* all of them but the first, and to the one that is asked for.
Follows(read) ==
  LET pages == read.pages
      known == {FirstPage} \cup read.cursors
  IN
  /\ \A i, j \in DOMAIN pages : i # j => pages[i] # pages[j]
  /\ \A i \in 2..Len(pages) : pages[i] = nextOf[pages[i - 1]]
  /\ \A i \in DOMAIN pages : pages[i] \in known
  /\ read.step # "done" =>
       /\ read.cursor \in known
       /\ \A i \in DOMAIN pages : pages[i] # read.cursor
       /\ pages # <<>> => read.cursor = nextOf[pages[Len(pages)]]
  /\ read.step = "done" => pages # <<>> /\ nextOf[pages[Len(pages)]] = NoMore

ConnectionInv ==
  /\ ConnectionTypes /\ OneAttemptAtATime /\ Younger
  /\ \A r \in Readers : OwnAttempt(reads[r]) /\ Follows(reads[r])

-----------------------------------------------------------------------------
(***************************************************************************)
(* What a step leaves alone.                                               *)
(***************************************************************************)
\* Attempts end, and those that succeeded do not fail afterwards.
AttemptsGoOn ==
  /\ DOMAIN attempts \subseteq DOMAIN attempts'
  /\ \A n \in DOMAIN attempts :
       /\ attempts[n] \notin UnderWay => attempts'[n] \notin UnderWay
       /\ attempts[n] \in {"open", "closed"} => attempts'[n] \in {"open", "closed"}

LEMMA OwnAttemptStays ==
  ASSUME NEW read, OwnAttempt(read), AttemptsGoOn
  PROVE  OwnAttempt(read)'
<1>1. read.past \subseteq Ended'
  BY DEF OwnAttempt, AttemptsGoOn, Ended
<1>2. read.on \in read.past => attempts'[read.on] \in {"open", "closed"}
  BY DEF OwnAttempt, AttemptsGoOn, Ended
<1> QED
  BY <1>1, <1>2 DEF OwnAttempt, AttemptsGoOn

\* A step that changes the transport only.
LEMMA ReadsAlone ==
  ASSUME ConnectionInv, UNCHANGED <<reads, nextOf>>, AttemptsGoOn
  PROVE  (\A r \in Readers : OwnAttempt(reads[r]) /\ Follows(reads[r]))'
<1> SUFFICES ASSUME NEW r \in Readers
             PROVE  OwnAttempt(reads[r])' /\ Follows(reads[r])'
  OBVIOUS
<1>1. OwnAttempt(reads[r])'
  <2>1. PICK q : q = reads[r]
    OBVIOUS
  <2>2. OwnAttempt(q)'
    BY <2>1, OwnAttemptStays DEF ConnectionInv
  <2>3. reads'[r] = q
    BY <2>1
  <2> QED
    BY <2>2, <2>3 DEF OwnAttempt, Ended
<1>2. Follows(reads[r])'
  BY DEF ConnectionInv, Follows
<1> QED
  BY <1>1, <1>2

\* A step that changes one read only.
LEMMA OneReadMoves ==
  ASSUME ConnectionInv, NEW r \in Readers, NEW read \in Reads,
         reads' = [reads EXCEPT ![r] = read],
         UNCHANGED <<attempts, client, connection, closer, lateFrom, nextOf>>,
         OwnAttempt(read), Follows(read)
  PROVE  ConnectionInv'
<1>1. ConnectionTypes' /\ OneAttemptAtATime' /\ Younger'
  BY DEF ConnectionInv, ConnectionTypes, OneAttemptAtATime, Younger
<1>2. \A q \in Readers : reads'[q] = IF q = r THEN read ELSE reads[q]
  BY DEF ConnectionInv, ConnectionTypes
<1>3. \A q \in Readers : OwnAttempt(reads[q])' /\ Follows(reads[q])'
  <2> SUFFICES ASSUME NEW q \in Readers
               PROVE  OwnAttempt(reads[q])' /\ Follows(reads[q])'
    OBVIOUS
  <2>1. PICK s : s = reads'[q] /\ OwnAttempt(s) /\ Follows(s)
    BY <1>2 DEF ConnectionInv
  <2> QED
    BY <2>1 DEF OwnAttempt, Ended, Follows
<1> QED
  BY <1>1, <1>3 DEF ConnectionInv

-----------------------------------------------------------------------------
(***************************************************************************)
(* The transport.                                                          *)
(***************************************************************************)
LEMMA ConnectionBegins == ConnectionInit => ConnectionInv
<1> SUFFICES ASSUME ConnectionInit PROVE ConnectionInv
  OBVIOUS
<1> USE DEF ConnectionInit
<1>1. Idle \in Reads
  BY DEF Idle, Reads, Steps, Pages
<1>2. ConnectionTypes
  BY <1>1 DEF ConnectionTypes
<1>3. OneAttemptAtATime /\ Younger
  BY DEF OneAttemptAtATime, Younger
<1>4. \A r \in Readers : OwnAttempt(reads[r]) /\ Follows(reads[r])
  BY DEF OwnAttempt, Follows, Idle
<1> QED
  BY <1>2, <1>3, <1>4 DEF ConnectionInv

LEMMA AttemptSucceedsKeeps ==
  ASSUME ConnectionInv, NEW n \in DOMAIN attempts, AttemptSucceeds(n)
  PROVE  ConnectionInv'
<1> USE DEF ConnectionInv
<1>1. /\ attempts[n] = "connecting" /\ n = connection /\ client = 0
      /\ attempts' = [attempts EXCEPT ![n] = "open"]
      /\ client' = n /\ connection' = 0
      /\ UNCHANGED <<reads, closer, lateFrom, nextOf>>
  BY DEF AttemptSucceeds, OneAttemptAtATime, ConnectionTypes
<1>2. /\ attempts' \in Seq(Statuses) /\ Len(attempts') = Len(attempts)
      /\ DOMAIN attempts' = DOMAIN attempts
      /\ \A m \in DOMAIN attempts :
           attempts'[m] = IF m = n THEN "open" ELSE attempts[m]
  BY <1>1 DEF ConnectionTypes, Statuses
<1>3. n # 0
  BY DEF ConnectionTypes
<1>4. ConnectionTypes'
  BY <1>1, <1>2 DEF ConnectionTypes
<1>5. OneAttemptAtATime'
  BY <1>1, <1>2, <1>3 DEF OneAttemptAtATime
<1>6. Younger'
  BY <1>1, <1>2, <1>3 DEF Younger
<1>7. AttemptsGoOn
  BY <1>1, <1>2 DEF AttemptsGoOn
<1> QED
  BY <1>1, <1>4, <1>5, <1>6, <1>7, ReadsAlone

LEMMA AttemptFailsKeeps ==
  ASSUME ConnectionInv, NEW n \in DOMAIN attempts, AttemptFails(n)
  PROVE  ConnectionInv'
<1> USE DEF ConnectionInv
<1>1. /\ attempts[n] = "connecting" /\ n = connection /\ client = 0
      /\ attempts' = [attempts EXCEPT ![n] = "failing"]
      /\ UNCHANGED <<client, connection, reads, closer, lateFrom, nextOf>>
  BY DEF AttemptFails, OneAttemptAtATime, ConnectionTypes
<1>2. /\ attempts' \in Seq(Statuses) /\ Len(attempts') = Len(attempts)
      /\ DOMAIN attempts' = DOMAIN attempts
      /\ \A m \in DOMAIN attempts :
           attempts'[m] = IF m = n THEN "failing" ELSE attempts[m]
  BY <1>1 DEF ConnectionTypes, Statuses
<1>3. n # 0
  BY DEF ConnectionTypes
<1>4. ConnectionTypes'
  BY <1>1, <1>2 DEF ConnectionTypes
<1>5. OneAttemptAtATime'
  BY <1>1, <1>2, <1>3 DEF OneAttemptAtATime
<1>6. Younger'
  BY <1>1, <1>2, <1>3 DEF Younger
<1>7. AttemptsGoOn
  BY <1>1, <1>2 DEF AttemptsGoOn
<1> QED
  BY <1>1, <1>4, <1>5, <1>6, <1>7, ReadsAlone

LEMMA FailedAttemptEndsKeeps ==
  ASSUME ConnectionInv, NEW n \in DOMAIN attempts, FailedAttemptEnds(n)
  PROVE  ConnectionInv'
<1> USE DEF ConnectionInv
<1>1. /\ attempts[n] = "failing" /\ n = connection /\ client = 0
      /\ attempts' = [attempts EXCEPT ![n] = "failed"]
      /\ connection' = 0
      /\ UNCHANGED <<client, reads, closer, lateFrom, nextOf>>
  BY DEF FailedAttemptEnds, OneAttemptAtATime, ConnectionTypes
<1>2. /\ attempts' \in Seq(Statuses) /\ Len(attempts') = Len(attempts)
      /\ DOMAIN attempts' = DOMAIN attempts
      /\ \A m \in DOMAIN attempts :
           attempts'[m] = IF m = n THEN "failed" ELSE attempts[m]
  BY <1>1 DEF ConnectionTypes, Statuses
<1>3. n # 0
  BY DEF ConnectionTypes
<1>4. ConnectionTypes'
  BY <1>1, <1>2 DEF ConnectionTypes
<1>5. OneAttemptAtATime'
  BY <1>1, <1>2, <1>3 DEF OneAttemptAtATime
<1>6. Younger'
  BY <1>1, <1>2, <1>3 DEF Younger
<1>7. AttemptsGoOn
  BY <1>1, <1>2 DEF AttemptsGoOn
<1> QED
  BY <1>1, <1>4, <1>5, <1>6, <1>7, ReadsAlone

LEMMA CloseKeeps == ConnectionInv /\ Close => ConnectionInv'
<1> SUFFICES ASSUME ConnectionInv, Close PROVE ConnectionInv'
  OBVIOUS
<1> USE DEF ConnectionInv
<1>1. /\ closer.step = "none" /\ client' = 0 /\ lateFrom' = Len(attempts) + 1
      /\ UNCHANGED <<attempts, reads, nextOf>>
  BY DEF Close
<1>2. \/ /\ client # 0 /\ closer' = [step |-> "closing", on |-> client]
         /\ connection' = 0
      \/ /\ client = 0 /\ connection # 0
         /\ closer' = [step |-> "waiting", on |-> connection]
         /\ connection' = connection
      \/ /\ client = 0 /\ connection = 0
         /\ closer' = [step |-> "closed", on |-> 0]
         /\ connection' = 0
  BY DEF Close
<1>3. DOMAIN attempts = 1..Len(attempts) /\ Len(attempts) \in Nat
  BY DEF ConnectionTypes
<1>4. ConnectionTypes'
  BY <1>1, <1>2, <1>3 DEF ConnectionTypes
<1>5. OneAttemptAtATime'
  BY <1>1, <1>2, <1>3 DEF OneAttemptAtATime, ConnectionTypes
<1>6. Younger'
  BY <1>1, <1>2, <1>3 DEF Younger, OneAttemptAtATime, ConnectionTypes
<1>7. AttemptsGoOn
  BY <1>1 DEF AttemptsGoOn
<1> QED
  BY <1>1, <1>4, <1>5, <1>6, <1>7, ReadsAlone

LEMMA CloseGoesOnKeeps == ConnectionInv /\ CloseGoesOn => ConnectionInv'
<1> SUFFICES ASSUME ConnectionInv, CloseGoesOn PROVE ConnectionInv'
  OBVIOUS
<1> USE DEF ConnectionInv
<1>1. /\ closer.step = "waiting" /\ closer.on \in DOMAIN attempts
      /\ attempts[closer.on] \notin UnderWay
      /\ UNCHANGED <<attempts, reads, lateFrom, nextOf>>
  BY DEF CloseGoesOn, Ended
<1>2. \/ /\ attempts[closer.on] = "failed"
         /\ closer' = [closer EXCEPT !.step = "closed"]
         /\ UNCHANGED <<client, connection>>
      \/ /\ attempts[closer.on] = "open" /\ client = closer.on
         /\ closer' = [closer EXCEPT !.step = "closing"]
         /\ client' = 0 /\ connection' = 0
  BY <1>1 DEF CloseGoesOn, Younger
<1>3. /\ closer'.on = closer.on
      /\ closer'.step = IF attempts[closer.on] = "failed" THEN "closed"
                        ELSE "closing"
      /\ closer' \in [step : {"none", "waiting", "closing", "closed"},
                      on : Nat]
  BY <1>2 DEF ConnectionTypes
<1>4. ConnectionTypes'
  BY <1>1, <1>2, <1>3 DEF ConnectionTypes
<1>5. OneAttemptAtATime'
  BY <1>1, <1>2, <1>3 DEF OneAttemptAtATime, ConnectionTypes
<1>6. Younger'
  BY <1>1, <1>2, <1>3 DEF Younger, OneAttemptAtATime, ConnectionTypes
<1>7. AttemptsGoOn
  BY <1>1 DEF AttemptsGoOn
<1> QED
  BY <1>1, <1>4, <1>5, <1>6, <1>7, ReadsAlone

LEMMA ClientClosedKeeps == ConnectionInv /\ ClientClosed => ConnectionInv'
<1> SUFFICES ASSUME ConnectionInv, ClientClosed PROVE ConnectionInv'
  OBVIOUS
<1> USE DEF ConnectionInv
<1>1. /\ closer.step = "closing" /\ closer.on \in DOMAIN attempts
      /\ attempts[closer.on] = "open" /\ closer.on # client
      /\ closer' = [closer EXCEPT !.step = "closed"]
      /\ attempts' = [attempts EXCEPT ![closer.on] = "closed"]
      /\ UNCHANGED <<client, connection, reads, lateFrom, nextOf>>
  BY DEF ClientClosed, Younger
<1>2. /\ attempts' \in Seq(Statuses) /\ Len(attempts') = Len(attempts)
      /\ DOMAIN attempts' = DOMAIN attempts
      /\ \A m \in DOMAIN attempts :
           attempts'[m] = IF m = closer.on THEN "closed" ELSE attempts[m]
  BY <1>1 DEF ConnectionTypes, Statuses
<1>3. /\ closer' \in [step : {"none", "waiting", "closing", "closed"},
                      on : Nat]
      /\ closer'.step = "closed"
  BY <1>1 DEF ConnectionTypes
<1>4. ConnectionTypes'
  BY <1>1, <1>2, <1>3 DEF ConnectionTypes
<1>5. OneAttemptAtATime'
  BY <1>1, <1>2, <1>3 DEF OneAttemptAtATime, ConnectionTypes
<1>6. Younger'
  BY <1>1, <1>2, <1>3 DEF Younger, ConnectionTypes
<1>7. AttemptsGoOn
  BY <1>1, <1>2 DEF AttemptsGoOn
<1> QED
  BY <1>1, <1>4, <1>5, <1>6, <1>7, ReadsAlone

-----------------------------------------------------------------------------
(***************************************************************************)
(* The reads.                                                              *)
(***************************************************************************)
\* A call: the read keeps its progress and waits or calls by another number.
LEMMA CallKeeps ==
  ASSUME ConnectionInv, NEW r \in Readers, NEW read \in Reads, read.step # "done",
         Follows(read), UNCHANGED <<client, closer, lateFrom, nextOf>>,
         Call(r, read)
  PROVE  ConnectionInv'
<1> USE DEF ConnectionInv
<1> DEFINE called == [read EXCEPT !.past = Ended]
           call(step, n) == [called EXCEPT !.step = step, !.on = n]
<1>1. Len(attempts) \in Nat /\ DOMAIN attempts = 1..Len(attempts)
      /\ Ended \in SUBSET Nat /\ client \in Nat /\ connection \in Nat
      /\ Len(attempts) + 1 \in Nat
  BY DEF ConnectionTypes, Ended
<1>2. \A step \in {"waiting", "calling"}, n \in Nat :
        /\ call(step, n) \in Reads /\ Follows(call(step, n))
        /\ call(step, n).past = Ended /\ call(step, n).on = n
        /\ call(step, n).step = step
  <2> SUFFICES ASSUME NEW step \in {"waiting", "calling"}, NEW n \in Nat
               PROVE  /\ call(step, n) \in Reads /\ Follows(call(step, n))
                      /\ call(step, n).past = Ended /\ call(step, n).on = n
                      /\ call(step, n).step = step
    OBVIOUS
  <2>1. PICK past \in SUBSET Nat : past = Ended
    BY <1>1
  <2>2. PICK d : d = [read EXCEPT !.past = past]
    OBVIOUS
  <2>3. /\ d \in Reads /\ d.pages = read.pages /\ d.past = past
        /\ d.cursor = read.cursor /\ d.cursors = read.cursors
    BY <2>2 DEF Reads
  <2>4. PICK c : c = [d EXCEPT !.step = step, !.on = n]
    OBVIOUS
  <2>5. /\ c \in Reads /\ c.past = past /\ c.on = n /\ c.step = step
        /\ c.pages = read.pages /\ c.cursor = read.cursor
        /\ c.cursors = read.cursors
    BY <2>3, <2>4 DEF Reads, Steps
  <2>6. Follows(c)
    BY <2>5 DEF Follows
  <2> QED
    BY <2>1, <2>2, <2>4, <2>5, <2>6
<1>3. CASE client # 0 /\ reads' = [reads EXCEPT ![r] = call("calling", client)]
           /\ UNCHANGED <<attempts, connection>>
  <2> HIDE DEF call
  <2>1. PICK q : q = call("calling", client)
    OBVIOUS
  <2>2. /\ q \in Reads /\ Follows(q) /\ q.past = Ended /\ q.on = client
        /\ q.step = "calling"
    BY <1>1, <1>2, <2>1
  <2>3. OwnAttempt(q)
    BY <1>3, <2>2 DEF OwnAttempt, OneAttemptAtATime, ConnectionTypes
  <2> QED
    BY <1>3, <2>1, <2>2, <2>3, OneReadMoves
<1>4. CASE /\ client = 0 /\ connection # 0
           /\ reads' = [reads EXCEPT ![r] = call("waiting", connection)]
           /\ UNCHANGED <<attempts, connection>>
  <2> HIDE DEF call
  <2>1. PICK q : q = call("waiting", connection)
    OBVIOUS
  <2>2. /\ q \in Reads /\ Follows(q) /\ q.past = Ended /\ q.on = connection
        /\ q.step = "waiting"
    BY <1>1, <1>2, <2>1
  <2>3. OwnAttempt(q)
    BY <1>4, <2>2 DEF OwnAttempt, OneAttemptAtATime, ConnectionTypes, Ended
  <2> QED
    BY <1>4, <2>1, <2>2, <2>3, OneReadMoves
<1>5. CASE /\ client = 0 /\ connection = 0
           /\ attempts' = Append(attempts, "connecting")
           /\ connection' = Len(attempts) + 1
           /\ reads' = [reads EXCEPT ![r] = call("waiting", connection')]
  <2> HIDE DEF call
  <2>1. PICK q : q = call("waiting", Len(attempts) + 1)
    OBVIOUS
  <2>2. /\ q \in Reads /\ Follows(q) /\ q.past = Ended
        /\ q.on = Len(attempts) + 1 /\ q.step = "waiting"
    BY <1>1, <1>2, <2>1
  <2>3. /\ attempts' \in Seq(Statuses) /\ Len(attempts') = Len(attempts) + 1
        /\ DOMAIN attempts' = 1..(Len(attempts) + 1)
        /\ attempts'[Len(attempts) + 1] = "connecting"
        /\ \A n \in DOMAIN attempts : attempts'[n] = attempts[n]
    BY <1>1, <1>5 DEF ConnectionTypes, Statuses
  <2>4. reads' = [reads EXCEPT ![r] = q]
    BY <1>5, <2>1
  <2>5. ConnectionTypes'
    <3>1. reads' \in [Readers -> Reads]
      BY <2>2, <2>4 DEF ConnectionTypes
    <3> QED
      BY <1>1, <1>5, <2>3, <3>1 DEF ConnectionTypes
  <2>6. OneAttemptAtATime'
    BY <1>1, <1>5, <2>3 DEF OneAttemptAtATime, ConnectionTypes
  <2>7. Younger'
    BY <1>1, <1>5, <2>3 DEF Younger, OneAttemptAtATime, ConnectionTypes
  <2>8. AttemptsGoOn
    BY <1>1, <2>3 DEF AttemptsGoOn
  <2>9. OwnAttempt(q)'
    BY <1>1, <2>2, <2>3 DEF OwnAttempt, Ended
  <2>10. \A s \in Readers : OwnAttempt(reads[s])' /\ Follows(reads[s])'
    <3> SUFFICES ASSUME NEW s \in Readers
                 PROVE  OwnAttempt(reads[s])' /\ Follows(reads[s])'
      OBVIOUS
    <3>1. reads'[s] = IF s = r THEN q ELSE reads[s]
      BY <2>4 DEF ConnectionTypes
    <3>2. PICK t : t = reads[s] /\ OwnAttempt(t) /\ Follows(t)
      OBVIOUS
    <3>3. OwnAttempt(t)'
      BY <2>8, <3>2, OwnAttemptStays
    <3>4. PICK u : u = reads'[s] /\ OwnAttempt(u)' /\ Follows(u)
      BY <2>2, <2>9, <3>1, <3>2, <3>3
    <3> QED
      BY <3>4 DEF OwnAttempt, Ended, Follows
  <2> QED
    BY <2>5, <2>6, <2>7, <2>10
<1> QED
  BY <1>3, <1>4, <1>5 DEF Call

LEMMA StartReadKeeps ==
  ASSUME ConnectionInv, NEW r \in Readers, StartRead(r)
  PROVE  ConnectionInv'
<1>1. Idle \in Reads /\ Idle.step # "done" /\ Follows(Idle)
  BY DEF Idle, Reads, Steps, Pages, Follows
<1> QED
  BY <1>1, CallKeeps DEF StartRead

\* A read whose step alone changes, and not to done.
LEMMA StepMoves ==
  ASSUME ConnectionInv, NEW r \in Readers,
         NEW step \in {"calling", "failed", "drifted"},
         reads[r].step \in {"waiting", "calling"},
         reads' = [reads EXCEPT ![r].step = step],
         UNCHANGED <<attempts, client, connection, closer, lateFrom, nextOf>>
  PROVE  ConnectionInv'
<1>1. PICK read \in Reads : read = reads[r]
  BY DEF ConnectionInv, ConnectionTypes
<1>2. PICK q : q = [read EXCEPT !.step = step]
  OBVIOUS
<1>3. /\ q \in Reads /\ q.step = step /\ q.on = read.on /\ q.past = read.past
      /\ q.pages = read.pages /\ q.cursor = read.cursor
      /\ q.cursors = read.cursors
  BY <1>2 DEF Reads, Steps
<1>4. OwnAttempt(q) /\ Follows(q)
  BY <1>1, <1>3 DEF ConnectionInv, OwnAttempt, Follows
<1>5. reads' = [reads EXCEPT ![r] = q]
  BY <1>1, <1>2 DEF ConnectionInv, ConnectionTypes
<1> QED
  BY <1>3, <1>4, <1>5, OneReadMoves

LEMMA GoOnKeeps ==
  ASSUME ConnectionInv, NEW r \in Readers, GoOn(r)
  PROVE  ConnectionInv'
<1>1. PICK step \in {"failed", "calling"} :
        reads' = [reads EXCEPT ![r].step = step]
  BY DEF GoOn
<1> QED
  BY <1>1, StepMoves DEF GoOn

LEMMA CallFailsKeeps ==
  ASSUME ConnectionInv, NEW r \in Readers, CallFails(r)
  PROVE  ConnectionInv'
  BY StepMoves DEF CallFails

LEMMA PageAnsweredKeeps ==
  ASSUME ConnectionInv, NEW r \in Readers, PageAnswered(r)
  PROVE  ConnectionInv'
<1>1. PICK read \in Reads : read = reads[r]
  BY DEF ConnectionInv, ConnectionTypes
<1>2. /\ read.step = "calling" /\ Follows(read) /\ OwnAttempt(read)
      /\ read.pages \in Seq(Pages) /\ read.cursors \subseteq Cursors
  BY <1>1 DEF PageAnswered, ConnectionInv, Reads
<1>3. read.cursor \in Pages
  BY <1>2 DEF Follows, Pages
<1>4. PICK next : next = nextOf[read.cursor]
  OBVIOUS
<1>5. next \in Cursors \cup {NoMore}
  BY <1>3, <1>4 DEF ConnectionInv, ConnectionTypes
<1>6. PICK turnedPages : turnedPages = Append(read.pages, read.cursor)
  OBVIOUS
<1>7. /\ turnedPages \in Seq(Pages) /\ Len(turnedPages) = Len(read.pages) + 1
      /\ Len(read.pages) \in Nat /\ turnedPages # <<>>
      /\ DOMAIN turnedPages = 1..(Len(read.pages) + 1)
      /\ DOMAIN read.pages = 1..Len(read.pages)
      /\ turnedPages[Len(read.pages) + 1] = read.cursor
      /\ \A i \in DOMAIN read.pages : turnedPages[i] = read.pages[i]
  BY <1>2, <1>3, <1>6
\* The page that was answered is a new one and follows the others.
<1>8. /\ \A i, j \in DOMAIN turnedPages : i # j =>
           turnedPages[i] # turnedPages[j]
      /\ \A i \in 2..Len(turnedPages) :
           turnedPages[i] = nextOf[turnedPages[i - 1]]
      /\ \A i \in DOMAIN turnedPages :
           turnedPages[i] \in {FirstPage} \cup read.cursors
  <2>1. /\ \A i \in DOMAIN read.pages : read.pages[i] # read.cursor
        /\ read.cursor \in {FirstPage} \cup read.cursors
        /\ read.pages # <<>> => read.cursor = nextOf[read.pages[Len(read.pages)]]
        /\ \A i, j \in DOMAIN read.pages : i # j => read.pages[i] # read.pages[j]
        /\ \A i \in 2..Len(read.pages) :
             read.pages[i] = nextOf[read.pages[i - 1]]
        /\ \A i \in DOMAIN read.pages :
             read.pages[i] \in {FirstPage} \cup read.cursors
    BY <1>2 DEF Follows
  <2>0. \A i \in DOMAIN turnedPages :
          \/ i \in DOMAIN read.pages /\ turnedPages[i] = read.pages[i]
          \/ i = Len(read.pages) + 1 /\ turnedPages[i] = read.cursor
    BY <1>7
  <2>2. \A i, j \in DOMAIN turnedPages : i # j =>
          turnedPages[i] # turnedPages[j]
    BY <2>0, <2>1
  <2>3. \A i \in 2..Len(turnedPages) :
          turnedPages[i] = nextOf[turnedPages[i - 1]]
    <3> SUFFICES ASSUME NEW i \in 2..Len(turnedPages)
                 PROVE  turnedPages[i] = nextOf[turnedPages[i - 1]]
      OBVIOUS
    <3>1. CASE i = Len(read.pages) + 1
      <4>1. read.pages # <<>> /\ i - 1 = Len(read.pages)
        BY <1>2, <1>7, <3>1
      <4> QED
        BY <1>7, <2>1, <3>1, <4>1
    <3>2. CASE i # Len(read.pages) + 1
      <4>1. i \in 2..Len(read.pages) /\ i - 1 \in DOMAIN read.pages
            /\ i \in DOMAIN read.pages
        BY <1>7, <3>2
      <4> QED
        BY <1>7, <2>1, <4>1
    <3> QED
      BY <3>1, <3>2
  <2>4. \A i \in DOMAIN turnedPages :
          turnedPages[i] \in {FirstPage} \cup read.cursors
    BY <2>0, <2>1
  <2> QED
    BY <2>2, <2>3, <2>4
<1>9. CASE /\ next = NoMore
           /\ reads' = [reads EXCEPT ![r] =
                [read EXCEPT !.step = "done",
                             !.pages = Append(@, read.cursor)]]
           /\ UNCHANGED <<attempts, connection>>
  <2>1. PICK q : q = [read EXCEPT !.step = "done", !.pages = turnedPages]
    OBVIOUS
  <2>2. /\ q \in Reads /\ q.step = "done" /\ q.on = read.on
        /\ q.past = read.past /\ q.pages = turnedPages
        /\ q.cursors = read.cursors
    BY <1>7, <2>1 DEF Reads, Steps
  <2>3. OwnAttempt(q)
    BY <1>2, <2>2 DEF OwnAttempt
  <2>4. Follows(q)
    BY <1>4, <1>7, <1>8, <1>9, <2>2 DEF Follows
  <2>5. reads' = [reads EXCEPT ![r] = q]
    BY <1>6, <1>9, <2>1
  <2> QED
    BY <1>9, <2>2, <2>3, <2>4, <2>5, OneReadMoves DEF PageAnswered
<1>10. CASE /\ reads' = [reads EXCEPT ![r].step = "drifted"]
            /\ UNCHANGED <<attempts, connection>>
  BY <1>1, <1>2, <1>10, StepMoves DEF PageAnswered
<1>11. CASE /\ next \notin read.cursors \cup {NoMore}
            /\ Call(r, [read EXCEPT !.pages = Append(@, read.cursor),
                                    !.cursor = next,
                                    !.cursors = @ \cup {next}])
  <2>1. PICK q : q = [read EXCEPT !.pages = turnedPages, !.cursor = next,
                                  !.cursors = read.cursors \cup {next}]
    OBVIOUS
  <2>2. next \in Cursors /\ next # FirstPage
    BY <1>5, <1>11, ConnectionAssumption
  <2>3. /\ q \in Reads /\ q.step = "calling" /\ q.pages = turnedPages
        /\ q.cursor = next /\ q.cursors = read.cursors \cup {next}
    BY <1>2, <1>7, <2>1, <2>2 DEF Reads, Steps, Pages
  <2>4. Follows(q)
    BY <1>4, <1>7, <1>8, <1>11, <2>2, <2>3 DEF Follows
  <2>5. Call(r, q)
    BY <1>6, <1>11, <2>1
  <2> QED
    BY <2>3, <2>4, <2>5, CallKeeps DEF PageAnswered
<1> QED
  BY <1>1, <1>4, <1>9, <1>10, <1>11 DEF PageAnswered

-----------------------------------------------------------------------------
(***************************************************************************)
(* The properties.                                                         *)
(***************************************************************************)
LEMMA Stuttering == ConnectionInv /\ UNCHANGED connectionVars => ConnectionInv'
  BY DEF ConnectionInv, connectionVars, ConnectionTypes, OneAttemptAtATime, Younger, OwnAttempt,
         Ended, Follows

LEMMA ConnectionGoesOn == ConnectionInv /\ [ConnectionNext]_connectionVars => ConnectionInv'
  BY Stuttering, StartReadKeeps, GoOnKeeps, CallFailsKeeps, PageAnsweredKeeps,
     AttemptSucceedsKeeps, AttemptFailsKeeps, FailedAttemptEndsKeeps,
     CloseKeeps, CloseGoesOnKeeps,
     ClientClosedKeeps DEF ConnectionNext

\* ConnectionInv holds in every state of the connection.
THEOREM ConnectionInvariance == ConnectionSpec => []ConnectionInv
  BY ConnectionBegins, ConnectionGoesOn, PTL DEF ConnectionSpec

\* close leaves no client that nobody has, later calls get attempts of their
\* own, and a read that is done has the provider's pages.
THEOREM ReadsAreSound == ConnectionSpec => []ReadsSound
<1>1. ConnectionInv => NoClientLost
  BY DEF ConnectionInv, ConnectionTypes, OneAttemptAtATime, Younger, NoClientLost
<1>2. ConnectionInv => FailuresAreOwn
  BY DEF ConnectionInv, OwnAttempt, FailuresAreOwn
<1>3. ConnectionInv => ReadsWhole
  BY DEF ConnectionInv, Follows, ReadsWhole
<1> QED
  BY <1>1, <1>2, <1>3, ConnectionInvariance, PTL DEF ReadsSound

HIDE DEF UnderWay

(***************************************************************************)
(* The requests.                                                           *)
(***************************************************************************)
Cookies == Sessions \cup {SignedOut}
Verified == Int \cup {NoPasskey}
Kinds == {"export", "delete", "refresh", "rule"}
OnItsWay == {"started", "tokened", "forwarded", "authorized", "looked"}

Calls == [kind : Kinds, press : Nat, at : OnItsWay \cup {"done", "failed"},
          token : Cookies, by : Cookies, passkey : Verified, found : BOOLEAN]

RequestsTypes ==
  /\ cookie \in Cookies /\ passkeyAt \in [Sessions -> Verified]
  /\ moment \in Int /\ openJob \in BOOLEAN
  /\ pressed \in Nat /\ phrases \in Nat /\ lostAnswers \in Nat
  /\ requests \subseteq Calls /\ IsFiniteSet(performed)

\* A call that passed the API's checks is the owner's, with the token of its
\* own session.
CallSound(c) ==
  /\ c.press \in 1..pressed
  /\ c.found => c.kind = "refresh"
  /\ c.at \in {"authorized", "looked"} =>
       c.by \in OwnerSessions /\ c.token = c.by
  /\ c.at = "looked" => c.kind = "refresh"

\* An action of a call is performed once, between its stages.
CallTied(c) ==
  /\ c.at \in OnItsWay => ~Done(c.press)
  /\ c.at = "done" => Done(c.press)
  /\ c.at = "failed" /\ lostAnswers = 0 => ~Done(c.press)
  /\ \A p \in performed : p.press = c.press => p.kind = c.kind

Ties ==
  /\ \A c \in requests : CallSound(c) /\ CallTied(c)
  /\ \A c, d \in requests : c.press = d.press => c = d

PerformedSound ==
  \A p \in performed :
    /\ p.press \in 1..pressed
    /\ p.kind \in Sensitive =>
         /\ p.by \in OwnerSessions /\ p.token = p.by
         /\ p.passkey # NoPasskey /\ p.moment - p.passkey <= PasskeyFor

\* One export or deletion at a time, and the phrase stays for a deletion.
OneAtATime ==
  /\ \A c \in requests :
       /\ c.kind \in Sensitive => pendingData
       /\ c.kind = "delete" => typed
  /\ \A c, d \in requests :
       c.kind \in Sensitive /\ d.kind \in Sensitive => c = d

Messages == {dataMessage, ruleMessage, refreshState}

MessageTrue(m) ==
  /\ m.of \in Nat /\ m.of <= pressed
  /\ m.says \in {"done", "coalesced"} => Done(m.of)
  /\ m.says \in {"not_done", "error"} =>
       /\ \A c \in requests : c.press # m.of
       /\ lostAnswers = 0 => ~Done(m.of)

\* The rules of the calls that are over.
RulesListed ==
  lostAnswers = 0 =>
    saved = {n \in 1..pressed :
               /\ \E p \in performed : p.kind = "rule" /\ p.press = n
               /\ \A c \in requests : c.press # n}

\* A phrase is spent when the deletion is performed, before it is cleared.
Deletions == {p \in performed : p.kind = "delete"}
Spent == \E c \in requests : c.kind = "delete" /\ Done(c.press)
PhrasesCounted ==
  Cardinality(Deletions) + (IF typed /\ ~Spent THEN 1 ELSE 0) <= phrases

RequestsInv ==
  /\ RequestsTypes /\ Ties /\ PerformedSound /\ OneAtATime
  /\ \A m \in Messages : MessageTrue(m)
  /\ RulesListed /\ PhrasesCounted

LEMMA RequestsInitInv == RequestsInit => RequestsInv
<1> SUFFICES ASSUME RequestsInit PROVE RequestsInv
  OBVIOUS
<1>1. /\ requests = {} /\ performed = {} /\ pressed = 0 /\ saved = {}
      /\ phrases = 0 /\ lostAnswers = 0 /\ typed = FALSE /\ moment = 0
  BY DEF RequestsInit
<1>2. RequestsTypes
  <2>1. cookie \in Cookies
    BY DEF RequestsInit, Cookies, Sessions
  <2>2. passkeyAt \in [Sessions -> Verified]
    BY DEF RequestsInit, Verified
  <2>3. IsFiniteSet(performed)
    BY <1>1, FS_EmptySet
  <2>4. openJob \in BOOLEAN /\ requests \subseteq Calls
    BY <1>1 DEF RequestsInit
  <2> QED
    BY <1>1, <2>1, <2>2, <2>3, <2>4 DEF RequestsTypes
<1>3. Ties /\ PerformedSound /\ OneAtATime
  BY <1>1 DEF Ties, PerformedSound, OneAtATime
<1>4. \A m \in Messages : MessageTrue(m)
  BY <1>1 DEF RequestsInit, Messages, MessageTrue, Quiet, Says
<1>5. RulesListed
  BY <1>1 DEF RulesListed
<1>6. PhrasesCounted
  <2>1. Deletions = {}
    BY <1>1 DEF Deletions
  <2>2. Cardinality(Deletions) = 0
    BY <2>1, FS_EmptySet
  <2> QED
    BY <1>1, <2>2 DEF PhrasesCounted
<1> QED
  BY <1>2, <1>3, <1>4, <1>5, <1>6 DEF RequestsInv

(***************************************************************************)
(* Around the calls.                                                       *)
(***************************************************************************)
\* What a step leaves alone, if it is none of a call.
LEMMA CallsApart ==
  ASSUME RequestsInv, RequestsTypes',
         UNCHANGED <<typed, pendingData, dataMessage, refreshState,
                     ruleMessage, saved, performed, requests, pressed,
                     lostAnswers, phrases>>
  PROVE  RequestsInv'
<1>1. Ties' /\ PerformedSound' /\ OneAtATime'
  BY DEF RequestsInv, Ties, CallSound, CallTied, Done, PerformedSound, OneAtATime
<1>2. (\A m \in Messages : MessageTrue(m))'
  BY DEF RequestsInv, Messages, MessageTrue, Done
<1>3. RulesListed' /\ PhrasesCounted'
  BY DEF RequestsInv, RulesListed, PhrasesCounted, Deletions, Spent, Done
<1> QED
  BY <1>1, <1>2, <1>3 DEF RequestsInv

LEMMA AroundKeeps ==
  ASSUME RequestsInv,
         \/ \E s \in Sessions \cup {SignedOut} : SwitchSession(s)
         \/ VerifyPasskey \/ PassMoment \/ EndJob \/ PreviewsAnswered
         \/ UNCHANGED requestsVars
  PROVE  RequestsInv'
<1>1. RequestsTypes
  BY DEF RequestsInv
<1>2. CASE \E s \in Sessions \cup {SignedOut} : SwitchSession(s)
  <2>1. RequestsTypes'
    BY <1>1, <1>2 DEF SwitchSession, unchangedCalls, server, RequestsTypes, Cookies
  <2> QED
    BY <1>2, <2>1, CallsApart
       DEF SwitchSession, unchangedCalls, dataControls, otherControls, server
<1>3. CASE VerifyPasskey
  <2>1. passkeyAt' \in [Sessions -> Verified]
    BY <1>1, <1>3 DEF VerifyPasskey, RequestsTypes, Verified
  <2>2. RequestsTypes'
    BY <1>1, <1>3, <2>1 DEF VerifyPasskey, unchangedCalls, server, RequestsTypes
  <2> QED
    BY <1>3, <2>2, CallsApart
       DEF VerifyPasskey, unchangedCalls, dataControls, otherControls, server
<1>4. CASE PassMoment
  <2>1. moment' \in Int
    BY <1>1, <1>4 DEF PassMoment, RequestsTypes
  <2>2. RequestsTypes'
    BY <1>1, <1>4, <2>1 DEF PassMoment, unchangedCalls, server, RequestsTypes
  <2> QED
    BY <1>4, <2>2, CallsApart
       DEF PassMoment, unchangedCalls, dataControls, otherControls, server
<1>5. CASE EndJob
  <2>1. RequestsTypes'
    BY <1>1, <1>5 DEF EndJob, around, RequestsTypes
  <2> QED
    BY <1>5, <2>1, CallsApart DEF EndJob, dataControls, otherControls
<1>6. CASE PreviewsAnswered
  <2>1. RequestsTypes'
    BY <1>1, <1>6 DEF PreviewsAnswered, around, server, RequestsTypes
  <2> QED
    BY <1>6, <2>1, CallsApart DEF PreviewsAnswered, otherControls, server
<1>7. CASE UNCHANGED requestsVars
  <2>1. RequestsTypes'
    BY <1>1, <1>7 DEF requestsVars, around, server, RequestsTypes
  <2> QED
    BY <1>7, <2>1, CallsApart
       DEF requestsVars, dataControls, otherControls, server
<1> QED
  BY <1>2, <1>3, <1>4, <1>5, <1>6, <1>7

\* The phrase is typed when no deletion is under way.
LEMMA PhraseKeeps ==
  ASSUME RequestsInv, TypePhrase
  PROVE  RequestsInv'
<1>1. RequestsTypes'
  BY DEF TypePhrase, around, server, RequestsInv, RequestsTypes
<1>2. Ties' /\ PerformedSound'
  BY DEF TypePhrase, server, RequestsInv, Ties, CallSound, CallTied, Done,
         PerformedSound
<1>3. OneAtATime'
  BY DEF TypePhrase, RequestsInv, OneAtATime, Sensitive
<1>4. (\A m \in Messages : MessageTrue(m))'
  BY DEF TypePhrase, otherControls, server, RequestsInv, Messages, MessageTrue, Done
<1>5. RulesListed'
  BY DEF TypePhrase, otherControls, server, RequestsInv, RulesListed
<1>6. PhrasesCounted'
  <2>1. PICK n : n = Cardinality(Deletions)
    OBVIOUS
  <2>2. Deletions' = Deletions
    BY DEF TypePhrase, server, Deletions
  <2>3. n = Cardinality(Deletions)'
    BY <2>1, <2>2
  <2>4. n \in Nat
    <3>1. IsFiniteSet(Deletions)
      BY FS_Subset DEF RequestsInv, RequestsTypes, Deletions
    <3> QED
      BY <2>1, <3>1, FS_CardinalityType
  <2>5. n <= phrases
    <3>1. PhrasesCounted /\ ~typed
      BY DEF RequestsInv, TypePhrase
    <3> QED
      BY <2>1, <2>4, <3>1 DEF PhrasesCounted
  <2>6. phrases' = phrases + 1 /\ phrases \in Nat
    BY DEF TypePhrase, RequestsInv, RequestsTypes
  <2> QED
    BY <2>3, <2>4, <2>5, <2>6 DEF PhrasesCounted
<1> QED
  BY <1>1, <1>2, <1>3, <1>4, <1>5, <1>6 DEF RequestsInv

(***************************************************************************)
(* A call begins.                                                          *)
(***************************************************************************)
CallBegun(kind) ==
  [kind |-> kind, press |-> pressed + 1, at |-> "started",
   token |-> SignedOut, by |-> SignedOut, passkey |-> NoPasskey,
   found |-> FALSE]

\* No call and nothing performed has the number of the new one.
LEMMA NumberUnused ==
  ASSUME RequestsInv
  PROVE  /\ \A c \in requests : c.press \in Nat /\ c.press <= pressed
         /\ \A p \in performed : p.press # pressed + 1
         /\ ~Done(pressed + 1)
<1>1. pressed \in Nat
  BY DEF RequestsInv, RequestsTypes
<1>2. \A c \in requests : c.press \in Nat /\ c.press <= pressed
  BY DEF RequestsInv, RequestsTypes, Ties, CallSound, Calls
<1>3. \A p \in performed : p.press # pressed + 1
  BY <1>1 DEF RequestsInv, PerformedSound
<1> QED
  BY <1>2, <1>3 DEF Done

\* The parts of the invariant that a new call leaves to the control.
LEMMA BeginKeeps ==
  ASSUME RequestsInv, NEW kind \in Kinds, BeginRequest(kind)
  PROVE  /\ RequestsTypes' /\ Ties' /\ PerformedSound'
         /\ \A m : MessageTrue(m) => MessageTrue(m)'
         /\ saved' = saved => RulesListed'
         /\ typed' = typed => PhrasesCounted'
         /\ requests' = requests \cup {CallBegun(kind)}
         /\ pressed' = pressed + 1 /\ performed' = performed
         /\ lostAnswers' = lostAnswers
<1>1. /\ requests' = requests \cup {CallBegun(kind)}
      /\ pressed' = pressed + 1 /\ performed' = performed
      /\ lostAnswers' = lostAnswers /\ phrases' = phrases
  BY DEF BeginRequest, CallBegun, server
<1>2. pressed \in Nat
  BY DEF RequestsInv, RequestsTypes
<1>3. PICK n, k : n = pressed + 1 /\ k = CallBegun(kind)
  OBVIOUS
<1>4. /\ k \in Calls /\ k.press = n /\ k.kind = kind /\ k.at = "started"
      /\ n \in Nat
  BY <1>2, <1>3 DEF CallBegun, Calls, OnItsWay, Cookies, Verified
<1>5. /\ \A c \in requests : c.press \in Nat /\ c.press <= pressed
                               /\ c.press # n
      /\ \A p \in performed : p.press # n
      /\ ~Done(n)
  BY <1>2, <1>3, NumberUnused
<1>6. RequestsTypes'
  <2>1. requests' \subseteq Calls
    BY <1>1, <1>3, <1>4 DEF RequestsInv, RequestsTypes
  <2> QED
    BY <1>1, <1>3, <1>4, <2>1 DEF BeginRequest, around, server, RequestsInv, RequestsTypes
<1>7. Ties'
  <2>1. \A c \in requests : (CallSound(c) /\ CallTied(c))'
    BY <1>1, <1>2, <1>5 DEF RequestsInv, Ties, CallSound, CallTied, Done
  <2>2. CallSound(k)'
    <3>1. k.found = FALSE /\ k.at = "started"
      BY <1>3 DEF CallBegun
    <3>2. k.press \in 1..pressed'
      BY <1>1, <1>2, <1>3, <1>4
    <3> QED
      BY <3>1, <3>2 DEF CallSound
  <2>3. CallTied(k)'
    BY <1>1, <1>3, <1>4, <1>5 DEF CallTied, Done
  <2>4. \A c, d \in requests' : c.press = d.press => c = d
    BY <1>1, <1>3, <1>4, <1>5 DEF RequestsInv, Ties
  <2> QED
    BY <1>1, <1>3, <2>1, <2>2, <2>3, <2>4 DEF Ties
<1>8. PerformedSound'
  BY <1>1, <1>2 DEF RequestsInv, PerformedSound
<1>9. ASSUME NEW m, MessageTrue(m) PROVE MessageTrue(m)'
  <2>1. m.of \in Nat /\ m.of <= pressed /\ m.of # n
    BY <1>2, <1>3, <1>9 DEF MessageTrue
  <2>2. m.of <= pressed'
    BY <1>1, <1>2, <2>1
  <2>3. m.says \in {"not_done", "error"} => \A c \in requests' : c.press # m.of
    BY <1>1, <1>3, <1>4, <1>9, <2>1 DEF MessageTrue
  <2> QED
    BY <1>1, <1>9, <2>1, <2>2, <2>3 DEF MessageTrue, Done
<1>10. ASSUME saved' = saved PROVE RulesListed'
  <2> SUFFICES ASSUME lostAnswers = 0
               PROVE  saved = {i \in 1..pressed' :
                        /\ \E p \in performed : p.kind = "rule" /\ p.press = i
                        /\ \A c \in requests' : c.press # i}
    BY <1>1, <1>10 DEF RulesListed
  <2>1. saved = {i \in 1..pressed :
                   /\ \E p \in performed : p.kind = "rule" /\ p.press = i
                   /\ \A c \in requests : c.press # i}
    BY DEF RequestsInv, RulesListed
  <2>2. \A i \in 1..pressed : i \in 1..pressed' /\ i # n
    BY <1>1, <1>2, <1>3
  <2>3. \A i \in 1..pressed' : i \in 1..pressed \/ i = n
    BY <1>1, <1>2, <1>3
  <2> QED
    BY <1>1, <1>3, <1>4, <1>5, <2>1, <2>2, <2>3
<1>11. ASSUME typed' = typed PROVE PhrasesCounted'
  <2>1. Spent' <=> Spent
    BY <1>1, <1>3, <1>4, <1>5 DEF Spent, Done
  <2>2. PICK D : D = Deletions /\ D = Deletions'
    BY <1>1 DEF Deletions
  <2>3. Cardinality(Deletions)' = Cardinality(Deletions)
    BY <2>2
  <2> QED
    BY <1>1, <1>11, <2>1, <2>3 DEF RequestsInv, PhrasesCounted
<1> QED
  BY <1>1, <1>6, <1>7, <1>8, <1>9, <1>10, <1>11

\* An export or a deletion begins when no other is under way.
LEMMA DataCallKeeps ==
  ASSUME RequestsInv, exportData \/ deleteData
  PROVE  RequestsInv'
<1>1. PICK kind \in Sensitive :
        /\ BeginRequest(kind) /\ (kind = "delete" => typed)
        /\ ~pendingData /\ pendingData' = TRUE /\ dataMessage' = Quiet
        /\ UNCHANGED <<typed, refreshState, ruleMessage, saved>>
  BY DEF exportData, deleteData, Sensitive, otherControls
<1>2. kind \in Kinds
  BY DEF Sensitive, Kinds
<1>3. /\ RequestsTypes' /\ Ties' /\ PerformedSound' /\ RulesListed' /\ PhrasesCounted'
      /\ \A m : MessageTrue(m) => MessageTrue(m)'
      /\ requests' = requests \cup {CallBegun(kind)}
  BY <1>1, <1>2, BeginKeeps
<1>4. OneAtATime'
  <2>1. CallBegun(kind).kind = kind
    BY DEF CallBegun
  <2>2. \A c \in requests : c.kind \notin Sensitive /\ c.kind # "delete"
    BY <1>1 DEF RequestsInv, OneAtATime, Sensitive
  <2>3. PICK k : k = CallBegun(kind)
    OBVIOUS
  <2> QED
    BY <1>1, <1>3, <2>1, <2>2, <2>3 DEF OneAtATime
<1>5. (\A m \in Messages : MessageTrue(m))'
  <2>1. MessageTrue(Quiet)
    BY DEF MessageTrue, Quiet, Says, RequestsInv, RequestsTypes
  <2>2. \A m \in Messages' : MessageTrue(m)
    BY <1>1, <2>1 DEF RequestsInv, Messages
  <2> QED
    BY <1>3, <2>2
<1> QED
  BY <1>3, <1>4, <1>5 DEF RequestsInv

LEMMA OtherCallKeeps ==
  ASSUME RequestsInv, requestRefresh \/ saveRule
  PROVE  RequestsInv'
<1>1. PICK kind \in Kinds \ Sensitive :
        /\ BeginRequest(kind)
        /\ UNCHANGED <<typed, pendingData, dataMessage, saved>>
        /\ \/ refreshState' = Says("queued", pressed + 1)
                /\ UNCHANGED ruleMessage
           \/ ruleMessage' = Quiet /\ UNCHANGED refreshState
  BY DEF requestRefresh, saveRule, Sensitive, Kinds, dataControls
<1>2. /\ RequestsTypes' /\ Ties' /\ PerformedSound' /\ RulesListed' /\ PhrasesCounted'
      /\ \A m : MessageTrue(m) => MessageTrue(m)'
      /\ requests' = requests \cup {CallBegun(kind)}
      /\ pressed' = pressed + 1
  BY <1>1, BeginKeeps
<1>3. OneAtATime'
  <2>1. CallBegun(kind).kind = kind /\ kind # "delete"
    BY <1>1 DEF CallBegun, Sensitive
  <2>2. PICK k : k = CallBegun(kind)
    OBVIOUS
  <2> QED
    BY <1>1, <1>2, <2>1, <2>2 DEF RequestsInv, OneAtATime
<1>4. (\A m \in Messages : MessageTrue(m))'
  <2>1. pressed \in Nat
    BY DEF RequestsInv, RequestsTypes
  <2>2. MessageTrue(Quiet)
    BY <2>1 DEF MessageTrue, Quiet, Says
  <2>3. PICK m : m = Says("queued", pressed + 1)
    OBVIOUS
  <2>4. MessageTrue(m)'
    BY <1>2, <2>1, <2>3 DEF MessageTrue, Says
  <2>5. \A o \in Messages' : o = m \/ MessageTrue(o)
    BY <1>1, <2>2, <2>3 DEF RequestsInv, Messages
  <2> QED
    BY <1>2, <2>4, <2>5
<1> QED
  BY <1>2, <1>3, <1>4 DEF RequestsInv

(***************************************************************************)
(* A call on its way.                                                      *)
(***************************************************************************)
\* A call goes from one stage to the next, or fails, and nothing is done.
LEMMA StageKeeps ==
  ASSUME RequestsInv, NEW c \in requests, NEW d \in Calls, ReplaceCall(c, d),
         d.press = c.press, d.kind = c.kind,
         c.at \in OnItsWay, d.at \in OnItsWay \cup {"failed"}, CallSound(d),
         UNCHANGED <<server, lostAnswers>>, unchangedScreens
  PROVE  RequestsInv'
<1>1. /\ requests' = (requests \ {c}) \cup {d}
      /\ UNCHANGED <<performed, openJob, lostAnswers, dataControls,
                     otherControls, around, pressed, phrases>>
  BY DEF ReplaceCall, unchangedScreens, server
<1>2. RequestsTypes'
  <2>1. requests' \subseteq Calls
    BY <1>1 DEF RequestsInv, RequestsTypes
  <2> QED
    BY <1>1, <2>1 DEF around, RequestsInv, RequestsTypes
<1>3. \A n : Done(n)' <=> Done(n)
  BY <1>1 DEF Done
<1>4. Ties'
  <2>1. CallTied(d)
    <3>1. CallTied(c)
      BY DEF RequestsInv, Ties
    <3> QED
      BY <3>1 DEF CallTied, OnItsWay
  <2>2. \A e \in requests' : CallSound(e) /\ CallTied(e)
    BY <1>1, <2>1 DEF RequestsInv, Ties
  <2>3. \A e \in requests' : (CallSound(e) /\ CallTied(e))'
    BY <1>1, <2>2 DEF CallSound, CallTied, Done
  <2>4. \A e, f \in requests' : e.press = f.press => e = f
    BY <1>1 DEF RequestsInv, Ties
  <2> QED
    BY <2>3, <2>4 DEF Ties
<1>5. PerformedSound'
  BY <1>1 DEF RequestsInv, PerformedSound
<1>6. OneAtATime'
  <2>1. pendingData' = pendingData /\ typed' = typed
    BY <1>1 DEF dataControls
  <2> QED
    BY <1>1, <2>1 DEF RequestsInv, OneAtATime
<1>7. \A n : (\A e \in requests' : e.press # n)
               <=> (\A e \in requests : e.press # n)
  BY <1>1
<1>8. (\A m \in Messages : MessageTrue(m))'
  <2>1. Messages' = Messages
    BY <1>1 DEF Messages, dataControls, otherControls
  <2>2. \A m : MessageTrue(m) => MessageTrue(m)'
    BY <1>1, <1>3, <1>7 DEF MessageTrue
  <2> QED
    BY <2>1, <2>2 DEF RequestsInv
<1>9. RulesListed'
  BY <1>1, <1>7 DEF RequestsInv, RulesListed, otherControls
<1>10. PhrasesCounted'
  <2>1. Spent' <=> Spent
    BY <1>1, <1>3 DEF Spent
  <2>2. PICK D : D = Deletions /\ D = Deletions'
    BY <1>1 DEF Deletions
  <2>3. Cardinality(Deletions)' = Cardinality(Deletions)
    BY <2>2
  <2> QED
    BY <1>1, <2>1, <2>3 DEF dataControls, RequestsInv, PhrasesCounted
<1> QED
  BY <1>2, <1>4, <1>5, <1>6, <1>8, <1>9, <1>10 DEF RequestsInv

\* A call that is over keeps its number and its kind.
LEMMA OverForms ==
  ASSUME NEW c \in Calls, NEW how \in {"done", "failed"}
  PROVE  /\ Over(c, how) \in Calls /\ Over(c, how).press = c.press
         /\ Over(c, how).kind = c.kind /\ Over(c, how).at = how
         /\ Over(c, how).found = c.found
BY DEF Over, Calls, Cookies, Verified

LEMMA FailureKeeps ==
  ASSUME RequestsInv, NEW c \in requests, c.at \in OnItsWay,
         ReplaceCall(c, Over(c, "failed")),
         UNCHANGED <<server, lostAnswers>>, unchangedScreens
  PROVE  RequestsInv'
<1>1. PICK d : d = Over(c, "failed")
  OBVIOUS
<1>2. c \in Calls /\ CallSound(c)
  BY DEF RequestsInv, RequestsTypes, Ties
<1>3. /\ d \in Calls /\ d.press = c.press /\ d.kind = c.kind
      /\ d.at = "failed" /\ d.found = c.found
  BY <1>1, <1>2, OverForms
<1>4. CallSound(d)
  BY <1>2, <1>3 DEF CallSound
<1> QED
  BY <1>1, <1>3, <1>4, StageKeeps

LEMMA RequestFailsKeeps ==
  ASSUME RequestsInv, NEW c \in requests, RequestFails(c)
  PROVE  RequestsInv'
<1>1. c.at \in OnItsWay
  BY DEF RequestFails, RequestsInv, RequestsTypes, Calls
<1> QED
  BY <1>1, FailureKeeps DEF RequestFails

LEMMA FetchTokenKeeps ==
  ASSUME RequestsInv, NEW c \in requests, FetchToken(c)
  PROVE  RequestsInv'
<1>1. c \in Calls /\ CallSound(c) /\ cookie \in Cookies
  BY DEF RequestsInv, RequestsTypes, Ties
<1>2. c.at = "started" /\ UNCHANGED <<server, lostAnswers>> /\ unchangedScreens
  BY DEF FetchToken
<1>3. CASE Admitted(cookie)
  <2>1. PICK d : d = [c EXCEPT !.at = "tokened", !.token = cookie]
    OBVIOUS
  <2>2. /\ d \in Calls /\ d.press = c.press /\ d.kind = c.kind
        /\ d.at = "tokened" /\ d.found = c.found
    BY <1>1, <2>1 DEF Calls, OnItsWay
  <2>3. CallSound(d)
    BY <1>1, <2>2 DEF CallSound
  <2>4. ReplaceCall(c, d)
    BY <1>3, <2>1 DEF FetchToken
  <2> QED
    BY <1>2, <2>2, <2>3, <2>4, StageKeeps DEF OnItsWay
<1>4. CASE ~Admitted(cookie)
  BY <1>2, <1>4, FailureKeeps DEF FetchToken, OnItsWay
<1> QED
  BY <1>3, <1>4

LEMMA ForwardKeeps ==
  ASSUME RequestsInv, NEW c \in requests, Forward(c)
  PROVE  RequestsInv'
<1>1. c \in Calls /\ CallSound(c) /\ cookie \in Cookies
  BY DEF RequestsInv, RequestsTypes, Ties
<1>2. PICK d : d = [c EXCEPT !.at = "forwarded", !.by = cookie]
  OBVIOUS
<1>3. /\ d \in Calls /\ d.press = c.press /\ d.kind = c.kind
      /\ d.at = "forwarded" /\ d.found = c.found
  BY <1>1, <1>2 DEF Calls, OnItsWay
<1>4. CallSound(d)
  BY <1>1, <1>3 DEF CallSound
<1> QED
  BY <1>2, <1>3, <1>4, StageKeeps DEF Forward, OnItsWay

\* The API admits the owner's session with a token of the same.
LEMMA AuthorizeKeeps ==
  ASSUME RequestsInv, NEW c \in requests, Authorize(c)
  PROVE  RequestsInv'
<1>1. c \in Calls /\ CallSound(c) /\ passkeyAt \in [Sessions -> Verified]
  BY DEF RequestsInv, RequestsTypes, Ties
<1>2. /\ c.at = "forwarded"
      /\ UNCHANGED <<server, lostAnswers>> /\ unchangedScreens
  BY DEF Authorize
<1>3. CASE Admitted(c.by) /\ verifyCsrfToken(c)
  <2>1. c.by \in OwnerSessions /\ c.token = c.by
    BY <1>3 DEF Admitted, verifyCsrfToken
  <2>2. passkeyAt[c.by] \in Verified
    BY <1>1, <2>1 DEF Sessions
  <2>3. PICK d : d = [c EXCEPT !.at = "authorized", !.passkey = passkeyAt[c.by]]
    OBVIOUS
  <2>4. /\ d \in Calls /\ d.press = c.press /\ d.kind = c.kind
        /\ d.at = "authorized" /\ d.by = c.by /\ d.token = c.token
        /\ d.found = c.found
    BY <1>1, <2>2, <2>3 DEF Calls, OnItsWay
  <2>5. CallSound(d)
    BY <1>1, <2>1, <2>4 DEF CallSound
  <2>6. ReplaceCall(c, d)
    BY <1>3, <2>3 DEF Authorize
  <2> QED
    BY <1>2, <2>4, <2>5, <2>6, StageKeeps DEF OnItsWay
<1>4. CASE ~(Admitted(c.by) /\ verifyCsrfToken(c))
  BY <1>2, <1>4, FailureKeeps DEF Authorize, OnItsWay
<1> QED
  BY <1>3, <1>4

LEMMA LookKeeps ==
  ASSUME RequestsInv, NEW c \in requests, LookForJob(c)
  PROVE  RequestsInv'
<1>1. c \in Calls /\ CallSound(c) /\ openJob \in BOOLEAN
  BY DEF RequestsInv, RequestsTypes, Ties
<1>2. PICK d : d = [c EXCEPT !.at = "looked", !.found = openJob]
  OBVIOUS
<1>3. /\ d \in Calls /\ d.press = c.press /\ d.kind = c.kind
      /\ d.at = "looked" /\ d.by = c.by /\ d.token = c.token
  BY <1>1, <1>2 DEF Calls, OnItsWay
<1>4. CallSound(d)
  BY <1>1, <1>3 DEF CallSound, LookForJob
<1> QED
  BY <1>2, <1>3, <1>4, StageKeeps DEF LookForJob, OnItsWay

LEMMA RequestRefuseKeeps ==
  ASSUME RequestsInv, NEW c \in requests, RefuseCall(c)
  PROVE  RequestsInv'
BY FailureKeeps DEF RefuseCall, OnItsWay

\* The server does what was asked; its answer may get lost.
LEMMA PerformKeeps ==
  ASSUME RequestsInv, NEW c \in requests, Perform(c)
  PROVE  RequestsInv'
<1> DEFINE new == [kind |-> c.kind, press |-> c.press, by |-> c.by,
                   token |-> c.token, passkey |-> c.passkey, moment |-> moment]
<1>1. /\ c \in Calls /\ CallSound(c) /\ CallTied(c)
      /\ \A e \in requests \ {c} : e.press # c.press
  BY DEF RequestsInv, RequestsTypes, Ties
<1>2. /\ c.at = (IF c.kind = "refresh" THEN "looked" ELSE "authorized")
      /\ Allowed(c)
  BY DEF Perform
<1>3. PICK how \in {"done", "failed"}, late \in {0, 1} :
        /\ ReplaceCall(c, Over(c, how)) /\ lostAnswers' = lostAnswers + late
        /\ how = "failed" => late = 1
  <2>1. lostAnswers = lostAnswers + 0
    BY DEF RequestsInv, RequestsTypes
  <2> QED
    BY <2>1 DEF Perform
<1>4. PICK d, p : d = Over(c, how) /\ p = new
  OBVIOUS
<1>5. /\ d \in Calls /\ d.press = c.press /\ d.kind = c.kind /\ d.at = how
      /\ d.found = c.found
  BY <1>1, <1>4, OverForms
<1>6. /\ p.kind = c.kind /\ p.press = c.press /\ p.by = c.by
      /\ p.token = c.token /\ p.passkey = c.passkey /\ p.moment = moment
  BY <1>4
<1>7. /\ requests' = (requests \ {c}) \cup {d}
      /\ performed' = performed \cup {p}
      /\ openJob' = (openJob \/ c.kind = "refresh")
      /\ UNCHANGED <<dataControls, otherControls, around, pressed, phrases>>
  BY <1>3, <1>4 DEF Perform, ReplaceCall, unchangedScreens
<1>8. ~Done(c.press) /\ c.at \in OnItsWay
  BY <1>1, <1>2 DEF CallTied, OnItsWay
<1>9. \A n : Done(n)' <=> Done(n) \/ n = c.press
  BY <1>6, <1>7 DEF Done
<1>10. lostAnswers' = 0 => lostAnswers = 0
  BY <1>3 DEF RequestsInv, RequestsTypes
<1>11. RequestsTypes'
  <2>1. requests' \subseteq Calls
    BY <1>5, <1>7 DEF RequestsInv, RequestsTypes
  <2>2. IsFiniteSet(performed')
    <3>1. IsFiniteSet(performed)
      BY DEF RequestsInv, RequestsTypes
    <3>2. IsFiniteSet(performed \cup {p})
      BY <3>1, FS_AddElement
    <3> QED
      BY <1>7, <3>2
  <2>3. lostAnswers' \in Nat
    BY <1>3 DEF RequestsInv, RequestsTypes
  <2>4. openJob' \in BOOLEAN
    BY <1>7
  <2> QED
    BY <1>7, <2>1, <2>2, <2>3, <2>4 DEF around, RequestsInv, RequestsTypes
<1>12. Ties'
  <2>1. ASSUME NEW e \in requests \ {c} PROVE (CallSound(e) /\ CallTied(e))'
    <3>1. CallSound(e) /\ CallTied(e) /\ e.press # c.press
      BY <1>1, <2>1 DEF RequestsInv, Ties
    <3>2. CallSound(e)'
      BY <1>7, <3>1 DEF CallSound
    <3>3. \A q \in performed' : q.press = e.press => q.kind = e.kind
      BY <1>6, <1>7, <3>1 DEF CallTied
    <3> QED
      BY <1>9, <1>10, <3>1, <3>2, <3>3 DEF CallTied
  <2>2. CallSound(d)'
    <3>1. d.at \notin {"authorized", "looked"}
      BY <1>5
    <3> QED
      BY <1>1, <1>5, <1>7, <3>1 DEF CallSound
  <2>3. CallTied(d)'
    <3>1. d.at \notin OnItsWay
      BY <1>5 DEF OnItsWay
    <3>2. d.at = "failed" => lostAnswers' # 0
      BY <1>3, <1>5 DEF RequestsInv, RequestsTypes
    <3>3. Done(d.press)'
      BY <1>5, <1>9
    <3>4. \A q \in performed' : q.press = d.press => q.kind = d.kind
      BY <1>1, <1>5, <1>6, <1>7 DEF CallTied
    <3> QED
      BY <3>1, <3>2, <3>3, <3>4 DEF CallTied
  <2>4. \A e, f \in requests' : e.press = f.press => e = f
    BY <1>1, <1>5, <1>7 DEF RequestsInv, Ties
  <2> QED
    BY <1>7, <2>1, <2>2, <2>3, <2>4 DEF Ties
<1>13. PerformedSound'
  <2>1. p.press \in 1..pressed
    BY <1>1, <1>6 DEF CallSound
  <2>2. ASSUME p.kind \in Sensitive
        PROVE  /\ p.by \in OwnerSessions /\ p.token = p.by
               /\ p.passkey # NoPasskey /\ p.moment - p.passkey <= PasskeyFor
    <3>1. c.kind \in Sensitive /\ c.kind # "refresh"
      BY <1>6, <2>2 DEF Sensitive
    <3>2. c.by \in OwnerSessions /\ c.token = c.by
      BY <1>1, <1>2, <3>1 DEF CallSound
    <3>3. hasRecentPasskey(c)
      BY <1>2, <3>1 DEF Allowed, ExportRoute, DeleteRoute, Sensitive
    <3> QED
      BY <1>6, <3>2, <3>3 DEF hasRecentPasskey
  <2> QED
    BY <1>7, <2>1, <2>2 DEF RequestsInv, PerformedSound
<1>14. OneAtATime'
  <2>1. pendingData' = pendingData /\ typed' = typed
    BY <1>7 DEF dataControls
  <2> QED
    BY <1>5, <1>7, <2>1 DEF RequestsInv, OneAtATime
<1>15. \A n : (\A e \in requests' : e.press # n)
                <=> (\A e \in requests : e.press # n)
  BY <1>5, <1>7
<1>16. (\A m \in Messages : MessageTrue(m))'
  <2>1. Messages' = Messages
    BY <1>7 DEF Messages, dataControls, otherControls
  <2>2. \A m : MessageTrue(m) => MessageTrue(m)'
    BY <1>7, <1>9, <1>10, <1>15 DEF MessageTrue
  <2> QED
    BY <2>1, <2>2 DEF RequestsInv
<1>17. RulesListed'
  <2> SUFFICES ASSUME lostAnswers' = 0
               PROVE  saved' = {n \in 1..pressed' :
                        /\ \E q \in performed' : q.kind = "rule" /\ q.press = n
                        /\ \A e \in requests' : e.press # n}
    BY DEF RulesListed
  <2>1. saved = {n \in 1..pressed :
                   /\ \E q \in performed : q.kind = "rule" /\ q.press = n
                   /\ \A e \in requests : e.press # n}
    BY <1>10 DEF RequestsInv, RulesListed
  <2>2. saved' = saved /\ pressed' = pressed
    BY <1>7 DEF otherControls
  <2>3. \A n : (\A e \in requests : e.press # n) => n # p.press
    BY <1>6
  <2> QED
    BY <1>7, <1>15, <2>1, <2>2, <2>3
<1>18. PhrasesCounted'
  <2>1. PICK D, n : D = Deletions /\ n = Cardinality(D)
    OBVIOUS
  <2>2. IsFiniteSet(D) /\ n \in Nat
    BY <2>1, FS_Subset, FS_CardinalityType DEF RequestsInv, RequestsTypes, Deletions
  <2>3. phrases' = phrases /\ phrases \in Nat /\ typed' = typed
    BY <1>7 DEF dataControls, RequestsInv, RequestsTypes
  <2>4. CASE c.kind = "delete"
    <3>1. typed /\ ~Spent
      BY <1>8, <2>4 DEF RequestsInv, OneAtATime, Spent, Sensitive
    <3>2. n + 1 <= phrases
      BY <2>1, <2>2, <3>1 DEF RequestsInv, PhrasesCounted
    <3>3. Deletions' = D \cup {p} /\ p \notin D
      BY <1>6, <1>7, <1>8, <2>1, <2>4 DEF Deletions, Done
    <3>4. Cardinality(D \cup {p}) = n + 1
      BY <2>1, <2>2, <3>3, FS_AddElement
    <3>5. Cardinality(Deletions)' = n + 1
      BY <3>3, <3>4
    <3>6. Spent'
      <4>1. d \in requests' /\ d.kind = "delete" /\ Done(d.press)'
        BY <1>5, <1>7, <1>9, <2>4
      <4> QED
        BY <4>1 DEF Spent
    <3> QED
      BY <2>2, <2>3, <3>2, <3>5, <3>6 DEF PhrasesCounted
  <2>5. CASE c.kind # "delete"
    <3>1. Deletions' = D
      BY <1>6, <1>7, <2>1, <2>5 DEF Deletions
    <3>2. Cardinality(Deletions)' = Cardinality(Deletions)
      BY <2>1, <3>1
    <3>3. Spent' <=> Spent
      <4>1. \A e \in requests \ {c} : Done(e.press)' <=> Done(e.press)
        BY <1>1, <1>9
      <4> QED
        BY <1>5, <1>7, <2>5, <4>1 DEF Spent
    <3> QED
      BY <2>3, <3>2, <3>3 DEF RequestsInv, PhrasesCounted
  <2> QED
    BY <2>4, <2>5
<1> QED
  BY <1>11, <1>12, <1>13, <1>14, <1>16, <1>17, <1>18 DEF RequestsInv

(***************************************************************************)
(* The answers.                                                            *)
(***************************************************************************)
\* A call that is answered is gone.
LEMMA AnswerParts ==
  ASSUME RequestsInv, NEW c \in requests, CallAnswered(c)
  PROVE  /\ requests' = requests \ {c}
         /\ UNCHANGED <<performed, openJob, around, pressed, lostAnswers,
                        phrases>>
         /\ RequestsTypes' /\ Ties' /\ PerformedSound'
         /\ \A m : MessageTrue(m) => MessageTrue(m)'
         /\ \A n : Done(n)' <=> Done(n)
         /\ \A e \in requests' : e.press # c.press
<1>1. /\ requests' = requests \ {c}
      /\ UNCHANGED <<performed, openJob, around, pressed, lostAnswers, phrases>>
  BY DEF CallAnswered, server
<1>2. \A n : Done(n)' <=> Done(n)
  BY <1>1 DEF Done
<1>3. RequestsTypes'
  BY <1>1 DEF around, RequestsInv, RequestsTypes
<1>4. Ties'
  <2>1. \A e \in requests' : CallSound(e) /\ CallTied(e)
    BY <1>1 DEF RequestsInv, Ties
  <2>2. \A e \in requests' : (CallSound(e) /\ CallTied(e))'
    BY <1>1, <1>2, <2>1 DEF CallSound, CallTied
  <2>3. \A e, f \in requests' : e.press = f.press => e = f
    BY <1>1 DEF RequestsInv, Ties
  <2> QED
    BY <2>2, <2>3 DEF Ties
<1>5. PerformedSound'
  BY <1>1 DEF RequestsInv, PerformedSound
<1>6. \A m : MessageTrue(m) => MessageTrue(m)'
  BY <1>1, <1>2 DEF MessageTrue
<1>7. \A e \in requests' : e.press # c.press
  BY <1>1 DEF RequestsInv, Ties
<1> QED
  BY <1>1, <1>2, <1>3, <1>4, <1>5, <1>6, <1>7

\* What is said of a call is what became of it.
LEMMA OutcomeTrue ==
  ASSUME RequestsInv, NEW c \in requests, CallAnswered(c), NEW says,
         says \in {"done", "coalesced"} => Outcome(c) # "not_done",
         says \in {"not_done", "error"} => Outcome(c) = "not_done"
  PROVE  MessageTrue(Says(says, c.press))'
<1>1. PICK m : m = Says(says, c.press)
  OBVIOUS
<1>2. m.says = says /\ m.of = c.press
  BY <1>1 DEF Says
<1>3. /\ c \in Calls /\ CallSound(c) /\ CallTied(c)
      /\ c.at \in {"done", "failed"}
  BY DEF RequestsInv, RequestsTypes, Ties, CallAnswered
<1>4. Outcome(c) = "not_done" <=> c.at = "failed"
  BY <1>3 DEF Outcome
<1>5. pressed' = pressed /\ pressed \in Nat /\ lostAnswers' = lostAnswers
  BY AnswerParts DEF RequestsInv, RequestsTypes
<1>6. m.of \in Nat /\ m.of <= pressed'
  BY <1>2, <1>3, <1>5 DEF CallSound
<1>7. says \in {"done", "coalesced"} => Done(c.press)'
  BY <1>3, <1>4, AnswerParts DEF CallTied
<1>8. says \in {"not_done", "error"} =>
        /\ \A e \in requests' : e.press # c.press
        /\ lostAnswers' = 0 => ~Done(c.press)'
  BY <1>3, <1>4, <1>5, AnswerParts DEF CallTied
<1>9. MessageTrue(m)'
  BY <1>2, <1>6, <1>7, <1>8 DEF MessageTrue
<1> QED
  BY <1>1, <1>9

\* Where no rule was saved, the list of the form stays true.
LEMMA ListStays ==
  ASSUME RequestsInv, NEW c \in requests, CallAnswered(c), saved' = saved,
         c.kind # "rule" \/ Outcome(c) = "not_done"
  PROVE  RulesListed'
<1> SUFFICES ASSUME lostAnswers' = 0
             PROVE  saved' = {n \in 1..pressed' :
                      /\ \E q \in performed' : q.kind = "rule" /\ q.press = n
                      /\ \A e \in requests' : e.press # n}
  BY DEF RulesListed
<1>1. /\ requests' = requests \ {c} /\ performed' = performed
      /\ pressed' = pressed /\ lostAnswers = 0
  BY AnswerParts
<1>2. saved = {n \in 1..pressed :
                 /\ \E q \in performed : q.kind = "rule" /\ q.press = n
                 /\ \A e \in requests : e.press # n}
  BY <1>1 DEF RequestsInv, RulesListed
<1>3. CallTied(c) /\ c.at \in {"done", "failed"}
  BY DEF RequestsInv, Ties, CallAnswered
<1>4. ~\E q \in performed : q.kind = "rule" /\ q.press = c.press
  <2>1. CASE c.kind # "rule"
    BY <1>3, <2>1 DEF CallTied
  <2>2. CASE Outcome(c) = "not_done"
    BY <1>1, <1>3, <2>2 DEF Outcome, CallTied, Done
  <2> QED
    BY <2>1, <2>2
<1> QED
  BY <1>1, <1>2, <1>4

LEMMA DataAnswerKeeps ==
  ASSUME RequestsInv, NEW c \in requests, CallAnswered(c), DataAnswered(c)
  PROVE  RequestsInv'
<1>1. /\ c.kind \in Sensitive /\ c.kind # "rule"
      /\ dataMessage' = Says(Outcome(c), c.press)
      /\ typed' = (typed /\ c.kind # "delete")
      /\ UNCHANGED <<refreshState, ruleMessage, saved>>
  BY DEF DataAnswered, otherControls, Sensitive
<1>2. OneAtATime'
  <2>1. \A e \in requests' : e.kind \notin Sensitive /\ e.kind # "delete"
    BY <1>1, AnswerParts DEF RequestsInv, OneAtATime, Sensitive
  <2> QED
    BY <2>1 DEF OneAtATime
<1>3. (\A m \in Messages : MessageTrue(m))'
  <2>1. PICK m : m = Says(Outcome(c), c.press)
    OBVIOUS
  <2>2. Outcome(c) # "error"
    BY DEF Outcome
  <2>3. PICK o : o = Outcome(c)
    OBVIOUS
  <2>4. MessageTrue(Says(o, c.press))'
    BY <2>2, <2>3, OutcomeTrue
  <2>5. MessageTrue(m)'
    BY <2>1, <2>3, <2>4
  <2>6. \A n \in Messages' : n = m \/ MessageTrue(n)
    BY <1>1, <2>1 DEF RequestsInv, Messages
  <2> QED
    BY <2>5, <2>6, AnswerParts
<1>4. RulesListed'
  BY <1>1, ListStays
<1>5. PhrasesCounted'
  <2>1. PICK n : n = Cardinality(Deletions)
    OBVIOUS
  <2>2. n \in Nat
    BY <2>1, FS_Subset, FS_CardinalityType DEF RequestsInv, RequestsTypes, Deletions
  <2>3. n = Cardinality(Deletions)'
    <3>1. Deletions' = Deletions
      BY AnswerParts DEF Deletions
    <3> QED
      BY <2>1, <3>1
  <2>4. phrases' = phrases /\ phrases \in Nat
    BY AnswerParts DEF RequestsInv, RequestsTypes
  <2>5. n + (IF typed /\ ~Spent THEN 1 ELSE 0) <= phrases
    BY <2>1 DEF RequestsInv, PhrasesCounted
  <2>6. CASE c.kind = "delete"
    <3>1. ~typed'
      BY <1>1, <2>6
    <3>2. n <= phrases
      BY <2>2, <2>4, <2>5
    <3> QED
      BY <2>2, <2>3, <2>4, <3>1, <3>2 DEF PhrasesCounted
  <2>7. CASE c.kind # "delete"
    <3>1. typed' <=> typed
      BY <1>1, <2>7
    <3>2. Spent' <=> Spent
      BY <2>7, AnswerParts DEF Spent
    <3> QED
      BY <2>3, <2>4, <2>5, <3>1, <3>2 DEF PhrasesCounted
  <2> QED
    BY <2>6, <2>7
<1> QED
  BY <1>2, <1>3, <1>4, <1>5, AnswerParts DEF RequestsInv

\* The other controls: the phrase and the buttons stay as they are.
LEMMA OtherAnswerParts ==
  ASSUME RequestsInv, NEW c \in requests, CallAnswered(c), UNCHANGED dataControls,
         c.kind \notin Sensitive
  PROVE  OneAtATime' /\ PhrasesCounted'
<1>1. /\ requests' = requests \ {c} /\ typed' = typed
      /\ pendingData' = pendingData /\ phrases' = phrases
  BY AnswerParts DEF dataControls
<1>2. OneAtATime'
  BY <1>1 DEF RequestsInv, OneAtATime
<1>3. Deletions' = Deletions
  BY AnswerParts DEF Deletions
<1>4. Cardinality(Deletions)' = Cardinality(Deletions)
  BY <1>3
<1>5. Spent' <=> Spent
  BY AnswerParts DEF Spent, Sensitive
<1> QED
  BY <1>1, <1>2, <1>4, <1>5 DEF RequestsInv, PhrasesCounted

LEMMA RefreshAnswerKeeps ==
  ASSUME RequestsInv, NEW c \in requests, CallAnswered(c), RefreshAnswered(c)
  PROVE  RequestsInv'
<1>1. /\ c.kind = "refresh" /\ c.kind # "rule" /\ c.kind \notin Sensitive
      /\ UNCHANGED dataControls /\ UNCHANGED <<ruleMessage, saved>>
      /\ dataMessage' = dataMessage
  BY DEF RefreshAnswered, Sensitive, dataControls
<1>2. PICK says :
        /\ refreshState' = Says(says, c.press)
        /\ says \in {"done", "coalesced"} => Outcome(c) # "not_done"
        /\ says \in {"not_done", "error"} => Outcome(c) = "not_done"
  <2>1. Outcome(c) \in {"not_done", "coalesced", "done"}
    BY DEF Outcome
  <2> QED
    BY <2>1 DEF RefreshAnswered
<1>3. (\A m \in Messages : MessageTrue(m))'
  <2>1. MessageTrue(Says(says, c.press))'
    BY <1>2, OutcomeTrue
  <2>2. PICK m : m = Says(says, c.press)
    OBVIOUS
  <2>3. MessageTrue(m)'
    BY <2>1, <2>2
  <2>4. \A n \in Messages' : n = m \/ MessageTrue(n)
    BY <1>1, <1>2, <2>2 DEF RequestsInv, Messages
  <2> QED
    BY <2>3, <2>4, AnswerParts
<1>4. RulesListed'
  BY <1>1, ListStays
<1> QED
  BY <1>1, <1>3, <1>4, AnswerParts, OtherAnswerParts DEF RequestsInv

LEMMA RuleAnswerKeeps ==
  ASSUME RequestsInv, NEW c \in requests, CallAnswered(c), RuleAnswered(c)
  PROVE  RequestsInv'
<1>1. /\ c.kind = "rule" /\ c.kind \notin Sensitive
      /\ ruleMessage' = Says(Outcome(c), c.press)
      /\ saved' = IF Outcome(c) = "done" THEN saved \cup {c.press} ELSE saved
      /\ UNCHANGED dataControls /\ UNCHANGED refreshState
      /\ dataMessage' = dataMessage
  BY DEF RuleAnswered, Sensitive, dataControls
<1>2. CallSound(c) /\ CallTied(c) /\ c.at \in {"done", "failed"}
  BY DEF RequestsInv, Ties, CallAnswered
<1>3. Outcome(c) \in {"not_done", "done"}
  BY <1>1, <1>2 DEF CallSound, Outcome
<1>4. (\A m \in Messages : MessageTrue(m))'
  <2>1. PICK o : o = Outcome(c)
    OBVIOUS
  <2>2. MessageTrue(Says(o, c.press))'
    BY <1>3, <2>1, OutcomeTrue
  <2>3. PICK m : m = Says(o, c.press)
    OBVIOUS
  <2>4. MessageTrue(m)'
    BY <2>2, <2>3
  <2>5. \A n \in Messages' : n = m \/ MessageTrue(n)
    BY <1>1, <2>1, <2>3 DEF RequestsInv, Messages
  <2> QED
    BY <2>4, <2>5, AnswerParts
<1>5. RulesListed'
  <2>1. CASE Outcome(c) = "not_done"
    BY <1>1, <2>1, ListStays
  <2>2. CASE Outcome(c) = "done"
    <3> SUFFICES ASSUME lostAnswers' = 0
                 PROVE  saved' = {n \in 1..pressed' :
                          /\ \E q \in performed' :
                               q.kind = "rule" /\ q.press = n
                          /\ \A e \in requests' : e.press # n}
      BY DEF RulesListed
    <3>1. /\ requests' = requests \ {c} /\ performed' = performed
          /\ pressed' = pressed /\ lostAnswers = 0
          /\ \A e \in requests' : e.press # c.press
      BY AnswerParts
    <3>2. saved = {n \in 1..pressed :
                     /\ \E q \in performed : q.kind = "rule" /\ q.press = n
                     /\ \A e \in requests : e.press # n}
      BY <3>1 DEF RequestsInv, RulesListed
    <3>3. \E q \in performed : q.kind = "rule" /\ q.press = c.press
      <4>1. c.at = "done"
        BY <1>2, <2>2 DEF Outcome
      <4>2. PICK q \in performed : q.press = c.press
        BY <1>2, <4>1 DEF CallTied, Done
      <4> QED
        BY <1>1, <1>2, <4>2 DEF CallTied
    <3>4. c.press \in 1..pressed
      BY <1>2 DEF CallSound
    <3>5. saved' = saved \cup {c.press}
      BY <1>1, <2>2
    <3> QED
      BY <3>1, <3>2, <3>3, <3>4, <3>5
  <2> QED
    BY <1>3, <2>1, <2>2
<1> QED
  BY <1>1, <1>4, <1>5, AnswerParts, OtherAnswerParts DEF RequestsInv

LEMMA RequestsStepInv == RequestsInv /\ [RequestsNext]_requestsVars => RequestsInv'
<1> SUFFICES ASSUME RequestsInv, [RequestsNext]_requestsVars PROVE RequestsInv'
  OBVIOUS
<1>1. CASE \/ \E s \in Sessions \cup {SignedOut} : SwitchSession(s)
           \/ VerifyPasskey \/ PassMoment \/ EndJob \/ PreviewsAnswered
           \/ UNCHANGED requestsVars
  BY <1>1, AroundKeeps
<1>2. CASE TypePhrase
  BY <1>2, PhraseKeeps
<1>3. CASE exportData \/ deleteData
  BY <1>3, DataCallKeeps
<1>4. CASE requestRefresh \/ saveRule
  BY <1>4, OtherCallKeeps
<1>5. ASSUME NEW c \in requests,
             \/ RequestFails(c) \/ FetchToken(c) \/ Forward(c) \/ Authorize(c)
             \/ LookForJob(c) \/ RefuseCall(c) \/ Perform(c)
      PROVE  RequestsInv'
  BY <1>5, RequestFailsKeeps, FetchTokenKeeps, ForwardKeeps, AuthorizeKeeps,
     LookKeeps, RequestRefuseKeeps, PerformKeeps
<1>6. ASSUME NEW c \in requests, CallAnswered(c) PROVE RequestsInv'
  BY <1>6, DataAnswerKeeps, RefreshAnswerKeeps, RuleAnswerKeeps
     DEF CallAnswered
<1> QED
  BY <1>1, <1>2, <1>3, <1>4, <1>5, <1>6 DEF RequestsNext

(***************************************************************************)
(* Theorems.                                                               *)
(***************************************************************************)
\* The invariant is inductive: what the API has checked of a call at each of
\* its stages, what was performed of it, and what the controls make of it.
THEOREM RequestsInvariance == RequestsSpec => []RequestsInv
BY RequestsInitInv, RequestsStepInv, PTL DEF RequestsSpec

\* app.ts, the routes and the screens' controls: whatever the browser does
\* between the steps of a call, an export or a deletion was asked for by the
\* session that it is made for, and every control says what happened.
THEOREM AskedAndTold == RequestsSpec => []RequestsSound
<1>1. RequestsInv => SensitiveAsked
  <2> SUFFICES ASSUME RequestsInv PROVE SensitiveAsked
    OBVIOUS
  <2>1. PICK n : n = Cardinality(Deletions)
    OBVIOUS
  <2>2. n \in Nat /\ phrases \in Nat
    BY <2>1, FS_Subset, FS_CardinalityType DEF RequestsInv, RequestsTypes, Deletions
  <2>3. n + (IF typed /\ ~Spent THEN 1 ELSE 0) <= phrases
    BY <2>1 DEF RequestsInv, PhrasesCounted
  <2>4. n <= phrases
    BY <2>2, <2>3
  <2> QED
    BY <2>1, <2>4 DEF SensitiveAsked, Deletions, RequestsInv, PerformedSound
<1>2. RequestsInv => OutcomesTrue
  <2> SUFFICES ASSUME RequestsInv PROVE OutcomesTrue
    OBVIOUS
  <2>1. \A m \in {dataMessage, ruleMessage, refreshState} :
          /\ m.says \in {"done", "coalesced"} => Done(m.of)
          /\ lostAnswers = 0 /\ m.says \in {"not_done", "error"} => ~Done(m.of)
    BY DEF RequestsInv, Messages, MessageTrue
  <2>2. ASSUME lostAnswers = 0, \A c \in requests : c.kind # "rule"
        PROVE  saved = {p.press : p \in {q \in performed : q.kind = "rule"}}
    <3>1. saved = {n \in 1..pressed :
                     /\ \E q \in performed : q.kind = "rule" /\ q.press = n
                     /\ \A c \in requests : c.press # n}
      BY <2>2 DEF RequestsInv, RulesListed
    <3>2. \A q \in performed : q.press \in 1..pressed
      BY DEF RequestsInv, PerformedSound
    <3>3. \A q \in performed : q.kind = "rule" =>
            \A c \in requests : c.press # q.press
      BY <2>2 DEF RequestsInv, Ties, CallTied
    <3> QED
      BY <3>1, <3>2, <3>3
  <2> QED
    BY <2>1, <2>2 DEF OutcomesTrue
<1> QED
  BY <1>1, <1>2, RequestsInvariance, PTL DEF RequestsSound

(***************************************************************************)
(* The figures.  A snapshot is sound if the headline is the sum of the     *)
(* accounts' totals, and each account's residual what its rows, its cash   *)
(* and its aggregate leave of its total.                                   *)
(***************************************************************************)
HeldIn(s, a) == {r \in s.positions : r.account = a}
OptionedIn(s, a) == {r \in s.options : r.account = a}

RowsTyped(s) ==
  /\ IsFiniteSet(s.positions) /\ IsFiniteSet(s.options)
  /\ \A r \in s.positions : /\ r.account \in Accounts
                            /\ r.security \in Securities
                            /\ r.value \in Int
                            /\ r.basis \in Int \cup {Unknown}
  /\ \A r \in s.options : r.account \in Accounts /\ r.value \in Int

SnapshotSound(s) ==
  /\ RowsTyped(s)
  /\ DOMAIN s.accounts = Accounts
  /\ \A a \in Accounts :
       LET row == s.accounts[a] IN
       /\ row.providerTotal \in Int /\ row.cash \in Int /\ row.aggregate \in Int
       /\ row.residual = row.providerTotal
                           - (TotalOf(HeldIn(s, a)) + TotalOf(OptionedIn(s, a))
                                + row.aggregate + row.cash)
  /\ s.totalValue
       = SumFunctionOnSet([a \in Accounts |-> s.accounts[a].providerTotal],
                          accountRows(s))

LEMMA FiguresConstants ==
  /\ IsFiniteSet(Accounts) /\ IsFiniteSet(Securities) /\ IsFiniteSet(OptionIds)
  /\ Portfolios \subseteq PortfolioType
  /\ Prices \subseteq Int /\ Marks \subseteq Int
  /\ Roundings \subseteq Int /\ Amounts \subseteq Int
  /\ FirstInstant \in Nat /\ DayLength \in Nat /\ DayLength > 0
  /\ Unknown \notin Int /\ Options \notin Securities
BY FiguresAssumption DEF Options

\* The total of rows is the sum of their values, whatever rows there are more.
LEMMA TotalIs ==
  ASSUME NEW S, IsFiniteSet(S), \A r \in S : r.value \in Int,
         NEW rows \in SUBSET S
  PROVE  /\ TotalOf(rows) = SumFunctionOnSet([r \in S |-> r.value], rows)
         /\ TotalOf(rows) \in Int
<1> DEFINE f == [r \in rows |-> r.value]
           g == [r \in S |-> r.value]
<1>1. IsFiniteSet(rows)
  BY FS_Subset
<1>2. \A r \in rows : f[r] \in Int /\ f[r] = g[r]
  OBVIOUS
<1>3. TotalOf(rows) = SumFunctionOnSet(f, rows)
  BY DEF TotalOf, SumOf, Value
<1> HIDE DEF f, g
<1>4. SumFunctionOnSet(f, rows) = SumFunctionOnSet(g, rows)
  BY <1>1, <1>2, SumSame
<1>5. SumFunctionOnSet(f, rows) \in Int
  BY <1>1, <1>2, SumType
<1> QED
  BY <1>3, <1>4, <1>5 DEF g

LEMMA TotalOfNone == TotalOf({}) = 0
BY SumEmpty DEF TotalOf, SumOf

\* What is listed is the security of a row or all options.
Listing(P, O, H, listed) ==
  /\ \A r \in P : r.security \in H
  /\ \A h \in H : h = Options \/ \E r \in P : h = r.security
  /\ Options \in H <=> O # {}
  /\ \A h \in H : \A r : r \in listed[h] <=> r \in P /\ r.security = h

Worths(O, H, listed, worth) ==
  \A h \in H : worth[h] = IF h = Options THEN TotalOf(O) ELSE TotalOf(listed[h])

\* What the holdings are worth is the total of the rows.
LEMMA HoldingsTotal ==
  ASSUME NEW P, NEW O, IsFiniteSet(P), IsFiniteSet(O),
         \A r \in P : r.security \in Securities /\ r.value \in Int,
         \A r \in O : r.value \in Int,
         NEW H, NEW listed, Listing(P, O, H, listed),
         NEW worth, Worths(O, H, listed, worth)
  PROVE  /\ IsFiniteSet(H) /\ \A h \in H : worth[h] \in Int
         /\ TotalOf(P) \in Int /\ TotalOf(O) \in Int
         /\ SumFunctionOnSet(worth, H) = TotalOf(P) + TotalOf(O)
<1>1. TotalOf(P) \in Int /\ TotalOf(O) \in Int
  BY TotalIs
<1>2. PICK value, key, K : /\ value = [r \in P |-> r.value]
                           /\ key = [r \in P |-> r.security]
                           /\ K = H \ {Options}
  OBVIOUS
<1>3. \A r \in P : r.security \in K
  <2> TAKE r \in P
  <2>1. r.security \in Securities /\ r.security # Options
    BY FiguresConstants
  <2>2. r.security \in H
    BY DEF Listing
  <2> QED
    BY <1>2, <2>1, <2>2
<1>4. \A h \in K : /\ worth[h] = SumFunctionOnSet(value, listed[h])
                   /\ \A r : r \in listed[h] <=> r \in P /\ key[r] = h
  <2> TAKE h \in K
  <2>1. h \in H /\ worth[h] = TotalOf(listed[h])
    BY <1>2 DEF Worths
  <2>2. \A r : r \in listed[h] <=> r \in P /\ r.security = h
    BY <2>1 DEF Listing
  <2>3. listed[h] \in SUBSET P
    BY <2>2
  <2>4. TotalOf(listed[h]) = SumFunctionOnSet(value, listed[h])
    BY <1>2, <2>3, TotalIs
  <2> QED
    BY <1>2, <2>1, <2>2, <2>4
<1>5. \A h \in H : worth[h] \in Int
  <2> TAKE h \in H
  <2>1. \A r : r \in listed[h] => r \in P
    BY DEF Listing
  <2>2. listed[h] \in SUBSET P
    BY <2>1
  <2>3. TotalOf(listed[h]) \in Int
    BY <2>2, TotalIs
  <2> QED
    BY <1>1, <2>3 DEF Worths
<1>6. IsFiniteSet(K) /\ IsFiniteSet(H)
  <2>1. K \in SUBSET Securities /\ H \in SUBSET (Securities \cup {Options})
    BY <1>2 DEF Listing
  <2>2. IsFiniteSet(Securities \cup {Options})
    BY FiguresConstants, FS_AddElement
  <2> QED
    BY <2>1, <2>2, FiguresConstants, FS_Subset
<1>7. SumFunctionOnSet(value, P) = TotalOf(P)
  BY <1>2, TotalIs
<1>8. H \ {Options} = K
  BY <1>2
<1>9. SumFunctionOnSet(worth, H \cap {Options}) = TotalOf(O)
  <2>1. CASE O = {}
    <3>1. H \cap {Options} = {}
      BY <2>1 DEF Listing
    <3> QED
      BY <2>1, <3>1, SumEmpty, TotalOfNone
  <2>2. CASE O # {}
    <3>1. Options \in H
      BY <2>2 DEF Listing
    <3>2. H \cap {Options} = {Options} /\ {Options} \ {Options} = {}
      BY <3>1
    <3>3. worth[Options] = TotalOf(O)
      BY <3>1 DEF Worths
    <3>4. IsFiniteSet({Options})
      BY FS_Singleton
    <3>5. \A h \in {Options} : worth[h] \in Int
      BY <1>5, <3>1
    <3>6. SumFunctionOnSet(worth, {Options})
            = worth[Options] + SumFunctionOnSet(worth, {Options} \ {Options})
      BY <3>4, <3>5, SumRemove
    <3>7. SumFunctionOnSet(worth, {Options} \ {Options}) = 0
      BY <3>2, SumEmpty
    <3>8. SumFunctionOnSet(worth, {Options}) = TotalOf(O)
      BY <1>1, <3>3, <3>6, <3>7
    <3> QED
      BY <3>2, <3>8
  <2> QED
    BY <2>1, <2>2
<1>10. SumFunctionOnSet(worth, K) = SumFunctionOnSet(value, P)
  <2>1. \A r \in P : value[r] \in Int
    BY <1>2
  <2>2. Grouped(P, K, key, listed)
    BY <1>2, <1>3, <1>4 DEF Grouped
  <2>3. GroupSums(value, K, listed, worth)
    BY <1>4 DEF GroupSums
  <2> QED
    BY <1>6, <2>1, <2>2, <2>3, SumGroup
<1>11. SumFunctionOnSet(worth, H)
         = SumFunctionOnSet(worth, H \cap {Options})
             + SumFunctionOnSet(worth, H \ {Options})
  BY <1>5, <1>6, SumSplit
<1>12. SumFunctionOnSet(worth, H) = TotalOf(P) + TotalOf(O)
  <2>1. SumFunctionOnSet(worth, H \ {Options}) = TotalOf(P)
    BY <1>7, <1>8, <1>10
  <2>2. SumFunctionOnSet(worth, H) = TotalOf(O) + TotalOf(P)
    BY <1>9, <1>11, <2>1
  <2> QED
    BY <1>1, <2>2
<1> QED
  BY <1>1, <1>5, <1>6, <1>12

\* The allocation's rest is what neither the holdings nor cash are.
LEMMA RestOf ==
  ASSUME NEW hs, IsFiniteSet(DOMAIN hs),
         \A h \in DOMAIN hs : hs[h].marketValue \in Int,
         NEW cash \in Int, NEW denominator \in Int
  PROVE  Slice(buildAllocation(hs, cash, denominator), "residual")
           = denominator
               - (SumFunctionOnSet([h \in DOMAIN hs |-> hs[h].marketValue],
                                   DOMAIN hs) + cash)
<1> DEFINE kind(h) == kindForAsset(h, hs[h].support)
           mv == [h \in DOMAIN hs |-> hs[h].marketValue]
           those(k) == {h \in DOMAIN hs : kind(h) = k}
           ofKind(k) ==
             SumFunctionOnSet([h \in those(k) |-> hs[h].marketValue], those(k))
           kinds == {kind(h) : h \in DOMAIN hs}
           represented ==
             SumFunctionOnSet([k \in kinds |-> ofKind(k)], kinds) + cash
           slice(k) == CASE k = "cash" -> cash
                         [] k = "residual" -> denominator - represented
                         [] OTHER -> ofKind(k)
           shown == {k \in kinds \cup {"cash", "residual"} : slice(k) # 0}
<1>1. buildAllocation(hs, cash, denominator) = [k \in shown |-> slice(k)]
  BY DEF buildAllocation, SumOf
<1>2. slice("residual") = denominator - represented
  OBVIOUS
<1>3. Slice([k \in shown |-> slice(k)], "residual") = slice("residual")
  <2> HIDE DEF slice, kinds
  <2> QED
    BY DEF Slice
<1>4. kinds \in SUBSET {"unsupported_detail", "etf", "equity"}
  BY DEF kindForAsset
<1>5. IsFiniteSet(kinds)
  <2>1. IsFiniteSet({"unsupported_detail", "etf", "equity"})
    <3>1. IsFiniteSet({"unsupported_detail"})
      BY FS_Singleton
    <3>2. IsFiniteSet({"unsupported_detail"} \cup {"etf"})
      BY <3>1, FS_AddElement
    <3>3. IsFiniteSet(({"unsupported_detail"} \cup {"etf"}) \cup {"equity"})
      BY <3>2, FS_AddElement
    <3>4. ({"unsupported_detail"} \cup {"etf"}) \cup {"equity"}
            = {"unsupported_detail", "etf", "equity"}
      OBVIOUS
    <3> QED
      BY <3>3, <3>4
  <2> HIDE DEF kinds
  <2> QED
    BY <1>4, <2>1, FS_Subset
<1>6. \A h \in DOMAIN hs : mv[h] \in Int
  OBVIOUS
<1> DEFINE key == [h \in DOMAIN hs |-> kind(h)]
           sums == [k \in kinds |-> ofKind(k)]
           group == [k \in kinds |-> those(k)]
<1>7. \A h \in DOMAIN hs : key[h] \in kinds
  OBVIOUS
<1>8. \A k \in kinds :
        /\ sums[k] = SumFunctionOnSet(mv, group[k])
        /\ \A h : h \in group[k] <=> h \in DOMAIN hs /\ key[h] = k
  <2> TAKE k \in kinds
  <2>1. \A h : h \in group[k] <=> h \in DOMAIN hs /\ key[h] = k
    OBVIOUS
  <2>2. IsFiniteSet(those(k)) /\ group[k] = those(k)
    BY FS_Subset
  <2>3. sums[k] = ofKind(k)
    OBVIOUS
  <2> DEFINE f == [h \in those(k) |-> hs[h].marketValue]
  <2>4. \A h \in those(k) : f[h] \in Int /\ f[h] = mv[h]
    OBVIOUS
  <2>5. ofKind(k) = SumFunctionOnSet(f, those(k))
    OBVIOUS
  <2> HIDE DEF f, those, mv, sums, ofKind, key, group
  <2>6. SumFunctionOnSet(f, those(k)) = SumFunctionOnSet(mv, those(k))
    BY <2>2, <2>4, SumSame
  <2> QED
    BY <2>1, <2>2, <2>3, <2>5, <2>6
<1> HIDE DEF kinds, sums, mv, key, group
<1>9. SumFunctionOnSet(sums, kinds) = SumFunctionOnSet(mv, DOMAIN hs)
  <2>1. PICK D, f, K, k, g, t : /\ D = DOMAIN hs /\ f = mv /\ K = kinds
                                /\ k = key /\ g = group /\ t = sums
    OBVIOUS
  <2>2. \A h \in D : f[h] \in Int
    BY <1>6, <2>1
  <2>3. IsFiniteSet(D) /\ IsFiniteSet(K)
    BY <1>5, <2>1
  <2>4. Grouped(D, K, k, g)
    BY <1>7, <1>8, <2>1 DEF Grouped
  <2>5. GroupSums(f, K, g, t)
    BY <1>8, <2>1 DEF GroupSums
  <2>7. SumFunctionOnSet(t, K) = SumFunctionOnSet(f, D)
    BY <2>2, <2>3, <2>4, <2>5, SumGroup
  <2> QED
    BY <2>1, <2>7
<1> QED
  BY <1>1, <1>2, <1>3, <1>9 DEF sums, mv

\* Sums over the rows of each account add up to that over all rows.
LEMMA ByAccount ==
  ASSUME NEW S, IsFiniteSet(S), NEW fun, \A r \in S : fun[r] \in Int,
         NEW I, IsFiniteSet(I), \A r \in S : r.account \in I, NEW sums,
         \A a \in I :
           sums[a] = SumFunctionOnSet(fun, {r \in S : r.account = a})
  PROVE  SumFunctionOnSet(sums, I) = SumFunctionOnSet(fun, S)
<1>1. PICK key : key = [r \in S |-> r.account]
  OBVIOUS
<1>2. PICK group : group = [a \in I |-> {r \in S : r.account = a}]
  OBVIOUS
<1>3. Grouped(S, I, key, group)
  BY <1>1, <1>2 DEF Grouped
<1>4. GroupSums(fun, I, group, sums)
  BY <1>2 DEF GroupSums
<1> QED
  BY <1>3, <1>4, SumGroup

LEMMA TotalByAccount ==
  ASSUME NEW S, IsFiniteSet(S), \A r \in S : r.value \in Int,
         NEW I, IsFiniteSet(I), \A r \in S : r.account \in I, NEW sums,
         \A a \in I : sums[a] = TotalOf({r \in S : r.account = a})
  PROVE  SumFunctionOnSet(sums, I) = TotalOf(S)
<1>1. PICK f : f = [r \in S |-> r.value]
  OBVIOUS
<1>2. \A r \in S : f[r] \in Int
  BY <1>1
<1>3. \A a \in I : sums[a] = SumFunctionOnSet(f, {r \in S : r.account = a})
  <2> TAKE a \in I
  <2>1. {r \in S : r.account = a} \in SUBSET S
    OBVIOUS
  <2> QED
    BY <1>1, <2>1, TotalIs
<1>4. TotalOf(S) = SumFunctionOnSet(f, S)
  BY <1>1, TotalIs
<1> QED
  BY <1>2, <1>3, <1>4, ByAccount

\* What is left of the accounts' totals, in sum, is what is left of the sum.
LEMMA RestsAdd ==
  ASSUME NEW s, SnapshotSound(s), NoStrays(s), NEW rest,
         \A a \in accountRows(s) :
           rest[a] = s.accounts[a].aggregate + s.accounts[a].residual
  PROVE  /\ CashOf(s) \in Int /\ s.totalValue \in Int
         /\ TotalOf(s.positions) \in Int /\ TotalOf(s.options) \in Int
         /\ SumFunctionOnSet(rest, accountRows(s))
              = s.totalValue
                  - ((TotalOf(s.positions) + TotalOf(s.options)) + CashOf(s))
<1>1. PICK I : I = accountRows(s)
  OBVIOUS
<1>2. IsFiniteSet(I) /\ I \subseteq Accounts
  <2>1. I \in SUBSET Accounts
    BY <1>1 DEF accountRows
  <2> QED
    BY <2>1, FiguresConstants, FS_Subset
<1>3. PICK total, cash, held, optioned, rows, used :
        /\ total = [a \in I |-> s.accounts[a].providerTotal]
        /\ cash = [a \in I |-> s.accounts[a].cash]
        /\ held = [a \in I |-> TotalOf(HeldIn(s, a))]
        /\ optioned = [a \in I |-> TotalOf(OptionedIn(s, a))]
        /\ rows = [a \in I |-> held[a] + optioned[a]]
        /\ used = [a \in I |-> rows[a] + cash[a]]
  OBVIOUS
<1>4. /\ IsFiniteSet(s.positions) /\ IsFiniteSet(s.options)
      /\ \A r \in s.positions : r.account \in I /\ r.value \in Int
      /\ \A r \in s.options : r.account \in I /\ r.value \in Int
  BY <1>1 DEF SnapshotSound, RowsTyped, NoStrays
<1>5. \A a \in I : held[a] \in Int /\ optioned[a] \in Int
  <2>1. \A a : /\ HeldIn(s, a) \in SUBSET s.positions
               /\ OptionedIn(s, a) \in SUBSET s.options
    BY DEF HeldIn, OptionedIn
  <2>2. \A a : TotalOf(HeldIn(s, a)) \in Int /\ TotalOf(OptionedIn(s, a)) \in Int
    BY <1>4, <2>1, TotalIs
  <2> QED
    BY <1>3, <2>2
<1>6. \A a \in I : /\ total[a] \in Int /\ cash[a] \in Int /\ rows[a] \in Int
                   /\ used[a] \in Int /\ rest[a] \in Int
                   /\ total[a] = rest[a] + used[a]
  <2> TAKE a \in I
  <2>1. PICK row : row = s.accounts[a]
    OBVIOUS
  <2>2. /\ row.providerTotal \in Int /\ row.cash \in Int /\ row.aggregate \in Int
        /\ row.residual = row.providerTotal
                            - (held[a] + optioned[a] + row.aggregate + row.cash)
    BY <1>2, <1>3, <2>1 DEF SnapshotSound
  <2>3. /\ total[a] = row.providerTotal /\ cash[a] = row.cash
        /\ rows[a] = held[a] + optioned[a] /\ used[a] = rows[a] + cash[a]
        /\ rest[a] = row.aggregate + row.residual
    BY <1>1, <1>3, <2>1
  <2> QED
    BY <1>5, <2>2, <2>3
<1>7. SumFunctionOnSet(total, I)
        = SumFunctionOnSet(rest, I) + SumFunctionOnSet(used, I)
  BY <1>2, <1>6, SumPlus
<1>8. SumFunctionOnSet(used, I)
        = SumFunctionOnSet(rows, I) + SumFunctionOnSet(cash, I)
  BY <1>2, <1>3, <1>6, SumPlus
<1>9. SumFunctionOnSet(rows, I)
        = SumFunctionOnSet(held, I) + SumFunctionOnSet(optioned, I)
  BY <1>2, <1>3, <1>5, <1>6, SumPlus
<1>10. SumFunctionOnSet(held, I) = TotalOf(s.positions)
  <2>1. \A a \in I : held[a] = TotalOf({r \in s.positions : r.account = a})
    BY <1>3 DEF HeldIn
  <2> QED
    BY <1>2, <1>4, <2>1, TotalByAccount
<1>11. SumFunctionOnSet(optioned, I) = TotalOf(s.options)
  <2>1. \A a \in I : optioned[a] = TotalOf({r \in s.options : r.account = a})
    BY <1>3 DEF OptionedIn
  <2> QED
    BY <1>2, <1>4, <2>1, TotalByAccount
<1>12. CashOf(s) = SumFunctionOnSet(cash, I)
  BY <1>1, <1>3 DEF CashOf, SumOf
<1>13. s.totalValue = SumFunctionOnSet(total, I)
  <2>1. PICK f : f = [a \in Accounts |-> s.accounts[a].providerTotal]
    OBVIOUS
  <2>2. \A a \in I : total[a] \in Int /\ total[a] = f[a]
    BY <1>2, <1>3, <1>6, <2>1
  <2>3. SumFunctionOnSet(total, I) = SumFunctionOnSet(f, I)
    BY <1>2, <2>2, SumSame
  <2> QED
    BY <1>1, <2>1, <2>3 DEF SnapshotSound
<1>14. /\ SumFunctionOnSet(total, I) \in Int /\ SumFunctionOnSet(cash, I) \in Int
       /\ SumFunctionOnSet(held, I) \in Int
       /\ SumFunctionOnSet(optioned, I) \in Int
       /\ SumFunctionOnSet(rest, I) \in Int
  BY <1>2, <1>5, <1>6, SumType
<1> QED
  BY <1>1, <1>7, <1>8, <1>9, <1>10, <1>11, <1>12, <1>13, <1>14

-----------------------------------------------------------------------------
\* The holdings of a snapshot, and those an account has a part in.
LEMMA HoldingIs ==
  ASSUME NEW s, NEW hs, hs = buildHoldings(s)
  PROVE  /\ \A h : h \in DOMAIN hs <=> \/ \E r \in s.positions : h = r.security
                                       \/ h = Options /\ s.options # {}
         /\ \A h \in DOMAIN hs :
              /\ hs[h] = Holding(s, h)
              /\ hs[h].marketValue = TotalOf(RowsOf(s, h))
              /\ hs[h].support \in BOOLEAN
              /\ \A a : a \in DOMAIN hs[h].accounts
                          <=> \E r \in RowsOf(s, h) : r.account = a
              /\ \A a \in DOMAIN hs[h].accounts :
                   hs[h].accounts[a]
                     = TotalOf({r \in RowsOf(s, h) : r.account = a})
<1>1. /\ \A h : h \in DOMAIN hs <=> \/ \E r \in s.positions : h = r.security
                                    \/ h = Options /\ s.options # {}
      /\ \A h \in DOMAIN hs : hs[h] = Holding(s, h)
  BY DEF buildHoldings
<1>2. ASSUME NEW h \in DOMAIN hs
      PROVE  /\ hs[h].marketValue = TotalOf(RowsOf(s, h))
             /\ hs[h].support \in BOOLEAN
             /\ \A a : a \in DOMAIN hs[h].accounts
                         <=> \E r \in RowsOf(s, h) : r.account = a
             /\ \A a \in DOMAIN hs[h].accounts :
                  hs[h].accounts[a]
                    = TotalOf({r \in RowsOf(s, h) : r.account = a})
  <2>1. PICK x : x = hs[h]
    OBVIOUS
  <2>2. x = Holding(s, h)
    BY <1>1, <2>1
  <2>3. /\ x.marketValue = TotalOf(RowsOf(s, h))
        /\ x.support \in BOOLEAN
        /\ x.accounts = [a \in {r.account : r \in RowsOf(s, h)} |->
                           TotalOf({r \in RowsOf(s, h) : r.account = a})]
    BY <2>2 DEF Holding, Supported
  <2>4. /\ \A a : a \in DOMAIN x.accounts
                    <=> \E r \in RowsOf(s, h) : r.account = a
        /\ \A a \in DOMAIN x.accounts :
             x.accounts[a] = TotalOf({r \in RowsOf(s, h) : r.account = a})
    BY <2>3
  <2> QED
    BY <2>1, <2>3, <2>4
<1> QED
  BY <1>1, <1>2

LEMMA WorthListed ==
  ASSUME NEW s, RowsTyped(s), NEW hs, hs = buildHoldings(s), NEW worth,
         \A h \in DOMAIN hs : worth[h] = hs[h].marketValue
  PROVE  /\ IsFiniteSet(DOMAIN hs) /\ \A h \in DOMAIN hs : worth[h] \in Int
         /\ TotalOf(s.positions) \in Int /\ TotalOf(s.options) \in Int
         /\ SumFunctionOnSet(worth, DOMAIN hs)
              = TotalOf(s.positions) + TotalOf(s.options)
<1>1. PICK P, O, H : P = s.positions /\ O = s.options /\ H = DOMAIN hs
  OBVIOUS
<1>2. \A h : h \in H <=> \/ \E r \in P : h = r.security
                         \/ h = Options /\ O # {}
  BY <1>1, HoldingIs
<1>3. /\ IsFiniteSet(P) /\ IsFiniteSet(O)
      /\ \A r \in P : r.security \in Securities /\ r.value \in Int
      /\ \A r \in O : r.value \in Int
  BY <1>1 DEF RowsTyped
<1>6. PICK listed : listed = [h \in H |-> {r \in P : r.security = h}]
  OBVIOUS
<1>7. Listing(P, O, H, listed)
  <2>1. \A r \in P : r.security \in H
    <3> TAKE r \in P
    <3>1. \E q \in P : r.security = q.security
      OBVIOUS
    <3> QED
      BY <1>2, <3>1
  <2>2. \A h \in H : h = Options \/ \E r \in P : h = r.security
    BY <1>2
  <2>3. Options \in H <=> O # {}
    <3>1. \A r \in P : r.security # Options
      BY <1>3, FiguresConstants
    <3> QED
      BY <1>2, <3>1
  <2>4. \A h \in H : \A r : r \in listed[h] <=> r \in P /\ r.security = h
    BY <1>6
  <2> QED
    BY <2>1, <2>2, <2>3, <2>4 DEF Listing
<1>4. Worths(O, H, listed, worth)
  <2> SUFFICES ASSUME NEW h \in H
               PROVE  worth[h] = IF h = Options THEN TotalOf(O)
                                 ELSE TotalOf(listed[h])
    BY DEF Worths
  <2>1. worth[h] = TotalOf(RowsOf(s, h))
    BY <1>1, HoldingIs
  <2>2. h # Options => listed[h] = RowsOf(s, h)
    BY <1>1, <1>6 DEF RowsOf
  <2> QED
    BY <1>1, <2>1, <2>2 DEF RowsOf
<1>5. /\ IsFiniteSet(H) /\ \A h \in H : worth[h] \in Int
      /\ TotalOf(P) \in Int /\ TotalOf(O) \in Int
      /\ SumFunctionOnSet(worth, H) = TotalOf(P) + TotalOf(O)
  BY <1>2, <1>3, <1>4, <1>7, HoldingsTotal
<1> QED
  BY <1>1, <1>5

OwnHoldings(s, hs, a, mine) ==
  /\ DOMAIN mine = {k \in DOMAIN hs : a \in DOMAIN hs[k].accounts}
  /\ IsFiniteSet(DOMAIN mine)
  /\ \A h \in DOMAIN mine : mine[h].marketValue \in Int
  /\ SumFunctionOnSet([h \in DOMAIN mine |-> mine[h].marketValue],
                      DOMAIN mine)
       = TotalOf(HeldIn(s, a)) + TotalOf(OptionedIn(s, a))

LEMMA WorthOfAccount ==
  ASSUME NEW s, RowsTyped(s), NEW a, NEW hs, hs = buildHoldings(s), NEW mine,
         mine = AccountHoldings(s, hs, a)
  PROVE  OwnHoldings(s, hs, a, mine)
<1>1. PICK P, O, H : /\ P = HeldIn(s, a) /\ O = OptionedIn(s, a)
                     /\ H = DOMAIN mine
  OBVIOUS
<1>2. /\ H = {k \in DOMAIN hs : a \in DOMAIN hs[k].accounts}
      /\ \A h \in H : mine[h].marketValue = hs[h].accounts[a]
  BY <1>1 DEF AccountHoldings, Scoped
<1>3. /\ P \in SUBSET s.positions /\ O \in SUBSET s.options
      /\ \A r : r \in P <=> r \in s.positions /\ r.account = a
      /\ \A r : r \in O <=> r \in s.options /\ r.account = a
  BY <1>1 DEF HeldIn, OptionedIn
<1>4. /\ IsFiniteSet(P) /\ IsFiniteSet(O)
      /\ \A r \in P : r.security \in Securities /\ r.value \in Int
      /\ \A r \in O : r.value \in Int
  BY <1>3, FS_Subset DEF RowsTyped
<1>5. /\ \A r \in s.positions : r.security \in Securities
      /\ Options \notin Securities
  BY FiguresConstants DEF RowsTyped
<1>6. \A h : h \in H <=> \/ \E r \in P : h = r.security
                         \/ h = Options /\ O # {}
  <2>1. \A h : h \in H <=> /\ h \in DOMAIN hs
                           /\ \E r \in RowsOf(s, h) : r.account = a
    BY <1>2, HoldingIs
  <2>2. \A h : h \in DOMAIN hs <=> \/ \E r \in s.positions : h = r.security
                                   \/ h = Options /\ s.options # {}
    BY HoldingIs
  <2>3. ASSUME NEW h, h # Options
        PROVE  h \in H <=> \E r \in P : h = r.security
    <3>1. RowsOf(s, h) = {r \in s.positions : r.security = h}
      BY <2>3 DEF RowsOf
    <3> QED
      BY <1>3, <2>1, <2>2, <2>3, <3>1
  <2>4. Options \in H <=> O # {}
    <3>1. RowsOf(s, Options) = s.options
      BY DEF RowsOf
    <3> QED
      BY <1>3, <2>1, <2>2, <3>1
  <2>5. \A r \in P : r.security # Options
    BY <1>3, <1>5
  <2> QED
    BY <2>3, <2>4, <2>5
<1>7. PICK worth : worth = [h \in H |-> mine[h].marketValue]
  OBVIOUS
<1>10. PICK listed : listed = [h \in H |-> {r \in P : r.security = h}]
  OBVIOUS
<1>11. Listing(P, O, H, listed)
  <2>1. \A r \in P : r.security \in H
    <3> TAKE r \in P
    <3>1. \E q \in P : r.security = q.security
      OBVIOUS
    <3> QED
      BY <1>6, <3>1
  <2>2. \A h \in H : h = Options \/ \E r \in P : h = r.security
    BY <1>6
  <2>3. Options \in H <=> O # {}
    <3>1. \A r \in P : r.security # Options
      BY <1>4, FiguresConstants
    <3> QED
      BY <1>6, <3>1
  <2>4. \A h \in H : \A r : r \in listed[h] <=> r \in P /\ r.security = h
    BY <1>10
  <2> QED
    BY <2>1, <2>2, <2>3, <2>4 DEF Listing
<1>8. Worths(O, H, listed, worth)
  <2> SUFFICES ASSUME NEW h \in H
               PROVE  worth[h] = IF h = Options THEN TotalOf(O)
                                 ELSE TotalOf(listed[h])
    BY DEF Worths
  <2>0. h \in DOMAIN hs /\ a \in DOMAIN hs[h].accounts
    BY <1>2
  <2>1. worth[h] = TotalOf({r \in RowsOf(s, h) : r.account = a})
    <3>1. hs[h].accounts[a] = TotalOf({r \in RowsOf(s, h) : r.account = a})
      BY <2>0, HoldingIs
    <3> QED
      BY <1>2, <1>7, <3>1
  <2>2. CASE h = Options
    <3>1. {r \in RowsOf(s, h) : r.account = a} = O
      BY <1>3, <2>2 DEF RowsOf
    <3> QED
      BY <2>1, <2>2, <3>1
  <2>3. CASE h # Options
    <3>1. {r \in RowsOf(s, h) : r.account = a} = listed[h]
      BY <1>3, <1>10, <2>3 DEF RowsOf
    <3> QED
      BY <2>1, <2>3, <3>1
  <2> QED
    BY <2>2, <2>3
<1>9. /\ IsFiniteSet(H) /\ \A h \in H : worth[h] \in Int
      /\ SumFunctionOnSet(worth, H) = TotalOf(P) + TotalOf(O)
  BY <1>4, <1>6, <1>8, <1>11, HoldingsTotal
<1> QED
  BY <1>1, <1>2, <1>7, <1>9 DEF OwnHoldings
-----------------------------------------------------------------------------
\* The allocation of all accounts, and the analytics.
LEMMA HeadlineAgrees ==
  ASSUME NEW s, SnapshotSound(s), NoStrays(s), NEW hs, hs = buildHoldings(s),
         NEW rest,
         \A a \in accountRows(s) :
           rest[a] = s.accounts[a].aggregate + s.accounts[a].residual
  PROVE  LET analytics == Analytics(s, hs)
             left == SumFunctionOnSet(rest, accountRows(s))
         IN /\ Slice(Allocation(s, hs), "residual") = left
            /\ analytics.supported + analytics.unsupported + left = s.totalValue
<1>1. PICK H, worth : /\ H = DOMAIN hs
                      /\ worth = [h \in DOMAIN hs |-> hs[h].marketValue]
  OBVIOUS
<1>2. RowsTyped(s)
  BY DEF SnapshotSound
<1>3. \A h \in DOMAIN hs : worth[h] = hs[h].marketValue
  BY <1>1
<1>4. PICK cash, held, optioned, left :
        /\ cash = CashOf(s) /\ held = TotalOf(s.positions)
        /\ optioned = TotalOf(s.options)
        /\ left = SumFunctionOnSet(rest, accountRows(s))
  OBVIOUS
<1>5. /\ IsFiniteSet(H) /\ \A h \in H : worth[h] \in Int
      /\ held \in Int /\ optioned \in Int
      /\ SumFunctionOnSet(worth, H) = held + optioned
  BY <1>1, <1>2, <1>3, <1>4, WorthListed
<1>6. /\ cash \in Int /\ s.totalValue \in Int
      /\ left = s.totalValue - ((held + optioned) + cash)
  BY <1>4, RestsAdd
<1>7. Slice(Allocation(s, hs), "residual") = left
  <2>1. \A h \in DOMAIN hs : hs[h].marketValue \in Int
    BY <1>1, <1>3, <1>5
  <2>2. IsFiniteSet(DOMAIN hs)
    BY <1>1, <1>5
  <2>3. PICK d : d = s.totalValue
    OBVIOUS
  <2>4. d \in Int
    BY <1>6, <2>3
  <2>5. Slice(buildAllocation(hs, cash, d), "residual")
          = d - (SumFunctionOnSet([h \in DOMAIN hs |-> hs[h].marketValue],
                                  DOMAIN hs) + cash)
    BY <1>6, <2>1, <2>2, <2>4, RestOf
  <2>6. Slice(buildAllocation(hs, cash, d), "residual")
          = d - ((held + optioned) + cash)
    BY <1>1, <1>5, <2>5
  <2> QED
    BY <1>4, <1>6, <2>3, <2>6 DEF Allocation
<1>8. PICK good, bad, goods, bads :
        /\ good = {h \in H : hs[h].support = TRUE}
        /\ bad = {h \in H : hs[h].support = FALSE}
        /\ goods = SumFunctionOnSet(worth, good)
        /\ bads = SumFunctionOnSet(worth, bad)
  OBVIOUS
<1>9. good = H \cap good /\ bad = H \ good
  <2>1. \A h \in H : hs[h].support \in BOOLEAN
    BY <1>1, HoldingIs
  <2> QED
    BY <1>8, <2>1
<1>10. SumFunctionOnSet(worth, H) = goods + bads
  <2>1. SumFunctionOnSet(worth, H)
          = SumFunctionOnSet(worth, H \cap good) + SumFunctionOnSet(worth, H \ good)
    BY <1>5, SumSplit
  <2> QED
    BY <1>8, <1>9, <2>1
<1>11. IsFiniteSet(good) /\ IsFiniteSet(bad)
  BY <1>5, <1>9, FS_Subset
<1>12. goods \in Int /\ bads \in Int
  BY <1>5, <1>8, <1>9, <1>11, SumType
<1>13. /\ goods = SumFunctionOnSet([h \in good |-> hs[h].marketValue], good)
       /\ bads = SumFunctionOnSet([h \in bad |-> hs[h].marketValue], bad)
  <2>1. PICK g, b : /\ g = [h \in good |-> hs[h].marketValue]
                    /\ b = [h \in bad |-> hs[h].marketValue]
    OBVIOUS
  <2>2. \A h \in good : worth[h] \in Int /\ worth[h] = g[h]
    BY <1>1, <1>3, <1>5, <1>9, <2>1
  <2>3. \A h \in bad : worth[h] \in Int /\ worth[h] = b[h]
    BY <1>1, <1>3, <1>5, <1>9, <2>1
  <2>4. SumFunctionOnSet(worth, good) = SumFunctionOnSet(g, good)
    BY <1>11, <2>2, SumSame
  <2>5. SumFunctionOnSet(worth, bad) = SumFunctionOnSet(b, bad)
    BY <1>11, <2>3, SumSame
  <2> QED
    BY <1>8, <2>1, <2>4, <2>5
<1>14. /\ Analytics(s, hs).supported = goods + cash
       /\ Analytics(s, hs).unsupported = bads
  BY <1>1, <1>4, <1>8, <1>13 DEF Analytics, SumOf
<1>15. (goods + cash) + bads + left = s.totalValue
  BY <1>5, <1>6, <1>10, <1>12
<1> QED
  BY <1>4, <1>7, <1>14, <1>15

\* The list of the accounts.
LEMMA ListAgrees ==
  ASSUME NEW s, SnapshotSound(s), NEW hs, NEW listed,
         listed = accountSummaries(s, hs)
  PROVE  /\ DOMAIN listed = accountRows(s)
         /\ SumFunctionOnSet([a \in DOMAIN listed |-> listed[a].value],
                             DOMAIN listed) = s.totalValue
<1>1. PICK I, value, total :
        /\ I = DOMAIN listed
        /\ value = [a \in DOMAIN listed |-> listed[a].value]
        /\ total = [a \in Accounts |-> s.accounts[a].providerTotal]
  OBVIOUS
<1>2. I = accountRows(s)
  BY <1>1 DEF accountSummaries
<1>3. I \in SUBSET Accounts
  BY <1>2 DEF accountRows
<1>4. IsFiniteSet(I)
  BY <1>3, FiguresConstants, FS_Subset
<1>5. \A a \in I : value[a] = s.accounts[a].providerTotal
  BY <1>1 DEF accountSummaries
<1>6. \A a \in I : value[a] \in Int /\ value[a] = total[a]
  BY <1>1, <1>3, <1>5 DEF SnapshotSound
<1>7. SumFunctionOnSet(value, I) = SumFunctionOnSet(total, I)
  BY <1>4, <1>6, SumSame
<1>8. s.totalValue = SumFunctionOnSet(total, accountRows(s))
  BY <1>1 DEF SnapshotSound
<1> QED
  BY <1>1, <1>2, <1>7, <1>8

\* The page of an account.
LEMMA AccountAgrees ==
  ASSUME NEW s, SnapshotSound(s), NEW hs, hs = buildHoldings(s),
         NEW a \in accountRows(s)
  PROVE  /\ Slice(AccountAllocation(s, hs, a), "residual")
              = s.accounts[a].aggregate + s.accounts[a].residual
         /\ Cardinality(DOMAIN AccountHoldings(s, hs, a))
              = accountSummaries(s, hs)[a].holdingsCount
<1>1. PICK mine, row : mine = AccountHoldings(s, hs, a) /\ row = s.accounts[a]
  OBVIOUS
<1>2. RowsTyped(s) /\ a \in Accounts
  BY DEF SnapshotSound, accountRows
<1>3. PICK held, optioned : /\ held = TotalOf(HeldIn(s, a))
                            /\ optioned = TotalOf(OptionedIn(s, a))
  OBVIOUS
<1>4. held \in Int /\ optioned \in Int
  <2>1. /\ HeldIn(s, a) \in SUBSET s.positions
        /\ OptionedIn(s, a) \in SUBSET s.options
    BY DEF HeldIn, OptionedIn
  <2> QED
    BY <1>2, <1>3, <2>1, TotalIs DEF RowsTyped
<1>5. /\ row.providerTotal \in Int /\ row.cash \in Int /\ row.aggregate \in Int
      /\ row.residual = row.providerTotal
                          - (held + optioned + row.aggregate + row.cash)
  BY <1>1, <1>2, <1>3 DEF SnapshotSound
<1>6. /\ DOMAIN mine = {k \in DOMAIN hs : a \in DOMAIN hs[k].accounts}
      /\ IsFiniteSet(DOMAIN mine)
      /\ \A h \in DOMAIN mine : mine[h].marketValue \in Int
      /\ SumFunctionOnSet([h \in DOMAIN mine |-> mine[h].marketValue],
                          DOMAIN mine) = held + optioned
  <2>1. mine = AccountHoldings(s, hs, a)
    BY <1>1
  <2>2. OwnHoldings(s, hs, a, mine)
    BY <1>2, <2>1, WorthOfAccount
  <2> QED
    BY <1>3, <2>2 DEF OwnHoldings
<1>7. Slice(buildAllocation(mine, row.cash, row.providerTotal), "residual")
        = row.providerTotal - ((held + optioned) + row.cash)
  <2>1. PICK c, d : c = row.cash /\ d = row.providerTotal
    OBVIOUS
  <2>2. c \in Int /\ d \in Int
    BY <1>5, <2>1
  <2>3. Slice(buildAllocation(mine, c, d), "residual")
          = d - (SumFunctionOnSet([h \in DOMAIN mine |-> mine[h].marketValue],
                                  DOMAIN mine) + c)
    BY <1>6, <2>2, RestOf
  <2> QED
    BY <1>6, <2>1, <2>3
<1>8. Slice(AccountAllocation(s, hs, a), "residual")
        = row.aggregate + row.residual
  <2>1. row.providerTotal - ((held + optioned) + row.cash)
          = row.aggregate + row.residual
    BY <1>4, <1>5
  <2> QED
    BY <1>1, <1>7, <2>1 DEF AccountAllocation
<1>9. accountSummaries(s, hs)[a].holdingsCount
        = Cardinality({h \in DOMAIN hs : a \in DOMAIN hs[h].accounts})
  BY DEF accountSummaries
<1> QED
  BY <1>1, <1>6, <1>8, <1>9

\* A basis that is known is the sum of those of the rows.
LEMMA BasisIs ==
  ASSUME NEW S, IsFiniteSet(S), \A r \in S : r.basis \in Int \cup {Unknown},
         Basis(S) # Unknown, NEW rows \in SUBSET S
  PROVE  LET basis == [r \in S |-> r.basis] IN
         /\ \A r \in S : basis[r] \in Int
         /\ Basis(rows) = SumFunctionOnSet(basis, rows)
         /\ Basis(rows) \in Int
<1>1. PICK f, g : f = [r \in rows |-> r.basis] /\ g = [r \in S |-> r.basis]
  OBVIOUS
<1>2. \A r \in S : r.basis # Unknown
  BY DEF Basis
<1>3. \A r \in S : g[r] \in Int
  BY <1>1, <1>2
<1>4. \A r \in rows : f[r] \in Int /\ f[r] = g[r]
  BY <1>1, <1>3
<1>5. IsFiniteSet(rows)
  BY FS_Subset
<1>6. SumFunctionOnSet(f, rows) = SumFunctionOnSet(g, rows)
  BY <1>4, <1>5, SumSame
<1>7. SumFunctionOnSet(f, rows) \in Int
  BY <1>4, <1>5, SumType
<1>8. Basis(rows) = SumFunctionOnSet(f, rows)
  BY <1>1, <1>2 DEF Basis, SumOf
<1> QED
  BY <1>1, <1>3, <1>6, <1>7, <1>8

\* A holding and the parts the accounts have in it.
LEMMA HoldingAgrees ==
  ASSUME NEW s, RowsTyped(s), NEW hs, hs = buildHoldings(s), NEW h \in DOMAIN hs
  PROVE  LET shared == DOMAIN hs[h].accounts
             part == [a \in shared |-> Scoped(s, hs, a, h).marketValue]
             gain == [a \in shared |-> Scoped(s, hs, a, h).unrealizedPnl]
         IN /\ SumFunctionOnSet(part, shared) = hs[h].marketValue
            /\ hs[h].unrealizedPnl # Unknown =>
                 SumFunctionOnSet(gain, shared) = hs[h].unrealizedPnl
<1>1. PICK R, I, part, gain :
        /\ R = RowsOf(s, h) /\ I = DOMAIN hs[h].accounts
        /\ part = [a \in I |-> Scoped(s, hs, a, h).marketValue]
        /\ gain = [a \in I |-> Scoped(s, hs, a, h).unrealizedPnl]
  OBVIOUS
<1>2. /\ R \in SUBSET s.positions \/ R = s.options
      /\ h # Options => R \in SUBSET s.positions
  BY <1>1 DEF RowsOf
<1>3. IsFiniteSet(R) /\ \A r \in R : r.account \in Accounts /\ r.value \in Int
  BY <1>2, FS_Subset DEF RowsTyped
<1>4. /\ \A a : a \in I <=> \E r \in R : r.account = a
      /\ \A a \in I : hs[h].accounts[a] = TotalOf({r \in R : r.account = a})
      /\ hs[h].marketValue = TotalOf(R)
      /\ hs[h] = Holding(s, h)
  <2>1. /\ hs[h] = Holding(s, h)
        /\ hs[h].marketValue = TotalOf(RowsOf(s, h))
    BY HoldingIs
  <2>2. \A a : a \in DOMAIN hs[h].accounts <=> \E r \in RowsOf(s, h) : r.account = a
    BY HoldingIs
  <2>3. \A a \in DOMAIN hs[h].accounts :
          hs[h].accounts[a] = TotalOf({r \in RowsOf(s, h) : r.account = a})
    BY HoldingIs
  <2> QED
    BY <1>1, <2>1, <2>2, <2>3
<1>5. IsFiniteSet(I)
  <2>1. I \in SUBSET Accounts
    BY <1>3, <1>4
  <2> QED
    BY <2>1, FiguresConstants, FS_Subset
<1>6. \A r \in R : r.account \in I
  BY <1>4
<1>7. \A a \in I : part[a] = TotalOf({r \in R : r.account = a})
  BY <1>1, <1>4 DEF Scoped
<1>8. SumFunctionOnSet(part, I) = TotalOf(R)
  BY <1>3, <1>5, <1>6, <1>7, TotalByAccount
<1>9. ASSUME hs[h].unrealizedPnl # Unknown
      PROVE  SumFunctionOnSet(gain, I) = hs[h].unrealizedPnl
  <2>1. PICK x : x = hs[h]
    OBVIOUS
  <2>2. x.unrealizedPnl = Pnl(TotalOf(R), IF h = Options THEN Unknown ELSE Basis(R))
    BY <1>1, <1>4, <2>1 DEF Holding
  <2>3. h # Options /\ Basis(R) # Unknown
    BY <1>9, <2>1, <2>2 DEF Pnl
  <2>4. x.unrealizedPnl = TotalOf(R) - Basis(R)
    BY <2>2, <2>3 DEF Pnl
  <2>5. \A r \in R : r.basis \in Int \cup {Unknown}
    BY <1>2, <2>3 DEF RowsTyped
  <2>6. PICK cost, costs : /\ cost = [r \in R |-> r.basis]
                           /\ costs = [a \in I |-> Basis({r \in R : r.account = a})]
    OBVIOUS
  <2>7. /\ \A r \in R : cost[r] \in Int
        /\ Basis(R) = SumFunctionOnSet(cost, R) /\ Basis(R) \in Int
    BY <1>3, <2>3, <2>5, <2>6, BasisIs
  <2>8. \A a \in I : /\ costs[a] = SumFunctionOnSet(cost, {r \in R : r.account = a})
                     /\ costs[a] \in Int
    <3> TAKE a \in I
    <3>1. PICK rows : rows = {r \in R : r.account = a}
      OBVIOUS
    <3>2. rows \in SUBSET R
      BY <3>1
    <3>3. Basis(rows) = SumFunctionOnSet(cost, rows) /\ Basis(rows) \in Int
      BY <1>3, <2>3, <2>5, <2>6, <3>2, BasisIs
    <3> QED
      BY <2>6, <3>1, <3>3
  <2>9. SumFunctionOnSet(costs, I) = Basis(R)
    <3>1. \A a \in I : costs[a] = SumFunctionOnSet(cost, {r \in R : r.account = a})
      BY <2>8
    <3>2. \A r \in R : cost[r] \in Int
      BY <2>7
    <3>3. SumFunctionOnSet(costs, I) = SumFunctionOnSet(cost, R)
      BY <1>3, <1>5, <1>6, <3>1, <3>2, ByAccount
    <3> QED
      BY <2>7, <3>3
  <2>10. \A a \in I : part[a] \in Int
    <3> TAKE a \in I
    <3>1. {r \in R : r.account = a} \in SUBSET R
      OBVIOUS
    <3>2. TotalOf({r \in R : r.account = a}) \in Int
      BY <1>3, <3>1, TotalIs
    <3> QED
      BY <1>7, <3>2
  <2>11. \A a \in I : gain[a] = part[a] - costs[a]
    <3> TAKE a \in I
    <3>1. PICK y : y = Scoped(s, hs, a, h)
      OBVIOUS
    <3>2. /\ y.marketValue = hs[h].accounts[a]
          /\ y.unrealizedPnl = Pnl(hs[h].accounts[a],
                                   IF h = Options THEN Unknown
                                   ELSE Basis({r \in R : r.account = a}))
      BY <1>1, <3>1 DEF Scoped
    <3>3. costs[a] = Basis({r \in R : r.account = a}) /\ costs[a] # Unknown
      BY <2>6, <2>8, FiguresConstants
    <3>4. part[a] = hs[h].accounts[a]
      BY <1>1, <3>1, <3>2
    <3>5. y.unrealizedPnl = part[a] - costs[a]
      BY <2>3, <3>2, <3>3, <3>4 DEF Pnl
    <3> QED
      BY <1>1, <3>1, <3>5
  <2>12. \A a \in I : /\ gain[a] \in Int /\ costs[a] \in Int
                      /\ part[a] = gain[a] + costs[a]
    <3> TAKE a \in I
    <3>1. gain[a] = part[a] - costs[a] /\ part[a] \in Int /\ costs[a] \in Int
      BY <2>8, <2>10, <2>11
    <3>2. PICK b, c, d : b = gain[a] /\ c = part[a] /\ d = costs[a]
      OBVIOUS
    <3>3. b \in Int /\ c = b + d
      BY <3>1, <3>2
    <3> QED
      BY <3>1, <3>2, <3>3
  <2>13. SumFunctionOnSet(part, I)
           = SumFunctionOnSet(gain, I) + SumFunctionOnSet(costs, I)
    BY <1>5, <2>12, SumPlus
  <2>14. SumFunctionOnSet(gain, I) \in Int
    BY <1>5, <2>12, SumType
  <2>15. PICK b, c, d : /\ b = SumFunctionOnSet(gain, I) /\ c = Basis(R)
                        /\ d = TotalOf(R)
    OBVIOUS
  <2>16. d = b + c /\ b \in Int /\ c \in Int
    BY <1>8, <2>7, <2>9, <2>13, <2>14, <2>15
  <2> QED
    BY <2>1, <2>4, <2>15, <2>16
<1> QED
  BY <1>1, <1>4, <1>8, <1>9

-----------------------------------------------------------------------------
(***************************************************************************)
(* What a portfolio is worth.                                              *)
(***************************************************************************)
StockIn(p, a) ==
  SumFunctionOnSet([x \in Securities |-> StockValue(p, a, x)], Securities)
OptionsIn(p, a) ==
  SumFunctionOnSet([o \in OptionIds |-> OptionValue(p, a, o)], OptionIds)

LEMMA PortfolioParts ==
  ASSUME NEW p \in PortfolioType
  PROVE  /\ p.price \in [Securities -> Int] /\ p.mark \in [OptionIds -> Int]
         /\ p.status \in [Accounts -> {"active", "closed"}]
         /\ p.cash \in [Accounts -> Int] /\ p.other \in [Accounts -> Int]
         /\ p.shares \in [Accounts -> [Securities -> Int]]
         /\ p.contracts \in [Accounts -> [OptionIds -> Int]]
         /\ p.basis \in [Accounts -> [Securities -> Int \cup {Unknown}]]
BY DEF PortfolioType

LEMMA WorthIs ==
  ASSUME NEW p \in PortfolioType, NEW a \in Accounts
  PROVE  /\ p.cash[a] \in Int /\ p.other[a] \in Int
         /\ \A x \in Securities : StockValue(p, a, x) \in Int
         /\ \A o \in OptionIds : OptionValue(p, a, o) \in Int
         /\ StockIn(p, a) \in Int /\ OptionsIn(p, a) \in Int
         /\ Worth(p, a) = p.cash[a] + p.other[a] + StockIn(p, a)
                            + OptionsIn(p, a)
         /\ Worth(p, a) \in Int
<1>1. p.cash[a] \in Int /\ p.other[a] \in Int
  BY PortfolioParts
<1>2. \A x \in Securities : StockValue(p, a, x) \in Int
  <2> TAKE x \in Securities
  <2>1. p.shares[a][x] \in Int /\ p.price[x] \in Int
    BY PortfolioParts
  <2> QED
    BY <2>1 DEF StockValue
<1>3. \A o \in OptionIds : OptionValue(p, a, o) \in Int
  <2> TAKE o \in OptionIds
  <2>1. p.contracts[a][o] \in Int /\ p.mark[o] \in Int
    BY PortfolioParts
  <2> QED
    BY <2>1 DEF OptionValue
<1>4. PICK f, g : /\ f = [x \in Securities |-> StockValue(p, a, x)]
                  /\ g = [o \in OptionIds |-> OptionValue(p, a, o)]
  OBVIOUS
<1>5. (\A x \in Securities : f[x] \in Int) /\ \A o \in OptionIds : g[o] \in Int
  BY <1>2, <1>3, <1>4
<1>6. /\ SumFunctionOnSet(f, Securities) \in Int
      /\ SumFunctionOnSet(g, OptionIds) \in Int
  BY <1>5, FiguresConstants, SumType
<1>7. Worth(p, a) = p.cash[a] + p.other[a] + StockIn(p, a) + OptionsIn(p, a)
  BY DEF Worth, StockIn, OptionsIn, SumOf
<1>8. StockIn(p, a) \in Int /\ OptionsIn(p, a) \in Int
  BY <1>4, <1>6 DEF StockIn, OptionsIn
<1> QED
  BY <1>1, <1>2, <1>3, <1>7, <1>8

LEMMA PortfolioWorthIs ==
  ASSUME NEW p \in PortfolioType
  PROVE  /\ PortfolioWorth(p)
              = SumFunctionOnSet([a \in Accounts |-> Worth(p, a)], Accounts)
         /\ PortfolioWorth(p) \in Int
<1>1. PICK f : f = [a \in Accounts |-> Worth(p, a)]
  OBVIOUS
<1>2. \A a \in Accounts : f[a] \in Int
  BY <1>1, WorthIs
<1>3. SumFunctionOnSet(f, Accounts) \in Int
  BY <1>2, FiguresConstants, SumType
<1>4. PortfolioWorth(p) = SumFunctionOnSet(f, Accounts)
  BY <1>1 DEF PortfolioWorth, SumOf
<1> QED
  BY <1>1, <1>3, <1>4

\* What changes the worth of one account changes the portfolio's as much.
LEMMA OneAccount ==
  ASSUME NEW p \in PortfolioType, NEW q \in PortfolioType,
         NEW a \in Accounts, NEW d \in Int,
         Worth(q, a) = Worth(p, a) + d,
         \A b \in Accounts : b # a => Worth(q, b) = Worth(p, b)
  PROVE  PortfolioWorth(q) = PortfolioWorth(p) + d
<1>1. PICK f, g : /\ f = [b \in Accounts |-> Worth(p, b)]
                  /\ g = [b \in Accounts |-> Worth(q, b)]
  OBVIOUS
<1>2. \A b \in Accounts : f[b] \in Int /\ g[b] \in Int
  BY <1>1, WorthIs
<1>3. \A b \in Accounts \ {a} : f[b] = g[b]
  BY <1>1
<1>4. SumFunctionOnSet(g, Accounts) - SumFunctionOnSet(f, Accounts) = g[a] - f[a]
  BY <1>2, <1>3, FiguresConstants, SumChange
<1>5. g[a] = f[a] + d
  BY <1>1
<1>6. PICK v, w : v = PortfolioWorth(p) /\ w = PortfolioWorth(q)
  OBVIOUS
<1>7. v \in Int /\ w \in Int /\ w - v = g[a] - f[a]
  BY <1>1, <1>4, <1>6, PortfolioWorthIs
<1>8. w = v + d
  BY <1>2, <1>5, <1>7
<1> QED
  BY <1>6, <1>8

\* Nothing but the cash of an account is another.
LEMMA OnlyCash ==
  ASSUME NEW p \in PortfolioType, NEW q \in PortfolioType, NEW a \in Accounts,
         q.shares[a] = p.shares[a], q.contracts[a] = p.contracts[a],
         q.price = p.price, q.mark = p.mark, q.other[a] = p.other[a]
  PROVE  Worth(q, a) = Worth(p, a) + (q.cash[a] - p.cash[a])
<1>1. StockIn(q, a) = StockIn(p, a) /\ OptionsIn(q, a) = OptionsIn(p, a)
  BY DEF StockIn, OptionsIn, StockValue, OptionValue
<1>2. PICK b, c, d, e, f :
        /\ b = p.cash[a] /\ c = p.other[a] /\ d = StockIn(p, a)
        /\ e = OptionsIn(p, a) /\ f = q.cash[a]
  OBVIOUS
<1>3. /\ b \in Int /\ c \in Int /\ d \in Int /\ e \in Int /\ f \in Int
      /\ Worth(p, a) = b + c + d + e /\ Worth(q, a) = f + c + d + e
  BY <1>1, <1>2, WorthIs
<1>4. f + c + d + e = (b + c + d + e) + (f - b)
  BY <1>3
<1> QED
  BY <1>2, <1>3, <1>4

\* Nothing but the shares of one security and the cash of an account is.
LEMMA OnlyTraded ==
  ASSUME NEW p \in PortfolioType, NEW q \in PortfolioType, NEW a \in Accounts,
         NEW x \in Securities,
         \A y \in Securities : y # x => q.shares[a][y] = p.shares[a][y],
         q.contracts[a] = p.contracts[a],
         q.price = p.price, q.mark = p.mark, q.other[a] = p.other[a],
         q.cash[a] = p.cash[a] - (StockValue(q, a, x) - StockValue(p, a, x))
  PROVE  Worth(q, a) = Worth(p, a)
<1>1. OptionsIn(q, a) = OptionsIn(p, a)
  BY DEF OptionsIn, OptionValue
<1>2. PICK f, g : /\ f = [y \in Securities |-> StockValue(p, a, y)]
                  /\ g = [y \in Securities |-> StockValue(q, a, y)]
  OBVIOUS
<1>3. \A y \in Securities : f[y] \in Int /\ g[y] \in Int
  BY <1>2, WorthIs
<1>4. \A y \in Securities \ {x} : f[y] = g[y]
  BY <1>2 DEF StockValue
<1>5. SumFunctionOnSet(g, Securities) - SumFunctionOnSet(f, Securities)
        = g[x] - f[x]
  BY <1>3, <1>4, FiguresConstants, SumChange
<1>6. PICK b, c, d, e, h, u, v :
        /\ b = p.cash[a] /\ c = p.other[a] /\ d = StockIn(p, a)
        /\ e = OptionsIn(p, a) /\ h = StockIn(q, a)
        /\ u = StockValue(p, a, x) /\ v = StockValue(q, a, x)
  OBVIOUS
<1>7. /\ b \in Int /\ c \in Int /\ d \in Int /\ e \in Int /\ h \in Int
      /\ u \in Int /\ v \in Int
  BY <1>6, WorthIs
<1>8. h - d = v - u
  BY <1>2, <1>5, <1>6 DEF StockIn
<1>9. /\ Worth(p, a) = b + c + d + e
      /\ Worth(q, a) = (b - (v - u)) + c + h + e
  BY <1>1, <1>6, WorthIs
<1> QED
  BY <1>7, <1>8, <1>9

-----------------------------------------------------------------------------
(***************************************************************************)
(* What happens, and what the records say of it.                           *)
(***************************************************************************)
Flow(t) == IF t.what \in ExternalKinds THEN t.amount ELSE 0

\* A record says when it was or on what day, and what it was or not.
RecordTrue(t) ==
  /\ t.at \in Nat /\ t.amount \in Int
  /\ t.timestampPrecision \in {"date", "instant"}
  /\ t.effectiveAt = IF t.timestampPrecision = "date"
                     THEN t.at - (t.at % DayLength) ELSE t.at
  /\ t.kind \in {"unknown", t.what} /\ t.what # "unknown"

\* q comes of it: the markets' doing, and what was paid in or out.
Leads(q, made, T) ==
  \/ T = {} /\ PortfolioWorth(q) = PortfolioWorth(portfolio) + made
  \/ \E t : /\ T = {t} /\ RecordTrue(t) /\ t.at = now
            /\ PortfolioWorth(q) = PortfolioWorth(portfolio) + made + Flow(t)

Event ==
  \E q \in PortfolioType, made \in Int : \E T :
    Leads(q, made, T) /\ Happens(q, made, T)

LEMMA RecordedTrue ==
  ASSUME now \in Nat, NEW kind, kind # "unknown", NEW amount \in Int, NEW how
  PROVE  LET t == Recorded(kind, amount, how) IN
         /\ RecordTrue(t) /\ t.at = now
         /\ Flow(t) = IF kind \in ExternalKinds THEN amount ELSE 0
BY DEF Recorded, RecordTrue, Flow

LEMMA RevaluedEvent ==
  ASSUME portfolio \in PortfolioType, NEW q \in PortfolioType,
         Happens(q, PortfolioWorth(q) - PortfolioWorth(portfolio), {})
  PROVE  Event
<1>1. PICK v, w : v = PortfolioWorth(portfolio) /\ w = PortfolioWorth(q)
  OBVIOUS
<1>2. v \in Int /\ w \in Int
  BY <1>1, PortfolioWorthIs
<1>3. w - v \in Int /\ w = v + (w - v)
  BY <1>2
<1>4. Leads(q, w - v, {})
  BY <1>1, <1>3 DEF Leads
<1> QED
  BY <1>1, <1>3, <1>4 DEF Event

LEMMA RecordedEvent ==
  ASSUME now \in Nat, portfolio \in PortfolioType, NEW q \in PortfolioType,
         NEW kind, kind # "unknown", NEW amount \in Int, NEW how,
         NEW made \in Int, NEW flow \in Int,
         flow = IF kind \in ExternalKinds THEN amount ELSE 0,
         PortfolioWorth(q) = PortfolioWorth(portfolio) + (made + flow),
         Happens(q, made, {Recorded(kind, amount, how)})
  PROVE  Event
<1>1. PICK t : t = Recorded(kind, amount, how)
  OBVIOUS
<1>2. RecordTrue(t) /\ t.at = now /\ Flow(t) = flow
  BY <1>1, RecordedTrue
<1>3. PICK v, w : v = PortfolioWorth(portfolio) /\ w = PortfolioWorth(q)
  OBVIOUS
<1>4. v \in Int /\ w = v + made + flow
  <2>1. v \in Int
    BY <1>3, PortfolioWorthIs
  <2>2. w = v + (made + flow)
    BY <1>3
  <2> QED
    BY <2>1, <2>2
<1>5. Leads(q, made, {t})
  BY <1>2, <1>3, <1>4 DEF Leads
<1> QED
  BY <1>1, <1>5 DEF Event

LEMMA PaidWorth ==
  ASSUME NEW p \in PortfolioType, NEW a \in Accounts, NEW d \in Int, NEW q,
         q = [p EXCEPT !.cash[a] = @ + d]
  PROVE  q \in PortfolioType /\ PortfolioWorth(q) = PortfolioWorth(p) + d
<1>1. /\ q.shares = p.shares /\ q.contracts = p.contracts /\ q.price = p.price
      /\ q.mark = p.mark /\ q.other = p.other /\ q.basis = p.basis
      /\ q.status = p.status /\ q.cash = [p.cash EXCEPT ![a] = p.cash[a] + d]
  BY DEF PortfolioType
<1>2. q.cash \in [Accounts -> Int]
  <2>1. p.cash \in [Accounts -> Int]
    BY PortfolioParts
  <2> QED
    BY <1>1, <2>1
<1>3. q \in PortfolioType
  BY <1>2 DEF PortfolioType
<1>4. \A b \in Accounts : Worth(q, b) = Worth(p, b) + (q.cash[b] - p.cash[b])
  BY <1>1, <1>3, OnlyCash
<1>5. \A b \in Accounts :
        /\ p.cash[b] \in Int /\ Worth(p, b) \in Int
        /\ q.cash[b] = IF b = a THEN p.cash[b] + d ELSE p.cash[b]
  BY <1>1, WorthIs, PortfolioParts
<1>6. Worth(q, a) = Worth(p, a) + d
  BY <1>4, <1>5
<1>7. \A b \in Accounts : b # a => Worth(q, b) = Worth(p, b)
  BY <1>4, <1>5
<1> QED
  BY <1>3, <1>6, <1>7, OneAccount

LEMMA Payments ==
  ASSUME now \in Nat, portfolio \in PortfolioType,
         NEW a \in Accounts, NEW n \in Amounts, NEW how,
         \/ PayIn(a, n, how) \/ PayOut(a, n) \/ ReceiveDividend(a, n, how)
  PROVE  Event
<1>1. n \in Int /\ -n \in Int
  BY FiguresConstants
<1>2. PICK q, r : /\ q = [portfolio EXCEPT !.cash[a] = @ + n]
                  /\ r = [portfolio EXCEPT !.cash[a] = @ + (-n)]
  OBVIOUS
<1>3. /\ q \in PortfolioType
      /\ PortfolioWorth(q) = PortfolioWorth(portfolio) + n
  BY <1>1, <1>2, PaidWorth
<1>4. /\ r \in PortfolioType
      /\ PortfolioWorth(r) = PortfolioWorth(portfolio) + (-n)
  BY <1>1, <1>2, PaidWorth
<1>5. CASE PayIn(a, n, how)
  <2>1. Happens(q, 0, {Recorded("deposit", n, how)})
    BY <1>2, <1>5 DEF PayIn
  <2>2. n = IF "deposit" \in ExternalKinds THEN n ELSE 0
    BY DEF ExternalKinds
  <2>3. "deposit" # "unknown" /\ 0 \in Int /\ 0 + n = n
    BY <1>1
  <2> QED
    BY <1>1, <1>3, <2>1, <2>2, <2>3, RecordedEvent
<1>6. CASE PayOut(a, n)
  <2>1. r = [portfolio EXCEPT !.cash[a] = @ - n]
    <3>1. portfolio.cash[a] \in Int
      BY PortfolioParts
    <3>2. portfolio.cash[a] - n = portfolio.cash[a] + (-n)
      BY <1>1, <3>1
    <3> QED
      BY <1>2, <3>2
  <2>2. Happens(r, 0, {Recorded("withdrawal", -n, "instant")})
    BY <1>6, <2>1 DEF PayOut
  <2>3. -n = IF "withdrawal" \in ExternalKinds THEN -n ELSE 0
    BY DEF ExternalKinds
  <2>4. "withdrawal" # "unknown" /\ 0 \in Int /\ 0 + (-n) = -n
    BY <1>1
  <2> QED
    BY <1>1, <1>4, <2>2, <2>3, <2>4, RecordedEvent
<1>7. CASE ReceiveDividend(a, n, how)
  <2>1. Happens(q, n, {Recorded("dividend", n, how)})
    BY <1>2, <1>7 DEF ReceiveDividend
  <2>2. 0 = IF "dividend" \in ExternalKinds THEN n ELSE 0
    BY DEF ExternalKinds
  <2>3. "dividend" # "unknown" /\ 0 \in Int /\ n + 0 = n
    BY <1>1
  <2> QED
    BY <1>1, <1>3, <2>1, <2>2, <2>3, RecordedEvent
<1> QED
  BY <1>5, <1>6, <1>7

LEMMA CashMoved ==
  ASSUME now \in Nat, portfolio \in PortfolioType,
         NEW a \in Accounts, NEW b \in Accounts, NEW n \in Amounts,
         MoveCash(a, b, n)
  PROVE  Event
<1>1. n \in Int /\ -n \in Int
  BY FiguresConstants
<1>2. PICK r, q : /\ r = [portfolio EXCEPT !.cash[a] = @ + (-n)]
                  /\ q = [r EXCEPT !.cash[b] = @ + n]
  OBVIOUS
<1>3. /\ r \in PortfolioType
      /\ PortfolioWorth(r) = PortfolioWorth(portfolio) + (-n)
  BY <1>1, <1>2, PaidWorth
<1>4. /\ q \in PortfolioType
      /\ PortfolioWorth(q) = PortfolioWorth(r) + n
  BY <1>1, <1>2, <1>3, PaidWorth
<1>5. q = [portfolio EXCEPT !.cash[a] = @ - n, !.cash[b] = @ + n]
  <2>1. portfolio.cash[a] \in Int
    BY PortfolioParts
  <2>2. portfolio.cash[a] - n = portfolio.cash[a] + (-n)
    BY <1>1, <2>1
  <2>3. r = [portfolio EXCEPT !.cash[a] = @ - n]
    BY <1>2, <2>2
  <2>4. a # b
    BY DEF MoveCash
  <2>5. portfolio.cash \in [Accounts -> Int]
    BY PortfolioParts
  <2> QED
    BY <1>2, <2>3, <2>4, <2>5
<1>6. Happens(q, 0, {Recorded("internal_transfer", n, "instant")})
  BY <1>5 DEF MoveCash
<1>7. PortfolioWorth(q) = PortfolioWorth(portfolio) + (0 + 0)
  <2>1. PICK v, u, w : /\ v = PortfolioWorth(portfolio)
                       /\ u = PortfolioWorth(r) /\ w = PortfolioWorth(q)
    OBVIOUS
  <2>2. v \in Int
    BY <2>1, PortfolioWorthIs
  <2>3. u = v + (-n) /\ w = u + n
    BY <1>3, <1>4, <2>1
  <2> QED
    BY <1>1, <2>1, <2>2, <2>3
<1>8. 0 = IF "internal_transfer" \in ExternalKinds THEN n ELSE 0
  BY DEF ExternalKinds
<1>9. "internal_transfer" # "unknown" /\ 0 \in Int
  OBVIOUS
<1> QED
  BY <1>1, <1>4, <1>6, <1>7, <1>8, <1>9, RecordedEvent

LEMMA Revalued ==
  ASSUME portfolio \in PortfolioType,
         \/ \E x \in Securities, n \in Prices : PriceMoves(x, n)
         \/ \E o \in OptionIds, n \in Marks : MarkMoves(o, n)
  PROVE  Event
<1>1. CASE \E x \in Securities, n \in Prices : PriceMoves(x, n)
  <2>1. PICK x \in Securities, n \in Prices : PriceMoves(x, n)
    BY <1>1
  <2>2. PICK q : q = [portfolio EXCEPT !.price[x] = n]
    OBVIOUS
  <2>3. q \in PortfolioType
    BY <2>2, FiguresConstants DEF PortfolioType
  <2>4. Happens(q, PortfolioWorth(q) - PortfolioWorth(portfolio), {})
    BY <2>1, <2>2 DEF PriceMoves
  <2> QED
    BY <2>3, <2>4, RevaluedEvent
<1>2. CASE \E o \in OptionIds, n \in Marks : MarkMoves(o, n)
  <2>1. PICK o \in OptionIds, n \in Marks : MarkMoves(o, n)
    BY <1>2
  <2>2. PICK q : q = [portfolio EXCEPT !.mark[o] = n]
    OBVIOUS
  <2>3. q \in PortfolioType
    BY <2>2, FiguresConstants DEF PortfolioType
  <2>4. Happens(q, PortfolioWorth(q) - PortfolioWorth(portfolio), {})
    BY <2>1, <2>2 DEF MarkMoves
  <2> QED
    BY <2>3, <2>4, RevaluedEvent
<1> QED
  BY <1>1, <1>2

LEMMA AccountClosed ==
  ASSUME portfolio \in PortfolioType, NEW a \in Accounts, CloseAccount(a)
  PROVE  Event
<1>1. PICK q : q = [portfolio EXCEPT !.status[a] = "closed"]
  OBVIOUS
<1>2. /\ q \in PortfolioType
      /\ q.shares = portfolio.shares /\ q.contracts = portfolio.contracts
      /\ q.price = portfolio.price /\ q.mark = portfolio.mark
      /\ q.cash = portfolio.cash /\ q.other = portfolio.other
  BY <1>1 DEF PortfolioType
<1>3. \A b \in Accounts :
        Worth(q, b) = Worth(portfolio, b) + (q.cash[b] - portfolio.cash[b])
  BY <1>2, OnlyCash
<1>4. \A b \in Accounts : /\ Worth(q, b) = Worth(portfolio, b)
                          /\ Worth(q, b) = Worth(portfolio, b) + 0
  <2> TAKE b \in Accounts
  <2>1. portfolio.cash[b] \in Int /\ Worth(portfolio, b) \in Int
    BY WorthIs
  <2> QED
    BY <1>2, <1>3, <2>1
<1>5. PortfolioWorth(q) = PortfolioWorth(portfolio) + 0
  BY <1>2, <1>4, OneAccount
<1>6. Happens(q, 0, {})
  BY <1>1 DEF CloseAccount
<1>7. Leads(q, 0, {})
  BY <1>5 DEF Leads
<1> QED
  BY <1>2, <1>6, <1>7 DEF Event

\* There are k shares then, paid for or sold at their price.
Trade(p, q, a, x, k, c, b) ==
  /\ q = [p EXCEPT !.shares[a][x] = k, !.cash[a] = c, !.basis[a][x] = b]
  /\ c = p.cash[a] - (k * p.price[x] - p.shares[a][x] * p.price[x])

LEMMA TradedWorth ==
  ASSUME NEW p \in PortfolioType, NEW a \in Accounts, NEW x \in Securities,
         NEW k \in Int, NEW c \in Int, NEW b \in Int \cup {Unknown}, NEW q,
         Trade(p, q, a, x, k, c, b)
  PROVE  q \in PortfolioType /\ PortfolioWorth(q) = PortfolioWorth(p) + 0
<1>1. /\ q.contracts = p.contracts /\ q.price = p.price /\ q.mark = p.mark
      /\ q.other = p.other /\ q.status = p.status
      /\ q.shares = [p.shares EXCEPT ![a][x] = k]
      /\ q.cash = [p.cash EXCEPT ![a] = c]
      /\ q.basis = [p.basis EXCEPT ![a][x] = b]
  BY DEF PortfolioType, Trade
<1>2. q \in PortfolioType
  <2>1. q.shares \in [Accounts -> [Securities -> Int]]
    BY <1>1, PortfolioParts
  <2>2. q.cash \in [Accounts -> Int]
    BY <1>1, PortfolioParts
  <2>3. q.basis \in [Accounts -> [Securities -> Int \cup {Unknown}]]
    BY <1>1, PortfolioParts
  <2>4. q = [p EXCEPT !.shares = q.shares, !.cash = q.cash, !.basis = q.basis]
    BY <1>1 DEF PortfolioType, Trade
  <2> QED
    BY <2>1, <2>2, <2>3, <2>4 DEF PortfolioType
<1>3. /\ q.shares[a][x] = k /\ q.cash[a] = c
      /\ \A y \in Securities : y # x => q.shares[a][y] = p.shares[a][y]
      /\ \A d \in Accounts : d # a => /\ q.shares[d] = p.shares[d]
                                     /\ q.cash[d] = p.cash[d]
  BY <1>1, PortfolioParts
<1>4. Worth(q, a) = Worth(p, a)
  <2>1. /\ StockValue(q, a, x) = k * p.price[x]
        /\ StockValue(p, a, x) = p.shares[a][x] * p.price[x]
    BY <1>1, <1>3 DEF StockValue
  <2>2. q.cash[a] = p.cash[a] - (StockValue(q, a, x) - StockValue(p, a, x))
    BY <1>3, <2>1 DEF Trade
  <2>3. /\ q.contracts[a] = p.contracts[a] /\ q.price = p.price
        /\ q.mark = p.mark /\ q.other[a] = p.other[a]
    BY <1>1
  <2>4. \A y \in Securities : y # x => q.shares[a][y] = p.shares[a][y]
    BY <1>3
  <2> QED
    BY <1>2, <2>2, <2>3, <2>4, OnlyTraded
<1>5. \A d \in Accounts : d # a => Worth(q, d) = Worth(p, d)
  <2> SUFFICES ASSUME NEW d \in Accounts, d # a
               PROVE  Worth(q, d) = Worth(p, d)
    OBVIOUS
  <2>1. /\ q.shares[d] = p.shares[d] /\ q.contracts[d] = p.contracts[d]
        /\ q.price = p.price /\ q.mark = p.mark /\ q.other[d] = p.other[d]
        /\ q.cash[d] = p.cash[d]
    BY <1>1, <1>3
  <2>2. Worth(q, d) = Worth(p, d) + (q.cash[d] - p.cash[d])
    BY <1>2, <2>1, OnlyCash
  <2>3. p.cash[d] \in Int /\ Worth(p, d) \in Int
    BY WorthIs
  <2> QED
    BY <2>1, <2>2, <2>3
<1>6. Worth(q, a) = Worth(p, a) + 0
  <2>1. Worth(p, a) \in Int
    BY WorthIs
  <2> QED
    BY <1>4, <2>1
<1> QED
  BY <1>2, <1>5, <1>6, OneAccount

LEMMA Traded ==
  ASSUME now \in Nat, portfolio \in PortfolioType,
         NEW a \in Accounts, NEW x \in Securities,
         BuyStock(a, x) \/ SellOut(a, x)
  PROVE  Event
<1>1. PICK shares, price, cash, basis :
        /\ shares = portfolio.shares[a][x] /\ price = portfolio.price[x]
        /\ cash = portfolio.cash[a] /\ basis = portfolio.basis[a][x]
  OBVIOUS
<1>2. /\ shares \in Int /\ price \in Int /\ cash \in Int
      /\ basis \in Int \cup {Unknown}
  BY <1>1, PortfolioParts
<1>3. ASSUME NEW amount \in Int, NEW q \in PortfolioType,
             PortfolioWorth(q) = PortfolioWorth(portfolio) + 0,
             Happens(q, 0, {Recorded("trade", amount, "instant")})
      PROVE  Event
  <2>1. 0 = IF "trade" \in ExternalKinds THEN amount ELSE 0
    BY DEF ExternalKinds
  <2>2. "trade" # "unknown" /\ 0 \in Int /\ 0 + 0 = 0
    OBVIOUS
  <2> QED
    BY <1>3, <2>1, <2>2, RecordedEvent
<1>4. CASE BuyStock(a, x)
  <2>1. PICK q : q = [portfolio EXCEPT !.shares[a][x] = shares + 1,
                                       !.cash[a] = cash - price,
                                       !.basis[a][x] = Plus(basis, price)]
    OBVIOUS
  <2>2. q = [portfolio EXCEPT !.shares[a][x] = @ + 1, !.cash[a] = @ - price,
                              !.basis[a][x] = Plus(@, price)]
    BY <1>1, <2>1
  <2>3. Happens(q, 0, {Recorded("trade", -price, "instant")})
    BY <1>1, <1>4, <2>2 DEF BuyStock
  <2>4. Plus(basis, price) \in Int \cup {Unknown}
    BY <1>2 DEF Plus
  <2>5. cash - price = cash - ((shares + 1) * price - shares * price)
    BY <1>2
  <2>6. /\ shares + 1 \in Int /\ cash - price \in Int /\ -price \in Int
    BY <1>2
  <2>7. PICK k, c, b : /\ k = shares + 1 /\ c = cash - price
                       /\ b = Plus(basis, price)
    OBVIOUS
  <2>8. q = [portfolio EXCEPT !.shares[a][x] = k, !.cash[a] = c,
                              !.basis[a][x] = b]
    BY <2>1, <2>7
  <2>9. c = portfolio.cash[a] - (k * portfolio.price[x]
                                  - portfolio.shares[a][x] * portfolio.price[x])
    BY <1>1, <2>5, <2>7
  <2>10. k \in Int /\ c \in Int /\ b \in Int \cup {Unknown}
    BY <2>4, <2>6, <2>7
  <2>11. /\ q \in PortfolioType
         /\ PortfolioWorth(q) = PortfolioWorth(portfolio) + 0
    <3>1. Trade(portfolio, q, a, x, k, c, b)
      BY <2>8, <2>9 DEF Trade
    <3> QED
      BY <3>1, <2>10, TradedWorth
  <2> QED
    BY <1>3, <2>3, <2>6, <2>11
<1>5. CASE SellOut(a, x)
  <2>1. PICK q, proceeds :
          /\ proceeds = shares * price
          /\ q = [portfolio EXCEPT !.shares[a][x] = 0,
                                   !.cash[a] = cash + proceeds,
                                   !.basis[a][x] = 0]
    OBVIOUS
  <2>2. /\ q = [portfolio EXCEPT !.shares[a][x] = 0, !.basis[a][x] = 0,
                                 !.cash[a] = @ + proceeds]
        /\ proceeds = StockValue(portfolio, a, x)
    BY <1>1, <2>1 DEF StockValue, PortfolioType
  <2>3. Happens(q, 0, {Recorded("trade", proceeds, "instant")})
    BY <1>5, <2>2 DEF SellOut
  <2>4. proceeds \in Int /\ cash + proceeds \in Int
    BY <1>2, <2>1
  <2>5. cash + proceeds = cash - (0 * price - shares * price)
    BY <1>2, <2>1, <2>4
  <2>6. PICK k, c, b : k = 0 /\ c = cash + proceeds /\ b = 0
    OBVIOUS
  <2>7. q = [portfolio EXCEPT !.shares[a][x] = k, !.cash[a] = c,
                              !.basis[a][x] = b]
    BY <2>1, <2>6
  <2>8. c = portfolio.cash[a] - (k * portfolio.price[x]
                                  - portfolio.shares[a][x] * portfolio.price[x])
    BY <1>1, <2>5, <2>6
  <2>9. k \in Int /\ c \in Int /\ b \in Int \cup {Unknown}
    BY <2>4, <2>6
  <2>10. /\ q \in PortfolioType
         /\ PortfolioWorth(q) = PortfolioWorth(portfolio) + 0
    <3>1. Trade(portfolio, q, a, x, k, c, b)
      BY <2>7, <2>8 DEF Trade
    <3> QED
      BY <3>1, <2>9, TradedWorth
  <2> QED
    BY <1>3, <2>3, <2>4, <2>10
<1> QED
  BY <1>4, <1>5

-----------------------------------------------------------------------------
(***************************************************************************)
(* What a promotion stores is sound, and in sum what the portfolio is      *)
(* worth, but for the rounding.                                            *)
(***************************************************************************)
LEMMA ImageFinite ==
  ASSUME NEW S, IsFiniteSet(S), NEW f
  PROVE  IsFiniteSet({f[x] : x \in S})
<1>1. PICK T : T = {f[x] : x \in S}
  OBVIOUS
<1>2. PICK g : g = [x \in S |-> f[x]]
  OBVIOUS
<1>3. g \in Surjection(S, T)
  BY <1>1, <1>2 DEF Surjection
<1> QED
  BY <1>1, <1>3, FS_Surjection

LEMMA RowsSound ==
  ASSUME NEW p \in PortfolioType
  PROVE  /\ IsFiniteSet(PositionRows(p)) /\ IsFiniteSet(OptionRows(p))
         /\ \A r \in PositionRows(p) : /\ r.account \in Accounts
                                        /\ r.security \in Securities
                                        /\ r.value \in Int
                                        /\ r.basis \in Int \cup {Unknown}
         /\ \A r \in OptionRows(p) : r.account \in Accounts /\ r.value \in Int
<1>1. IsFiniteSet(Held(p)) /\ IsFiniteSet(Optioned(p))
  <2>1. /\ IsFiniteSet(Accounts \X Securities)
        /\ IsFiniteSet(Accounts \X OptionIds)
    BY FiguresConstants, FS_Product
  <2>2. /\ Held(p) \in SUBSET (Accounts \X Securities)
        /\ Optioned(p) \in SUBSET (Accounts \X OptionIds)
    BY DEF Held, Optioned
  <2> QED
    BY <2>1, <2>2, FS_Subset
<1>2. PICK f, g : /\ f = [ax \in Held(p) |-> PositionRow(p, ax[1], ax[2])]
                  /\ g = [ao \in Optioned(p) |-> OptionRow(p, ao[1], ao[2])]
  OBVIOUS
<1>3. PositionRows(p) = {f[ax] : ax \in Held(p)}
  BY <1>2 DEF PositionRows
<1>4. OptionRows(p) = {g[ao] : ao \in Optioned(p)}
  BY <1>2 DEF OptionRows
<1>5. IsFiniteSet(PositionRows(p)) /\ IsFiniteSet(OptionRows(p))
  BY <1>1, <1>3, <1>4, ImageFinite
<1>6. ASSUME NEW r \in PositionRows(p)
      PROVE  /\ r.account \in Accounts /\ r.security \in Securities
             /\ r.value \in Int /\ r.basis \in Int \cup {Unknown}
  <2>1. PICK a \in Accounts, x \in Securities : r = PositionRow(p, a, x)
    BY <1>6 DEF PositionRows, Held
  <2>2. /\ r.account = a /\ r.security = x
        /\ r.value = StockValue(p, a, x) /\ r.basis = p.basis[a][x]
    BY <2>1 DEF PositionRow
  <2>3. StockValue(p, a, x) \in Int
    BY WorthIs
  <2>4. p.basis[a][x] \in Int \cup {Unknown}
    BY PortfolioParts
  <2> QED
    BY <2>2, <2>3, <2>4
<1>7. ASSUME NEW r \in OptionRows(p)
      PROVE  r.account \in Accounts /\ r.value \in Int
  <2>1. PICK a \in Accounts, o \in OptionIds : r = OptionRow(p, a, o)
    BY <1>7 DEF OptionRows, Optioned
  <2>2. r.account = a /\ r.value = OptionValue(p, a, o)
    BY <2>1 DEF OptionRow
  <2>3. OptionValue(p, a, o) \in Int
    BY WorthIs
  <2> QED
    BY <2>2, <2>3
<1> QED
  BY <1>5, <1>6, <1>7

\* As much for each is their number times as much.
LEMMA SumConstant ==
  ASSUME NEW S, IsFiniteSet(S), NEW c \in Int, NEW f, \A x \in S : f[x] = c
  PROVE  SumFunctionOnSet(f, S) = Cardinality(S) * c
<1> DEFINE P == {T \in SUBSET S : SumFunctionOnSet(f, T) = Cardinality(T) * c}
<1>1. {} \in P
  <2>1. SumFunctionOnSet(f, {}) = 0 /\ Cardinality({}) = 0
    BY SumEmpty, FS_EmptySet
  <2>2. 0 = 0 * c
    OBVIOUS
  <2> QED
    BY <2>1, <2>2
<1>2. ASSUME NEW T \in SUBSET S, T # {}, \A x \in T : T \ {x} \in P
      PROVE  T \in P
  <2>1. PICK x \in T : TRUE
    BY <1>2
  <2>2. IsFiniteSet(T) /\ \A y \in T : f[y] \in Int
    BY FS_Subset
  <2>3. SumFunctionOnSet(f, T) = f[x] + SumFunctionOnSet(f, T \ {x})
    BY <2>2, SumRemove
  <2>4. SumFunctionOnSet(f, T \ {x}) = Cardinality(T \ {x}) * c /\ f[x] = c
    BY <1>2
  <2>5. PICK n, m : n = Cardinality(T) /\ m = Cardinality(T \ {x})
    OBVIOUS
  <2>6. n \in Nat /\ m = n - 1
    BY <2>1, <2>2, <2>5, FS_RemoveElement, FS_CardinalityType
  <2>7. c + (n - 1) * c = n * c
    BY <2>6
  <2>8. SumFunctionOnSet(f, T) = c + m * c
    BY <2>3, <2>4, <2>5
  <2> QED
    BY <2>5, <2>6, <2>7, <2>8
<1>3. S \in P
  <2> HIDE DEF P
  <2> QED
    BY <1>1, <1>2, FiniteInduction
<1> QED
  BY <1>3

LEMMA SnapshotIs ==
  ASSUME NEW p \in PortfolioType, NEW rounding \in Int, NEW s,
         s = Snapshot(p, rounding)
  PROVE  /\ SnapshotSound(s)
         /\ s.asOf = now /\ s.gained = gained /\ s.rounded \in Int
         /\ s.totalValue = PortfolioWorth(p) + s.rounded
<1>1. /\ s.asOf = now /\ s.gained = gained
      /\ s.rounded = Cardinality(Accounts) * rounding
      /\ s.positions = PositionRows(p) /\ s.options = OptionRows(p)
      /\ s.accounts = [a \in Accounts |-> AccountRow(p, a, rounding)]
  BY DEF Snapshot
<1>2. RowsTyped(s)
  BY <1>1, RowsSound DEF RowsTyped
<1>3. ASSUME NEW a \in Accounts
      PROVE  LET row == s.accounts[a] IN
             /\ row.providerTotal = Worth(p, a) + rounding
             /\ row.cash = p.cash[a] /\ row.aggregate = p.other[a]
             /\ row.residual
                  = row.providerTotal
                      - (TotalOf(HeldIn(s, a)) + TotalOf(OptionedIn(s, a))
                           + row.aggregate + row.cash)
             /\ row.included \in BOOLEAN
             /\ ~row.included => row.providerTotal = 0
  <2>1. s.accounts[a] = AccountRow(p, a, rounding)
    BY <1>1
  <2>2. PICK held, optioned : /\ held = {r \in PositionRows(p) : r.account = a}
                              /\ optioned = {r \in OptionRows(p) : r.account = a}
    OBVIOUS
  <2>3. HeldIn(s, a) = held /\ OptionedIn(s, a) = optioned
    BY <1>1, <2>2 DEF HeldIn, OptionedIn
  <2>4. PICK row : row = AccountRow(p, a, rounding)
    OBVIOUS
  <2>5. /\ row.providerTotal = Worth(p, a) + rounding
        /\ row.cash = p.cash[a] /\ row.aggregate = p.other[a]
        /\ row.residual = (Worth(p, a) + rounding)
                            - (TotalOf(held) + TotalOf(optioned) + p.other[a]
                                 + p.cash[a])
        /\ row.included = (\/ p.status[a] = "active"
                           \/ Worth(p, a) + rounding # 0)
    BY <2>2, <2>4 DEF AccountRow
  <2> QED
    BY <2>1, <2>3, <2>4, <2>5
<1>4. PICK total, worth, off : /\ total = [a \in Accounts |-> s.accounts[a].providerTotal]
                               /\ worth = [a \in Accounts |-> Worth(p, a)]
                               /\ off = [a \in Accounts |-> rounding]
  OBVIOUS
<1>5. \A a \in Accounts : /\ worth[a] \in Int /\ off[a] = rounding
                          /\ total[a] = worth[a] + off[a]
  <2> TAKE a \in Accounts
  <2>1. Worth(p, a) \in Int
    BY WorthIs
  <2> QED
    BY <1>3, <1>4, <2>1
<1>6. s.totalValue = SumFunctionOnSet(total, accountRows(s))
  <2>1. PICK I, f : I = accountRows(s) /\ f = [a \in I |-> s.accounts[a].providerTotal]
    OBVIOUS
  <2>2. I = {a \in Accounts : AccountRow(p, a, rounding).included}
    BY <1>1, <2>1 DEF accountRows
  <2>3. f = [a \in I |-> AccountRow(p, a, rounding).providerTotal]
    BY <1>1, <2>1, <2>2
  <2>4. s.totalValue = SumFunctionOnSet(f, I)
    <3>1. PICK rows : rows = s.accounts
      OBVIOUS
    <3>2. rows = [a \in Accounts |-> AccountRow(p, a, rounding)]
      BY <1>1, <3>1
    <3>3. I = {a \in Accounts : rows[a].included}
      BY <2>1, <3>1 DEF accountRows
    <3>4. s.totalValue = SumFunctionOnSet([a \in I |-> rows[a].providerTotal], I)
      BY <3>2, <3>3 DEF Snapshot, SumOf
    <3> QED
      BY <2>1, <3>1, <3>4
  <2>5. I \in SUBSET Accounts /\ IsFiniteSet(I)
    BY <2>2, FiguresConstants, FS_Subset
  <2>6. \A a \in I : f[a] \in Int /\ f[a] = total[a]
    BY <1>4, <1>5, <2>1, <2>5
  <2>7. SumFunctionOnSet(f, I) = SumFunctionOnSet(total, I)
    BY <2>5, <2>6, SumSame
  <2> QED
    BY <2>1, <2>4, <2>7
<1>7. SnapshotSound(s)
  <2>1. DOMAIN s.accounts = Accounts
    BY <1>1
  <2>2. \A a \in Accounts :
          LET row == s.accounts[a] IN
          /\ row.providerTotal \in Int /\ row.cash \in Int /\ row.aggregate \in Int
          /\ row.residual = row.providerTotal
                              - (TotalOf(HeldIn(s, a)) + TotalOf(OptionedIn(s, a))
                                   + row.aggregate + row.cash)
    <3> TAKE a \in Accounts
    <3>1. p.cash[a] \in Int /\ p.other[a] \in Int /\ Worth(p, a) \in Int
      BY WorthIs
    <3> QED
      BY <1>3, <3>1
  <2> QED
    BY <1>2, <1>4, <1>6, <2>1, <2>2 DEF SnapshotSound
<1>8. s.totalValue = SumFunctionOnSet(total, Accounts)
  <2>1. accountRows(s) \in SUBSET Accounts
    BY DEF accountRows
  <2>2. \A a \in Accounts \ accountRows(s) : total[a] = 0
    <3> TAKE a \in Accounts \ accountRows(s)
    <3>1. ~s.accounts[a].included
      BY DEF accountRows
    <3> QED
      BY <1>3, <1>4, <3>1
  <2>3. \A a \in Accounts : total[a] \in Int
    BY <1>5
  <2>4. SumFunctionOnSet(total, Accounts) = SumFunctionOnSet(total, accountRows(s))
    BY <2>1, <2>2, <2>3, FiguresConstants, SumPart
  <2> QED
    BY <1>6, <2>4
<1>9. SumFunctionOnSet(total, Accounts)
        = SumFunctionOnSet(worth, Accounts) + SumFunctionOnSet(off, Accounts)
  <2>1. \A a \in Accounts : /\ worth[a] \in Int /\ off[a] \in Int
                            /\ total[a] = worth[a] + off[a]
    BY <1>5
  <2> QED
    BY <2>1, FiguresConstants, SumPlus
<1>10. SumFunctionOnSet(off, Accounts) = s.rounded
  <2>1. \A a \in Accounts : off[a] = rounding
    BY <1>5
  <2> QED
    BY <1>1, <2>1, FiguresConstants, SumConstant
<1>11. SumFunctionOnSet(worth, Accounts) = PortfolioWorth(p)
  BY <1>4, PortfolioWorthIs
<1>12. s.rounded \in Int
  <2>1. Cardinality(Accounts) \in Nat
    BY FiguresConstants, FS_CardinalityType
  <2>2. PICK n : n = Cardinality(Accounts)
    OBVIOUS
  <2>3. n * rounding \in Int
    BY <2>1, <2>2
  <2> QED
    BY <1>1, <2>2, <2>3
<1> QED
  BY <1>1, <1>7, <1>8, <1>9, <1>10, <1>11, <1>12

-----------------------------------------------------------------------------
(***************************************************************************)
(* The books balance: what a snapshot says the portfolio was worth, but    *)
(* for the rounding, and what was paid in since and the markets have made  *)
(* of it since, is what it is worth now.                                   *)
(***************************************************************************)
Flows(T) == SumFunctionOnSet([t \in T |-> Flow(t)], T)

Since(s) == {t \in activity : t.at > s.asOf}

FiguresTypes ==
  /\ now \in Nat /\ portfolio \in PortfolioType /\ gained \in Int
  /\ IsFiniteSet(activity)
  /\ \A t \in activity : RecordTrue(t) /\ t.at < now
  /\ snapshots \in Seq({snapshots[i] : i \in DOMAIN snapshots})

SnapshotTyped(s) ==
  /\ SnapshotSound(s)
  /\ s.asOf \in Nat /\ s.gained \in Int /\ s.rounded \in Int
  /\ s.totalValue \in Int

SnapshotsInOrder ==
  /\ \A i \in DOMAIN snapshots : /\ SnapshotTyped(snapshots[i])
                                 /\ snapshots[i].asOf < now
  /\ \A i, j \in DOMAIN snapshots : i < j => snapshots[i].asOf < snapshots[j].asOf

Balanced ==
  \A i \in DOMAIN snapshots :
    LET s == snapshots[i] IN
    (s.totalValue - s.rounded - s.gained) + Flows(Since(s))
      = PortfolioWorth(portfolio) - gained

FiguresInv == FiguresTypes /\ SnapshotsInOrder /\ Balanced

LEMMA FlowType ==
  ASSUME NEW t, RecordTrue(t)
  PROVE  Flow(t) \in Int
BY DEF RecordTrue, Flow

LEMMA FlowsAre ==
  ASSUME NEW S, IsFiniteSet(S), \A t \in S : RecordTrue(t), NEW T \in SUBSET S
  PROVE  /\ Flows(T) = SumFunctionOnSet([t \in S |-> Flow(t)], T)
         /\ Flows(T) \in Int
<1>1. PICK f, g : f = [t \in T |-> Flow(t)] /\ g = [t \in S |-> Flow(t)]
  OBVIOUS
<1>2. IsFiniteSet(T)
  BY FS_Subset
<1>3. \A t \in T : f[t] \in Int /\ f[t] = g[t]
  BY <1>1, FlowType
<1>4. SumFunctionOnSet(f, T) = SumFunctionOnSet(g, T)
  BY <1>2, <1>3, SumSame
<1>5. SumFunctionOnSet(f, T) \in Int
  BY <1>2, <1>3, SumType
<1> QED
  BY <1>1, <1>4, <1>5 DEF Flows

LEMMA OneFlowMore ==
  ASSUME NEW T, IsFiniteSet(T), \A t \in T : RecordTrue(t),
         NEW x, RecordTrue(x), x \notin T
  PROVE  Flows(T \cup {x}) = Flow(x) + Flows(T)
<1>1. PICK S, f : S = T \cup {x} /\ f = [t \in S |-> Flow(t)]
  OBVIOUS
<1>2. IsFiniteSet(S) /\ \A t \in S : RecordTrue(t)
  BY <1>1, FS_AddElement
<1>3. \A t \in S : f[t] \in Int
  BY <1>1, <1>2, FlowType
<1>4. x \in S /\ S \ {x} = T /\ T \in SUBSET S
  BY <1>1
<1>5. SumFunctionOnSet(f, S) = f[x] + SumFunctionOnSet(f, S \ {x})
  BY <1>2, <1>3, <1>4, SumRemove
<1>6. SumFunctionOnSet(f, T) = Flows(T)
  BY <1>1, <1>2, <1>4, FlowsAre
<1>7. SumFunctionOnSet(f, S) = Flows(S)
  BY <1>1 DEF Flows
<1>8. f[x] = Flow(x)
  BY <1>1
<1> QED
  BY <1>1, <1>4, <1>5, <1>6, <1>7, <1>8

LEMMA FlowsOfNone == Flows({}) = 0
BY SumEmpty DEF Flows

LEMMA FiguresBegin == FiguresInit => FiguresInv
<1> SUFFICES ASSUME FiguresInit PROVE FiguresInv
  OBVIOUS
<1>1. DOMAIN snapshots = {} /\ snapshots = <<>>
  BY DEF FiguresInit
<1>2. IsFiniteSet({})
  BY FS_EmptySet
<1>3. FiguresTypes
  BY <1>1, <1>2, FiguresConstants DEF FiguresInit, FiguresTypes
<1> QED
  BY <1>1, <1>3 DEF FiguresInv, SnapshotsInOrder, Balanced

LEMMA EventKeeps ==
  ASSUME FiguresInv, Event
  PROVE  FiguresInv'
<1>1. PICK q \in PortfolioType, made \in Int :
        \E T : Leads(q, made, T) /\ Happens(q, made, T)
  BY DEF Event
<1>2. PICK T : Leads(q, made, T) /\ Happens(q, made, T)
  BY <1>1
<1>3. /\ now \in Nat /\ now' = now + 1 /\ portfolio' = q
      /\ gained \in Int /\ gained' = gained + made
      /\ activity' = activity \cup T /\ snapshots' = snapshots
  BY <1>2 DEF Happens, FiguresInv, FiguresTypes
<1>4. /\ IsFiniteSet(activity)
      /\ \A t \in activity : RecordTrue(t) /\ t.at < now
  BY DEF FiguresInv, FiguresTypes
<1>5. FiguresTypes' /\ (\A t \in activity' : t.at < now')
  <2>1. \A t \in T : RecordTrue(t) /\ t.at = now
    BY <1>2 DEF Leads
  <2>2. IsFiniteSet(activity \cup T)
    <3>1. T = {} \/ \E t : T = {t}
      BY <1>2 DEF Leads
    <3>2. CASE T = {}
      <4>1. activity \cup T = activity
        BY <3>2
      <4> QED
        BY <1>4, <4>1
    <3>3. CASE \E t : T = {t}
      BY <1>4, <3>3, FS_AddElement
    <3> QED
      BY <3>1, <3>2, <3>3
  <2>3. \A t \in activity \cup T : RecordTrue(t) /\ t.at < now + 1
    <3> TAKE t \in activity \cup T
    <3>1. RecordTrue(t) /\ t.at <= now
      BY <1>3, <1>4, <2>1 DEF RecordTrue
    <3>2. t.at \in Nat
      BY <3>1 DEF RecordTrue
    <3> QED
      BY <1>3, <3>1, <3>2
  <2>4. snapshots \in Seq({snapshots[i] : i \in DOMAIN snapshots})
    BY DEF FiguresInv, FiguresTypes
  <2>5. now + 1 \in Nat /\ gained + made \in Int
    BY <1>3
  <2> QED
    BY <1>3, <2>2, <2>3, <2>4, <2>5 DEF FiguresTypes, RecordTrue
<1>6. SnapshotsInOrder'
  <2>1. \A i \in DOMAIN snapshots : /\ SnapshotTyped(snapshots[i])
                                   /\ snapshots[i].asOf < now + 1
    <3> TAKE i \in DOMAIN snapshots
    <3>1. SnapshotTyped(snapshots[i]) /\ snapshots[i].asOf < now
      BY DEF FiguresInv, SnapshotsInOrder
    <3> QED
      BY <1>3, <3>1 DEF SnapshotTyped
  <2>2. \A i, j \in DOMAIN snapshots : i < j => snapshots[i].asOf < snapshots[j].asOf
    BY DEF FiguresInv, SnapshotsInOrder
  <2>3. \A i \in DOMAIN snapshots' : /\ SnapshotTyped(snapshots[i])'
                                    /\ snapshots'[i].asOf < now'
    BY <1>3, <2>1 DEF SnapshotTyped, SnapshotSound, RowsTyped, TotalOf, SumOf,
       Value, HeldIn, OptionedIn, accountRows
  <2> QED
    BY <1>3, <2>2, <2>3 DEF SnapshotsInOrder
<1>7. Balanced'
  <2> SUFFICES ASSUME NEW i \in DOMAIN snapshots
               PROVE  LET s == snapshots[i] IN
                      (s.totalValue - s.rounded - s.gained)
                          + Flows({t \in activity \cup T : t.at > s.asOf})
                        = PortfolioWorth(q) - (gained + made)
    BY <1>3 DEF Balanced, Flows, Flow, PortfolioWorth, Worth, StockValue,
       OptionValue, SumOf, Since
  <2>1. PICK s : s = snapshots[i]
    OBVIOUS
  <2>2. SnapshotTyped(s) /\ s.asOf < now /\ s.asOf \in Nat
    BY <2>1 DEF FiguresInv, SnapshotsInOrder, SnapshotTyped
  <2>3. PICK b, f, v, w : /\ b = s.totalValue - s.rounded - s.gained
                          /\ f = Flows(Since(s))
                          /\ v = PortfolioWorth(portfolio)
                          /\ w = PortfolioWorth(q)
    OBVIOUS
  <2>4. b + f = v - gained
    BY <2>1, <2>3 DEF FiguresInv, Balanced
  <2>5. Since(s) \in SUBSET activity
    BY DEF Since
  <2>6. b \in Int /\ f \in Int /\ v \in Int /\ w \in Int
    <3>1. s.totalValue \in Int /\ s.rounded \in Int /\ s.gained \in Int
      BY <2>2 DEF SnapshotTyped
    <3>2. f \in Int
      BY <1>4, <2>3, <2>5, FlowsAre
    <3>3. portfolio \in PortfolioType
      BY DEF FiguresInv, FiguresTypes
    <3>4. v \in Int /\ w \in Int
      BY <2>3, <3>3, PortfolioWorthIs
    <3> QED
      BY <2>3, <3>1, <3>2, <3>4
  <2>7. PICK later : later = {t \in activity \cup T : t.at > s.asOf}
    OBVIOUS
  <2>9. CASE T = {} /\ w = v + made
    <3>1. later = Since(s)
      BY <2>7, <2>9 DEF Since
    <3>2. b + f = w - (gained + made)
      BY <1>3, <2>4, <2>6, <2>9
    <3> QED
      BY <2>1, <2>3, <2>7, <3>1, <3>2
  <2>8. CASE \E t : T = {t} /\ RecordTrue(t) /\ t.at = now /\ w = v + made + Flow(t)
    <3>1. PICK t : T = {t} /\ RecordTrue(t) /\ t.at = now /\ w = v + made + Flow(t)
      BY <2>8
    <3>2. t \notin Since(s)
      BY <1>3, <1>4, <3>1 DEF Since
    <3>3. later = Since(s) \cup {t}
      BY <1>3, <2>2, <2>7, <3>1 DEF Since
    <3>4. IsFiniteSet(Since(s)) /\ \A u \in Since(s) : RecordTrue(u)
      BY <1>4, <2>5, FS_Subset
    <3>5. Flows(later) = Flow(t) + f
      BY <2>3, <3>1, <3>2, <3>3, <3>4, OneFlowMore
    <3>6. Flow(t) \in Int
      BY <3>1, FlowType
    <3>7. PICK x : x = Flow(t)
      OBVIOUS
    <3>8. b + (x + f) = w - (gained + made)
      BY <1>3, <2>4, <2>6, <3>1, <3>6, <3>7
    <3> QED
      BY <2>1, <2>3, <2>7, <3>5, <3>7, <3>8
  <2> QED
    BY <1>2, <2>3, <2>8, <2>9 DEF Leads
<1> QED
  BY <1>5, <1>6, <1>7 DEF FiguresInv

LEMMA PromotionKeeps ==
  ASSUME FiguresInv, NEW r \in Roundings, PromoteFigures(r)
  PROVE  FiguresInv'
<1>1. PICK s : s = Snapshot(portfolio, r)
  OBVIOUS
<1>2. /\ snapshots' = Append(snapshots, s) /\ now' = now + 1
      /\ portfolio' = portfolio /\ gained' = gained /\ activity' = activity
  BY <1>1 DEF PromoteFigures
<1>3. /\ now \in Nat /\ portfolio \in PortfolioType /\ gained \in Int
      /\ IsFiniteSet(activity) /\ \A t \in activity : RecordTrue(t) /\ t.at < now
      /\ snapshots \in Seq({snapshots[i] : i \in DOMAIN snapshots})
  BY DEF FiguresInv, FiguresTypes
<1>4. /\ SnapshotSound(s) /\ s.asOf = now /\ s.gained = gained /\ s.rounded \in Int
      /\ s.totalValue = PortfolioWorth(portfolio) + s.rounded
  BY <1>1, <1>3, FiguresConstants, SnapshotIs
<1>5. PortfolioWorth(portfolio) \in Int
  BY <1>3, PortfolioWorthIs
<1>6. SnapshotTyped(s)
  BY <1>3, <1>4, <1>5 DEF SnapshotTyped
<1>7. PICK q, n : q = snapshots' /\ n = Len(snapshots)
  OBVIOUS
<1>8. /\ n \in Nat /\ DOMAIN snapshots = 1..n /\ DOMAIN q = 1..(n + 1)
      /\ q[n + 1] = s /\ \A i \in 1..n : q[i] = snapshots[i]
  BY <1>2, <1>3, <1>7
<1>9. FiguresTypes'
  <2>1. q \in Seq({q[i] : i \in DOMAIN q})
    <3>1. PICK B : B = {q[i] : i \in DOMAIN q}
      OBVIOUS
    <3>2. \A i \in 1..n : snapshots[i] \in B
      BY <1>8, <3>1
    <3>3. s \in B
      BY <1>8, <3>1
    <3>4. snapshots \in Seq(B)
      BY <1>3, <1>8, <3>2
    <3>5. q \in Seq(B)
      BY <1>2, <1>7, <3>3, <3>4
    <3> QED
      BY <3>1, <3>5
  <2>2. \A t \in activity : RecordTrue(t) /\ t.at < now + 1
    <3> TAKE t \in activity
    <3>1. RecordTrue(t) /\ t.at < now /\ t.at \in Nat
      BY <1>3 DEF RecordTrue
    <3> QED
      BY <1>3, <3>1
  <2>3. now + 1 \in Nat
    BY <1>3
  <2> QED
    BY <1>2, <1>3, <1>7, <2>1, <2>2, <2>3 DEF FiguresTypes, RecordTrue
<1>10. /\ \A i \in 1..n : /\ SnapshotTyped(snapshots[i]) /\ snapshots[i].asOf < now
                          /\ snapshots[i].asOf \in Nat
       /\ \A i, j \in 1..n : i < j => snapshots[i].asOf < snapshots[j].asOf
  BY <1>8 DEF FiguresInv, SnapshotsInOrder, SnapshotTyped
<1>11. SnapshotsInOrder'
  <2>1. \A i \in 1..(n + 1) : SnapshotTyped(q[i]) /\ q[i].asOf < now + 1
    <3> TAKE i \in 1..(n + 1)
    <3>1. CASE i \in 1..n
      BY <1>3, <1>8, <1>10, <3>1
    <3>2. CASE i = n + 1
      BY <1>3, <1>4, <1>6, <1>8, <3>2
    <3> QED
      BY <1>8, <3>1, <3>2
  <2>2. \A i, j \in 1..(n + 1) : i < j => q[i].asOf < q[j].asOf
    <3> TAKE i, j \in 1..(n + 1)
    <3>1. CASE j \in 1..n
      BY <1>8, <1>10, <3>1
    <3>2. CASE j = n + 1
      <4>1. i < j => i \in 1..n
        BY <1>8, <3>2
      <4> QED
        BY <1>4, <1>8, <1>10, <3>2, <4>1
    <3> QED
      BY <1>8, <3>1, <3>2
  <2>3. \A i \in DOMAIN q : SnapshotTyped(q[i]) /\ q[i].asOf < now + 1
    BY <1>8, <2>1
  <2>4. \A i, j \in DOMAIN q : i < j => q[i].asOf < q[j].asOf
    BY <1>8, <2>2
  <2> QED
    BY <1>2, <1>7, <2>3, <2>4 DEF SnapshotsInOrder
<1>12. Balanced'
  <2>1. ASSUME NEW i \in 1..(n + 1), NEW c, c = q[i]
        PROVE  (c.totalValue - c.rounded - c.gained) + Flows(Since(c))
                 = PortfolioWorth(portfolio) - gained
    <3>1. CASE i \in 1..n
      <4>1. c = snapshots[i] /\ i \in DOMAIN snapshots
        BY <1>8, <2>1, <3>1
      <4> QED
        BY <4>1 DEF FiguresInv, Balanced
    <3>2. CASE i = n + 1
      <4>1. c = s
        BY <1>8, <2>1, <3>2
      <4>2. Since(s) = {}
        <5>1. \A t \in activity : ~(t.at > now)
          BY <1>3 DEF RecordTrue
        <5> QED
          BY <1>4, <5>1 DEF Since
      <4>3. Flows(Since(c)) = 0
        BY <4>1, <4>2, FlowsOfNone
      <4> QED
        BY <1>3, <1>4, <1>5, <4>1, <4>3
    <3> QED
      BY <1>8, <3>1, <3>2
  <2>2. \A i \in DOMAIN q :
          (q[i].totalValue - q[i].rounded - q[i].gained)
            + Flows({t \in activity : t.at > q[i].asOf})
            = PortfolioWorth(portfolio) - gained
    BY <1>8, <2>1 DEF Since
  <2> QED
    BY <1>2, <1>7, <2>2 DEF Balanced, Since, Flows, Flow, PortfolioWorth, Worth,
       StockValue, OptionValue, SumOf
<1> QED
  BY <1>9, <1>11, <1>12 DEF FiguresInv

LEMMA NothingKeeps ==
  ASSUME FiguresInv, NothingHappens
  PROVE  FiguresInv'
<1>1. /\ now \in Nat /\ now' = now + 1 /\ portfolio' = portfolio
      /\ gained' = gained /\ activity' = activity /\ snapshots' = snapshots
  BY DEF NothingHappens, FiguresInv, FiguresTypes
<1>2. FiguresTypes'
  <2>1. \A t \in activity : t.at < now + 1
    BY <1>1 DEF FiguresInv, FiguresTypes, RecordTrue
  <2> QED
    BY <1>1, <2>1 DEF FiguresInv, FiguresTypes, RecordTrue
<1>3. SnapshotsInOrder'
  <2>1. \A i \in DOMAIN snapshots : snapshots[i].asOf < now + 1
    BY <1>1 DEF FiguresInv, SnapshotsInOrder, SnapshotTyped
  <2>2. \A i, j \in DOMAIN snapshots : i < j => snapshots[i].asOf < snapshots[j].asOf
    BY DEF FiguresInv, SnapshotsInOrder
  <2>3. \A i \in DOMAIN snapshots : SnapshotTyped(snapshots[i])
    BY DEF FiguresInv, SnapshotsInOrder
  <2>4. \A i \in DOMAIN snapshots' : SnapshotTyped(snapshots[i])'
    BY <1>1, <2>3
  <2> QED
    BY <1>1, <2>1, <2>2, <2>4 DEF SnapshotsInOrder
<1>4. Balanced'
  BY <1>1 DEF FiguresInv, Balanced, Since, Flows, Flow, PortfolioWorth, Worth,
     StockValue, OptionValue, SumOf
<1> QED
  BY <1>2, <1>3, <1>4 DEF FiguresInv

LEMMA FiguresKeep ==
  ASSUME FiguresInv, FiguresNext
  PROVE  FiguresInv'
<1>1. now \in Nat /\ portfolio \in PortfolioType
  BY DEF FiguresInv, FiguresTypes
<1>2. CASE NothingHappens
  BY <1>2, NothingKeeps
<1>3. CASE \E r \in Roundings : PromoteFigures(r)
  BY <1>3, PromotionKeeps
<1>4. CASE \E a \in Accounts : CloseAccount(a)
  BY <1>1, <1>4, AccountClosed, EventKeeps
<1>5. CASE \E a \in Accounts, x \in Securities : BuyStock(a, x) \/ SellOut(a, x)
  BY <1>1, <1>5, Traded, EventKeeps
<1>6. CASE \/ \E x \in Securities, n \in Prices : PriceMoves(x, n)
           \/ \E o \in OptionIds, n \in Marks : MarkMoves(o, n)
  BY <1>1, <1>6, Revalued, EventKeeps
<1>7. CASE \E a, b \in Accounts, n \in Amounts : MoveCash(a, b, n)
  BY <1>1, <1>7, CashMoved, EventKeeps
<1>8. CASE \E a \in Accounts, n \in Amounts, how \in Hows :
             \/ PayIn(a, n, how) \/ PayOut(a, n) \/ ReceiveDividend(a, n, how)
  BY <1>1, <1>8, Payments, EventKeeps
<1>9. (\E a \in Accounts, n \in Amounts : PayOut(a, n))
        => \E a \in Accounts, n \in Amounts, how \in Hows : PayOut(a, n)
  BY DEF Hows
<1> QED
  BY <1>2, <1>3, <1>4, <1>5, <1>6, <1>7, <1>8, <1>9 DEF FiguresNext

-----------------------------------------------------------------------------
(***************************************************************************)
(* Changes.                                                                *)
(***************************************************************************)
LEMMA Multiple ==
  ASSUME NEW d \in Nat, d > 0, NEW q \in Int, NEW r \in Int, 0 <= r, r < d
  PROVE  (d * q + r) \div d = q
OBVIOUS

\* A moment between the beginning of a day and one of that day is of that day.
LEMMA SameDay ==
  ASSUME NEW d \in Nat, d > 0, NEW t \in Nat, NEW p \in Nat,
         t - (t % d) <= p, p < t
  PROVE  (t - (t % d)) \div d = p \div d
<1>1. PICK q, r : q = t \div d /\ r = t % d
  OBVIOUS
<1>2. q \in Int /\ r \in Int /\ 0 <= r /\ r < d /\ t = d * q + r
  BY <1>1
<1>3. PICK m : m = d * q
  OBVIOUS
<1>4. m \in Int /\ t - (t % d) = m
  BY <1>1, <1>2, <1>3
<1>5. PICK s : s = p - m
  OBVIOUS
<1>6. s \in Int /\ 0 <= s /\ s < d /\ p = m + s
  BY <1>2, <1>3, <1>4, <1>5
<1>7. (d * q + s) \div d = q
  BY <1>2, <1>6, Multiple
<1>8. (d * q + 0) \div d = q
  BY <1>2, Multiple
<1>9. d * q + 0 = m /\ d * q + s = p
  BY <1>3, <1>4, <1>6
<1> QED
  BY <1>4, <1>7, <1>8, <1>9

During(a, b) == {t \in activity : a.asOf < t.at /\ t.at <= b.asOf}

LEMMA Between ==
  ASSUME FiguresInv, NEW i \in DOMAIN snapshots, NEW j \in DOMAIN snapshots,
         NEW a, a = snapshots[i], NEW b, b = snapshots[j], a.asOf <= b.asOf
  PROVE  /\ Flows(During(a, b)) \in Int
         /\ (b.totalValue - a.totalValue - Flows(During(a, b)))
                - (b.gained - a.gained)
              = b.rounded - a.rounded
<1>1. SnapshotTyped(a) /\ SnapshotTyped(b)
  BY DEF FiguresInv, SnapshotsInOrder
<1>2. /\ a.asOf \in Nat /\ a.gained \in Int /\ a.rounded \in Int
      /\ a.totalValue \in Int
      /\ b.asOf \in Nat /\ b.gained \in Int /\ b.rounded \in Int
      /\ b.totalValue \in Int
  BY <1>1 DEF SnapshotTyped
<1>3. /\ IsFiniteSet(activity)
      /\ \A t \in activity : RecordTrue(t) /\ t.at \in Nat
      /\ portfolio \in PortfolioType /\ gained \in Int
  BY DEF FiguresInv, FiguresTypes, RecordTrue
<1>4. PICK f : f = [t \in activity |-> Flow(t)]
  OBVIOUS
<1>5. PICK S, W, R : S = Since(a) /\ W = During(a, b) /\ R = Since(b)
  OBVIOUS
<1>6. /\ S \in SUBSET activity /\ W \in SUBSET activity /\ R \in SUBSET activity
      /\ S \cap W = W /\ S \ W = R
  BY <1>2, <1>3, <1>5 DEF Since, During
<1>7. /\ Flows(S) = SumFunctionOnSet(f, S) /\ Flows(W) = SumFunctionOnSet(f, W)
      /\ Flows(R) = SumFunctionOnSet(f, R)
      /\ Flows(S) \in Int /\ Flows(W) \in Int /\ Flows(R) \in Int
  BY <1>3, <1>4, <1>6, FlowsAre
<1>8. SumFunctionOnSet(f, S)
        = SumFunctionOnSet(f, S \cap W) + SumFunctionOnSet(f, S \ W)
  <2>1. IsFiniteSet(S) /\ \A t \in S : f[t] \in Int
    BY <1>3, <1>4, <1>6, FS_Subset, FlowType
  <2> QED
    BY <2>1, SumSplit
<1>9. Flows(S) = Flows(W) + Flows(R)
  BY <1>6, <1>7, <1>8
<1>10. PICK s, w, r, v : /\ s = Flows(S) /\ w = Flows(W) /\ r = Flows(R)
                         /\ v = PortfolioWorth(portfolio)
  OBVIOUS
<1>11. /\ (a.totalValue - a.rounded - a.gained) + s = v - gained
       /\ (b.totalValue - b.rounded - b.gained) + r = v - gained
  BY <1>5, <1>10 DEF FiguresInv, Balanced
<1>12. v \in Int /\ s \in Int /\ w \in Int /\ r \in Int /\ s = w + r
  BY <1>3, <1>7, <1>9, <1>10, PortfolioWorthIs
<1>13. (b.totalValue - a.totalValue - w) - (b.gained - a.gained)
         = b.rounded - a.rounded
  BY <1>2, <1>3, <1>11, <1>12
<1> QED
  BY <1>5, <1>10, <1>12, <1>13

\* Only what was paid in or out counts among what happened.
LEMMA PaidDuring ==
  ASSUME FiguresInv, NEW T \in SUBSET activity, NEW E,
         \A t : t \in E <=> t \in T /\ t.what \in ExternalKinds
  PROVE  SumFunctionOnSet([t \in E |-> t.amount], E) = Flows(T)
<1>1. IsFiniteSet(activity) /\ \A t \in activity : RecordTrue(t)
  BY DEF FiguresInv, FiguresTypes
<1>2. IsFiniteSet(T) /\ E \in SUBSET T /\ IsFiniteSet(E)
  <2>1. IsFiniteSet(T) /\ E \in SUBSET T
    BY <1>1, FS_Subset
  <2> QED
    BY <2>1, FS_Subset
<1>3. PICK f, g : f = [t \in T |-> Flow(t)] /\ g = [t \in E |-> t.amount]
  OBVIOUS
<1>4. \A t \in T : f[t] \in Int
  BY <1>1, <1>3, FlowType
<1>5. \A t \in T \ E : f[t] = 0
  BY <1>3 DEF Flow
<1>6. SumFunctionOnSet(f, T) = SumFunctionOnSet(f, E)
  BY <1>2, <1>4, <1>5, SumPart
<1>7. \A t \in E : f[t] \in Int /\ f[t] = g[t]
  BY <1>2, <1>3, <1>4 DEF Flow
<1>8. SumFunctionOnSet(f, E) = SumFunctionOnSet(g, E)
  BY <1>2, <1>7, SumSame
<1> QED
  BY <1>3, <1>6, <1>8 DEF Flows

\* The records of a window are those of what happened in it, if they are with
\* their kind and instant, and none is of the day on which it begins.
LEMMA WindowIs ==
  ASSUME FiguresInv, NEW i \in DOMAIN snapshots, NEW j \in DOMAIN snapshots,
         NEW a, a = snapshots[i], NEW b, b = snapshots[j],
         ~DatedAtClose(a),
         \A t \in activity :
           a.asOf < t.effectiveAt /\ t.effectiveAt <= b.asOf =>
             /\ t.kind # "unknown"
             /\ t.kind \in ExternalKinds => t.timestampPrecision = "instant"
  PROVE  \A t \in activity :
           (a.asOf < t.effectiveAt /\ t.effectiveAt <= b.asOf
              /\ t.kind \in ExternalKinds)
             <=> (a.asOf < t.at /\ t.at <= b.asOf /\ t.what \in ExternalKinds)
<1> TAKE t \in activity
<1>1. a.asOf \in Nat /\ b.asOf \in Nat
  BY DEF FiguresInv, SnapshotsInOrder, SnapshotTyped
<1>2. /\ RecordTrue(t) /\ t.at \in Nat
      /\ t.timestampPrecision \in {"date", "instant"}
      /\ t.kind \in {"unknown", t.what}
  BY DEF FiguresInv, FiguresTypes, RecordTrue
<1>3. CASE t.timestampPrecision = "instant"
  <2>1. t.effectiveAt = t.at
    BY <1>2, <1>3 DEF RecordTrue
  <2>2. "unknown" \notin ExternalKinds
    BY DEF ExternalKinds
  <2> QED
    BY <1>2, <2>1, <2>2
<1>4. CASE t.timestampPrecision = "date"
  <2>1. t.effectiveAt = t.at - (t.at % DayLength)
    BY <1>2, <1>4 DEF RecordTrue
  <2>2. DayLength \in Nat /\ DayLength > 0
    BY FiguresConstants
  <2>3. t.at % DayLength \in 0..(DayLength - 1)
    BY <1>2, <2>2
  <2>4. t.effectiveAt \in Int /\ t.effectiveAt <= t.at
    BY <1>2, <2>1, <2>2, <2>3
  <2>5. ~(a.asOf < t.at /\ t.effectiveAt <= a.asOf)
    <3> SUFFICES ASSUME a.asOf < t.at, t.effectiveAt <= a.asOf
                 PROVE  FALSE
      OBVIOUS
    <3>1. t.effectiveAt \div DayLength = a.asOf \div DayLength
      <4>1. PICK x, y, d : x = t.at /\ y = a.asOf /\ d = DayLength
        OBVIOUS
      <4>2. x \in Nat /\ y \in Nat /\ d \in Nat /\ d > 0
        BY <1>1, <1>2, <2>2, <4>1
      <4>3. x - (x % d) <= y /\ y < x
        BY <2>1, <4>1
      <4>4. (x - (x % d)) \div d = y \div d
        BY <4>2, <4>3, SameDay
      <4> QED
        BY <2>1, <4>1, <4>4
    <3> QED
      BY <1>4, <3>1 DEF DatedAtClose
  <2> QED
    BY <1>1, <1>2, <1>4, <2>4, <2>5
<1> QED
  BY <1>2, <1>3, <1>4

\* The first of some snapshots.
LEMMA FirstOf ==
  ASSUME FiguresInv, NEW B \in SUBSET DOMAIN snapshots, B # {}
  PROVE  Min(B) \in B /\ \A i \in B : Min(B) <= i
<1>1. DOMAIN snapshots \subseteq Nat
  <2>1. snapshots \in Seq({snapshots[i] : i \in DOMAIN snapshots})
    BY DEF FiguresInv, FiguresTypes
  <2> QED
    BY <2>1
<1>2. \E m \in B : \A i \in B : m <= i
  BY <1>1, LeastNatural
<1> QED
  BY <1>2 DEF Min

LEMMA DailyHolds ==
  ASSUME FiguresInv, Len(snapshots) > 0,
         DailyChange(Shown, Transactions = activity).state = "available",
         ~DatedAtClose(snapshots[Min(Boundary(Shown))])
  PROVE  LET prior == snapshots[Min(Boundary(Shown))] IN
         DailyChange(Shown, Transactions = activity).amount
           - (Shown.gained - prior.gained) = Shown.rounded - prior.rounded
<1>1. Boundary(Shown) # {}
  BY DEF DailyChange, Unavailable
<1>2. PICK i : i = Min(Boundary(Shown))
  OBVIOUS
<1>3. i \in DOMAIN snapshots
  <2>1. Boundary(Shown) \in SUBSET DOMAIN snapshots
    BY DEF Boundary
  <2> QED
    BY <1>1, <1>2, <2>1, FirstOf
<1>4. PICK j : j = Len(snapshots)
  OBVIOUS
<1>5. j \in DOMAIN snapshots
  <2>1. snapshots \in Seq({snapshots[k] : k \in DOMAIN snapshots})
    BY DEF FiguresInv, FiguresTypes
  <2> QED
    BY <1>4, <2>1
<1>6. PICK a, b : a = snapshots[i] /\ b = snapshots[j]
  OBVIOUS
<1>7. b = Shown
  BY <1>4, <1>6 DEF Shown
<1>8. PICK covered, eligible :
        /\ covered = (Transactions = activity)
        /\ eligible = (a.coverage = "complete" /\ b.coverage = "complete")
  OBVIOUS
<1>9. PICK change : change = calculateDailyChange(a, b, eligible, covered, Transactions)
  OBVIOUS
<1>10. DailyChange(Shown, Transactions = activity) = change
  BY <1>1, <1>2, <1>6, <1>7, <1>8, <1>9 DEF DailyChange
<1>11. change.state = "available"
  BY <1>10
<1>12. PICK within, external :
         /\ within = {t \in Transactions : /\ t.effectiveAt > a.asOf
                                           /\ t.effectiveAt <= b.asOf}
         /\ external = {t \in within : t.kind \in ExternalKinds}
  OBVIOUS
<1>13. /\ covered /\ ~(b.asOf <= a.asOf)
       /\ \A t \in within : t.kind # "unknown"
       /\ \A t \in external : t.timestampPrecision = "instant"
       /\ change.amount
            = b.totalValue - a.totalValue
                - SumFunctionOnSet([t \in external |-> t.amount], external)
  BY <1>9, <1>11, <1>12 DEF calculateDailyChange, Unavailable, SumOf
<1>14. /\ a.asOf \in Nat /\ b.asOf \in Nat
       /\ \A t \in activity : RecordTrue(t)
  BY <1>3, <1>5, <1>6 DEF FiguresInv, FiguresTypes, SnapshotsInOrder, SnapshotTyped
<1>15. \A t \in activity : t.effectiveAt \in Int
  <2> TAKE t \in activity
  <2>1. t.at \in Nat /\ t.effectiveAt \in {t.at, t.at - (t.at % DayLength)}
    BY <1>14 DEF RecordTrue
  <2>2. t.at % DayLength \in Int
    BY <2>1, FiguresConstants
  <2> QED
    BY <2>1, <2>2
<1>16. /\ Transactions = activity
       /\ within = {t \in activity : /\ t.effectiveAt > a.asOf
                                     /\ t.effectiveAt <= b.asOf}
       /\ external = {t \in within : t.kind \in ExternalKinds}
  BY <1>8, <1>12, <1>13
<1>17. ~DatedAtClose(a)
  BY <1>2, <1>6
<1>18. \A t \in activity :
         (a.asOf < t.effectiveAt /\ t.effectiveAt <= b.asOf
            /\ t.kind \in ExternalKinds)
           <=> (a.asOf < t.at /\ t.at <= b.asOf /\ t.what \in ExternalKinds)
  <2>1. \A t \in activity :
          a.asOf < t.effectiveAt /\ t.effectiveAt <= b.asOf =>
            /\ t.kind # "unknown"
            /\ t.kind \in ExternalKinds => t.timestampPrecision = "instant"
    <3> SUFFICES ASSUME NEW t \in activity,
                        a.asOf < t.effectiveAt, t.effectiveAt <= b.asOf
                 PROVE  /\ t.kind # "unknown"
                        /\ t.kind \in ExternalKinds
                             => t.timestampPrecision = "instant"
      OBVIOUS
    <3>1. t \in within
      BY <1>14, <1>15, <1>16
    <3>2. t.kind \in ExternalKinds => t \in external
      BY <1>16, <3>1
    <3> QED
      BY <1>13, <3>1, <3>2
  <2> QED
    BY <1>3, <1>5, <1>6, <1>17, <2>1, WindowIs
<1>19. \A t : t \in external <=> t \in During(a, b) /\ t.what \in ExternalKinds
  <2> TAKE t
  <2>1. t \in During(a, b)
          <=> t \in activity /\ a.asOf < t.at /\ t.at <= b.asOf
    BY DEF During
  <2>2. t \in external
          <=> t \in activity /\ (a.asOf < t.effectiveAt /\ t.effectiveAt <= b.asOf
                                  /\ t.kind \in ExternalKinds)
    BY <1>14, <1>15, <1>16
  <2> QED
    BY <1>18, <2>1, <2>2
<1>20. SumFunctionOnSet([t \in external |-> t.amount], external)
         = Flows(During(a, b))
  <2>1. During(a, b) \in SUBSET activity
    BY DEF During
  <2> QED
    BY <1>19, <2>1, PaidDuring
<1>21. a.asOf <= b.asOf
  BY <1>13, <1>14
<1>22. (b.totalValue - a.totalValue - Flows(During(a, b)))
          - (b.gained - a.gained) = b.rounded - a.rounded
  BY <1>3, <1>5, <1>6, <1>21, Between
<1>23. change.amount - (b.gained - a.gained) = b.rounded - a.rounded
  BY <1>13, <1>20, <1>22
<1> QED
  BY <1>2, <1>6, <1>7, <1>10, <1>23

LEMMA PerformanceHolds ==
  ASSUME FiguresInv, Len(snapshots) > 0, RecordedInFull,
         NEW start \in FirstInstant..Shown.asOf
  PROVE  LET sheet == performance(start)
             first == sheet.trend[1]
             during == {t \in sheet.externalFlows :
                          /\ t.effectiveAt > first.asOf
                          /\ t.effectiveAt <= Shown.asOf}
             amount(t) == t.amount
         IN sheet.change - SumOf(amount, during) - (Shown.gained - first.gained)
              = Shown.rounded - first.rounded
<1>1. PICK n, S : n = Len(snapshots) /\ S = {snapshots[k] : k \in DOMAIN snapshots}
  OBVIOUS
<1>2. snapshots \in Seq(S)
  BY <1>1 DEF FiguresInv, FiguresTypes
<1>3. n \in Nat /\ n > 0 /\ DOMAIN snapshots = 1..n /\ n \in DOMAIN snapshots
  BY <1>1, <1>2
<1>4. PICK b : b = snapshots[n] /\ b = Shown
  BY <1>1 DEF Shown
<1>5. \A i \in DOMAIN snapshots : snapshots[i].asOf \in Nat
  BY DEF FiguresInv, SnapshotsInOrder, SnapshotTyped
<1>6. start \in Int /\ start <= b.asOf
  BY <1>3, <1>4, <1>5, FiguresConstants
<1>7. PICK within, m : /\ within = {i \in DOMAIN snapshots : snapshots[i].asOf >= start}
                       /\ m = Min(within)
  OBVIOUS
<1>8. m \in within /\ \A i \in within : m <= i
  <2>1. n \in within
    BY <1>3, <1>4, <1>5, <1>6, <1>7
  <2>2. within \in SUBSET DOMAIN snapshots
    BY <1>7
  <2> QED
    BY <1>7, <2>1, <2>2, FirstOf
<1>9. m \in 1..n /\ m \in DOMAIN snapshots /\ snapshots[m].asOf >= start
  BY <1>3, <1>7, <1>8
<1>10. PICK points, a : points = SubSeq(snapshots, m, n) /\ a = snapshots[m]
  OBVIOUS
<1>11. /\ Len(points) = n - m + 1 /\ points[1] = a
       /\ points[Len(points)] = b
  <2>1. /\ Len(points) = n - m + 1
        /\ \A k \in 1..(n - m + 1) : points[k] = snapshots[m + k - 1]
    BY <1>2, <1>3, <1>9, <1>10
  <2>2. 1 \in 1..(n - m + 1) /\ n - m + 1 \in 1..(n - m + 1)
    BY <1>3, <1>9
  <2>3. points[1] = snapshots[m + 1 - 1]
    BY <2>1, <2>2
  <2>4. points[n - m + 1] = snapshots[m + (n - m + 1) - 1]
    BY <2>1, <2>2
  <2>5. m + 1 - 1 = m /\ m + (n - m + 1) - 1 = n
    BY <1>3, <1>9
  <2> QED
    BY <1>4, <1>10, <2>1, <2>3, <2>4, <2>5
<1>12. PICK sheet : sheet = performance(start)
  OBVIOUS
<1>13. /\ sheet.trend = points
       /\ sheet.change = points[Len(points)].totalValue - points[1].totalValue
       /\ sheet.externalFlows = {t \in Transactions :
                                  /\ t.kind \in {"deposit", "withdrawal"}
                                  /\ t.effectiveAt >= start}
  BY <1>1, <1>7, <1>10, <1>12 DEF performance
<1>14. PICK during : during = {t \in sheet.externalFlows :
                                 /\ t.effectiveAt > a.asOf
                                 /\ t.effectiveAt <= b.asOf}
  OBVIOUS
<1>15. /\ a.asOf \in Nat /\ b.asOf \in Nat /\ a.asOf >= start
       /\ \A t \in activity : /\ t \in Transactions
                              /\ t.effectiveAt = t.at /\ t.at \in Nat
                              /\ t.kind = t.what
  BY <1>3, <1>4, <1>5, <1>9, <1>10
  DEF RecordedInFull, Transactions, FiguresInv, FiguresTypes, RecordTrue
<1>16. \A t : t \in during <=> t \in During(a, b) /\ t.what \in ExternalKinds
  <2>1. \A t \in Transactions : t \in activity
    BY DEF Transactions
  <2> QED
    BY <1>6, <1>13, <1>14, <1>15, <2>1 DEF During, ExternalKinds
<1>17. SumFunctionOnSet([t \in during |-> t.amount], during)
         = Flows(During(a, b))
  <2>1. During(a, b) \in SUBSET activity
    BY DEF During
  <2> QED
    BY <1>16, <2>1, PaidDuring
<1>18. a.asOf <= b.asOf
  <2>1. m < n => a.asOf < b.asOf
    BY <1>3, <1>4, <1>9, <1>10 DEF FiguresInv, SnapshotsInOrder
  <2>2. m = n => a = b
    BY <1>4, <1>10
  <2> QED
    BY <1>3, <1>9, <1>15, <2>1, <2>2
<1>19. (b.totalValue - a.totalValue - Flows(During(a, b)))
          - (b.gained - a.gained) = b.rounded - a.rounded
  BY <1>3, <1>4, <1>9, <1>10, <1>18, Between
<1>20. /\ sheet.trend[1] = a /\ sheet.change = b.totalValue - a.totalValue
  BY <1>11, <1>13
<1> QED
  BY <1>4, <1>12, <1>14, <1>17, <1>19, <1>20 DEF SumOf

LEMMA AgreeHolds ==
  ASSUME FiguresInv
  PROVE  FiguresAgree
<1> SUFFICES ASSUME Len(snapshots) > 0, NoStrays(Shown)
             PROVE  FiguresAgree
  BY DEF FiguresAgree
<1>1. PICK s, hs : s = Shown /\ hs = buildHoldings(s)
  OBVIOUS
<1>2. SnapshotSound(s)
  <2>1. snapshots \in Seq({snapshots[k] : k \in DOMAIN snapshots})
    BY DEF FiguresInv, FiguresTypes
  <2>2. Len(snapshots) \in DOMAIN snapshots
    BY <2>1
  <2> QED
    BY <1>1, <2>2 DEF Shown, FiguresInv, SnapshotsInOrder, SnapshotTyped
<1>3. NoStrays(s) /\ RowsTyped(s)
  BY <1>1, <1>2 DEF SnapshotSound
<1>4. PICK listed, rest :
        /\ listed = accountSummaries(s, hs)
        /\ rest = [a \in accountRows(s) |->
                     s.accounts[a].aggregate + getReconciliation(s)[a].residual]
  OBVIOUS
<1>5. \A a \in accountRows(s) :
        /\ getReconciliation(s)[a].residual = s.accounts[a].residual
        /\ rest[a] = s.accounts[a].aggregate + s.accounts[a].residual
  BY <1>4 DEF getReconciliation
<1>6. LET analytics == Analytics(s, hs)
          left == SumFunctionOnSet(rest, accountRows(s))
      IN /\ Slice(Allocation(s, hs), "residual") = left
         /\ analytics.supported + analytics.unsupported + left = s.totalValue
  <2>1. \A a \in accountRows(s) :
          rest[a] = s.accounts[a].aggregate + s.accounts[a].residual
    BY <1>5
  <2> QED
    BY <1>1, <1>2, <1>3, <2>1, HeadlineAgrees
<1>7. SumFunctionOnSet([a \in DOMAIN listed |-> listed[a].value], DOMAIN listed)
        = s.totalValue
  BY <1>2, <1>4, ListAgrees
<1>8. ASSUME NEW a \in accountRows(s)
      PROVE  /\ Slice(AccountAllocation(s, hs, a), "residual")
                  = s.accounts[a].aggregate + getReconciliation(s)[a].residual
             /\ Cardinality(DOMAIN AccountHoldings(s, hs, a))
                  = listed[a].holdingsCount
  BY <1>1, <1>2, <1>4, <1>5, AccountAgrees
<1>9. ASSUME NEW h \in DOMAIN hs
      PROVE  LET shared == DOMAIN hs[h].accounts
                 part == [a \in shared |-> Scoped(s, hs, a, h).marketValue]
                 gain == [a \in shared |-> Scoped(s, hs, a, h).unrealizedPnl]
             IN /\ SumFunctionOnSet(part, shared) = hs[h].marketValue
                /\ hs[h].unrealizedPnl # Unknown =>
                     SumFunctionOnSet(gain, shared) = hs[h].unrealizedPnl
  BY <1>1, <1>3, HoldingAgrees
<1> QED
  BY <1>1, <1>4, <1>6, <1>7, <1>8, <1>9 DEF FiguresAgree, SumOf

\* The invariant of the figures is inductive: what is stored adds up account by
\* account, and the books balance from every snapshot to the portfolio as it is.
THEOREM FiguresInvariance == FiguresSpec => []FiguresInv
<1>1. FiguresInv /\ [FiguresNext]_figuresVars => FiguresInv'
  <2> SUFFICES ASSUME FiguresInv, [FiguresNext]_figuresVars
               PROVE  FiguresInv'
    OBVIOUS
  <2>1. CASE UNCHANGED figuresVars
    <3>1. /\ now' = now /\ portfolio' = portfolio /\ gained' = gained
          /\ activity' = activity /\ snapshots' = snapshots
      BY <2>1 DEF figuresVars
    <3>2. FiguresTypes'
      BY <3>1 DEF FiguresInv, FiguresTypes, RecordTrue
    <3>3. SnapshotsInOrder'
      BY <3>1 DEF FiguresInv, SnapshotsInOrder
    <3>4. Balanced'
      BY <3>1 DEF FiguresInv, Balanced, Since, Flows, Flow, PortfolioWorth,
         Worth, StockValue, OptionValue, SumOf
    <3> QED
      BY <3>2, <3>3, <3>4 DEF FiguresInv
  <2> QED
    BY <2>1, FiguresKeep
<1> QED
  BY <1>1, FiguresBegin, PTL DEF FiguresSpec

\* The pages of a snapshot agree: allocation, analytics, the accounts' list and
\* pages, and holdings with their gains, whatever the portfolio is made of.
THEOREM PagesAgree == FiguresSpec => []FiguresAgree
<1>1. FiguresInv => FiguresAgree
  BY AgreeHolds
<1> QED
  BY <1>1, FiguresInvariance, PTL

\* calculateDailyChange and performance: a change that is shown is what the
\* markets did, however much the owner paid, moved and traded meanwhile.
THEOREM OnlyGains == FiguresSpec => []ChangesAreGains
<1>1. FiguresInv => ChangesAreGains
  <2> SUFFICES ASSUME FiguresInv PROVE ChangesAreGains
    OBVIOUS
  <2>1. DailyChangeIsGain
    BY DailyHolds DEF DailyChangeIsGain
  <2>2. PerformanceIsGain
    BY PerformanceHolds DEF PerformanceIsGain
  <2> QED
    BY <2>1, <2>2 DEF ChangesAreGains
<1> QED
  BY <1>1, FiguresInvariance, PTL

(***************************************************************************)
(* The calendar.                                                           *)
(***************************************************************************)
\* The years the table of the moons is good for.
Era == 1900..2199

\* A year is followed by the next after 365 days or 366.
LEMMA YearLength ==
  ASSUME NEW y \in Era
  PROVE  /\ Day(y, 1, 1) \in Nat
         /\ Day(y + 1, 1, 1) = Day(y, 1, 1) + 365 + (IF LeapYear(y) THEN 1 ELSE 0)
BY SMTT(30) DEF Day, DaysBefore, LeapYear, Era

\* Years come in order.
LEMMA YearsApart ==
  ASSUME NEW y \in Era, NEW z \in Era, y < z
  PROVE  Day(y + 1, 1, 1) <= Day(z, 1, 1)
BY SMTT(30) DEF Day, DaysBefore, LeapYear, Era

\* A date counts from the first of its year.
LEMMA MonthsFrom ==
  ASSUME NEW y \in Era, NEW m \in 1..12, NEW d \in Int
  PROVE  Day(y, m, d) = Day(y, 1, 1) + DaysBefore(y, m) + d - 1
BY SMTT(30) DEF Day, DaysBefore, LeapYear, Era

\* A year is near its share of the four hundred years of the cycle.
LEMMA YearsInDays ==
  ASSUME NEW y \in Era
  PROVE  /\ 400 * Day(y, 1, 1) >= 146097 * (y - 2)
         /\ 400 * Day(y + 1, 1, 1) <= 146097 * (y + 1)
<1>1. y \in Int /\ 1900 <= y /\ y <= 2199
  BY DEF Era
<1> DEFINE u == y - 1   v == y
           A(k) == k \div 4   B(k) == k \div 100   C(k) == k \div 400
<1>2. /\ 4 * A(u) >= u - 3 /\ 100 * B(u) <= u /\ C(u) \in {4, 5}
      /\ 4 * A(v) <= v /\ 100 * B(v) >= v - 99 /\ C(v) \in {4, 5}
      /\ A(u) \in Int /\ B(u) \in Int /\ A(v) \in Int /\ B(v) \in Int
  BY <1>1, SMTT(30)
<1>3. /\ Day(y, 1, 1) = 365 * u + A(u) - B(u) + C(u) + 1
      /\ Day(y + 1, 1, 1) = 365 * v + A(v) - B(v) + C(v) + 1
  BY <1>1 DEF Day, DaysBefore
<1> QED
  BY <1>1, <1>2, <1>3, SMTT(30)

\* A date from the first of January to the next is of that year.
LEMMA YearIs ==
  ASSUME NEW y \in Era, NEW date \in Int, date >= Day(y, 1, 1), date < Day(y + 1, 1, 1)
  PROVE  Year(date) = y
<1> DEFINE n == (400 * date) \div 146097
<1>1. y \in Int /\ 1900 <= y /\ y <= 2199
  BY DEF Era
<1>2. n \in Int /\ 146097 * n <= 400 * date /\ 400 * date < 146097 * (n + 1)
  OBVIOUS
<1>3. \A z \in 1898..2201 : Day(z, 1, 1) \in Int /\ (z < y => Day(z + 1, 1, 1) <= Day(y, 1, 1))
                            /\ (z > y => Day(y + 1, 1, 1) <= Day(z, 1, 1))
  BY <1>1, SMTT(30) DEF Day, DaysBefore, LeapYear
<1>4. y \in n..(n + 2) /\ n \in 1898..2199
  <2>1. Day(y, 1, 1) \in Int /\ Day(y + 1, 1, 1) \in Int
    BY <1>1, <1>3
  <2>2. 400 * Day(y, 1, 1) >= 146097 * (y - 2) /\ 400 * Day(y + 1, 1, 1) <= 146097 * (y + 1)
    BY YearsInDays
  <2> HIDE DEF n
  <2>3. 146097 * (y - 2) < 146097 * (n + 1) /\ 146097 * n < 146097 * (y + 1)
    BY <1>1, <1>2, <2>1, <2>2
  <2>4. y - 2 < n + 1 /\ n < y + 1
    BY <1>1, <1>2, <2>3
  <2> QED
    BY <1>1, <1>2, <2>4
<1>5. ASSUME NEW z \in n..(n + 2), date >= Day(z, 1, 1), date < Day(z + 1, 1, 1)
      PROVE  z = y
  <2>1. z \in 1898..2201 /\ z \in Int
    BY <1>4, <1>5
  <2>2. Day(y, 1, 1) \in Int /\ Day(z, 1, 1) \in Int
    BY <1>1, <1>3, <2>1
  <2>3. CASE z < y
    <3>1. Day(z + 1, 1, 1) <= Day(y, 1, 1)
      BY <1>3, <2>1, <2>3
    <3>2. z + 1 \in 1898..2201
      BY <2>1, <2>3, <1>1
    <3>3. Day(z + 1, 1, 1) \in Int
      BY <1>3, <3>2
    <3> QED
      BY <1>5, <2>2, <3>1, <3>3
  <2>4. CASE z > y
    <3>1. Day(y + 1, 1, 1) <= Day(z, 1, 1)
      BY <1>3, <2>1, <2>4
    <3>2. y + 1 \in 1898..2201
      BY <1>1
    <3>3. Day(y + 1, 1, 1) \in Int
      BY <1>3, <3>2
    <3> QED
      BY <1>5, <2>2, <3>1, <3>3
  <2> QED
    BY <1>1, <2>1, <2>3, <2>4
<1> QED
  BY <1>4, <1>5 DEF Year

\* The days of the era.
Days == Day(1900, 1, 1)..(Day(2200, 1, 1) - 1)

\* Every date of the era is in one of its years.
LEMMA YearOf ==
  ASSUME NEW date \in Days
  PROVE  /\ Year(date) \in Era /\ date \in Int
         /\ Day(Year(date), 1, 1) <= date /\ date < Day(Year(date) + 1, 1, 1)
<1> DEFINE S == {z \in Era : date < Day(z + 1, 1, 1)}
<1>1. Day(1900, 1, 1) \in Int /\ Day(2200, 1, 1) \in Int /\ date \in Int
      /\ Day(1900, 1, 1) <= date /\ date < Day(2200, 1, 1)
  BY DEF Days, Day, DaysBefore
<1>2. S \subseteq Nat /\ 2199 \in S
  BY <1>1 DEF Era
<1>3. PICK y \in S : \A z \in S : y <= z
  <2> HIDE DEF S
  <2>1. S \in SUBSET Nat /\ S # {}
    BY <1>2
  <2> QED
    BY <2>1, LeastNatural
<1>4. y \in Era /\ date < Day(y + 1, 1, 1)
  BY <1>3
<1>5. Day(y, 1, 1) <= date
  <2>1. CASE y = 1900
    BY <1>1, <2>1
  <2>2. CASE y # 1900
    <3>1. y - 1 \in Era /\ y - 1 + 1 = y /\ ~(y <= y - 1)
      BY <1>4, <2>2 DEF Era
    <3>2. y - 1 \notin S
      BY <1>3, <3>1
    <3>3. Day(y, 1, 1) \in Nat
      BY <1>4, YearLength
    <3> QED
      BY <1>1, <3>1, <3>2, <3>3
  <2> QED
    BY <2>1, <2>2
<1>6. Year(date) = y
  BY <1>1, <1>4, <1>5, YearIs
<1> QED
  BY <1>1, <1>4, <1>5, <1>6

\* nthWeekday is the one day with that weekday in the week it is looked for in.
LEMMA NthWeekdayIs ==
  ASSUME NEW y, NEW m, Day(y, m, 1) \in Int, NEW target \in 0..6, NEW k \in Nat \ {0}
  PROVE  LET nth == nthWeekday(y, m, target, k)
             from == Day(y, m, 1) + 7 * (k - 1)
         IN /\ nth \in from..(from + 6) /\ weekday(nth) = target
            /\ \A date \in from..(from + 6) : weekday(date) = target => date = nth
<1> DEFINE first == Day(y, m, 1)   from == first + 7 * (k - 1)
           nth == nthWeekday(y, m, target, k)
<1>1. nth = first + ((target - (first % 7) + 7) % 7) + (k - 1) * 7
  BY DEF nthWeekday, weekday
<1>2. first \in Int
  OBVIOUS
<1> HIDE DEF first, nth
<1>3. PICK q \in Int : first = 7 * q + (first % 7) /\ first % 7 \in 0..6
  <2>1. first = 7 * (first \div 7) + (first % 7) /\ first \div 7 \in Int /\ first % 7 \in 0..6
    BY <1>2
  <2> QED
    BY <2>1
<1> DEFINE r == first % 7
<1>4. r \in 0..6 /\ first = 7 * q + r
  BY <1>3
<1> HIDE DEF r
<1>5. nth = from + ((target - r + 7) % 7)
  BY <1>1, <1>2, <1>4 DEF r
<1>6. (target - r + 7) % 7 = IF target >= r THEN target - r ELSE target - r + 7
  BY <1>4
<1>7. nth \in from..(from + 6)
  BY <1>2, <1>4, <1>5, <1>6
<1>8. \A date \in from..(from + 6) : weekday(date) = target => date = nth
  BY <1>2, <1>4, <1>5, <1>6 DEF weekday
<1>9. weekday(nth) = target
  BY <1>2, <1>4, <1>5, <1>6 DEF weekday
<1> QED
  BY <1>7, <1>8, <1>9 DEF first, nth

Springs(y) == nthWeekday(y, 3, 0, 2)
Falls(y) == nthWeekday(y, 11, 0, 1)

\* The clocks change on Sundays, well inside the year.
LEMMA ClocksChange ==
  ASSUME NEW y \in Era
  PROVE  /\ Springs(y) \in Int /\ Falls(y) \in Int
         /\ weekday(Springs(y)) = 0 /\ weekday(Falls(y)) = 0
         /\ Day(y, 1, 1) + 60 < Springs(y)
         /\ Falls(y) + 40 < Day(y + 1, 1, 1)
<1> DEFINE J == Day(y, 1, 1)   leap == IF LeapYear(y) THEN 1 ELSE 0
<1>1. /\ Day(y, 3, 1) = J + 59 + leap /\ Day(y, 11, 1) = J + 304 + leap
      /\ Day(y + 1, 1, 1) = J + 365 + leap /\ J \in Int /\ leap \in 0..1
  <2>1. /\ DaysBefore(y, 3) = 59 + leap /\ DaysBefore(y, 11) = 304 + leap
        /\ J \in Int /\ leap \in 0..1
    BY YearLength DEF DaysBefore
  <2>2. /\ Day(y, 3, 1) = J + DaysBefore(y, 3) + 1 - 1
        /\ Day(y, 11, 1) = J + DaysBefore(y, 11) + 1 - 1
    BY MonthsFrom
  <2>3. Day(y + 1, 1, 1) = J + 365 + leap
    BY YearLength
  <2> HIDE DEF J, leap
  <2> QED
    BY <2>1, <2>2, <2>3
<1> HIDE DEF J, leap
<1>2. Day(y, 3, 1) \in Int /\ Day(y, 11, 1) \in Int
  BY <1>1
<1>3. /\ Springs(y) \in (Day(y, 3, 1) + 7 * (2 - 1))..(Day(y, 3, 1) + 7 * (2 - 1) + 6)
      /\ weekday(Springs(y)) = 0
  BY <1>2, NthWeekdayIs DEF Springs
<1>4. /\ Falls(y) \in (Day(y, 11, 1) + 7 * (1 - 1))..(Day(y, 11, 1) + 7 * (1 - 1) + 6)
      /\ weekday(Falls(y)) = 0
  BY <1>2, NthWeekdayIs DEF Falls
<1> QED
  BY <1>1, <1>2, <1>3, <1>4 DEF J

\* The instants of a walk.
Instants ==
  (Day(1901, 1, 1) * DayMinutes)..((Day(2199, 1, 1) + 20) * DayMinutes)

\* The day it is in New York, and the minute of it.
DayAt(t) == localNow(t) \div DayMinutes
MinuteAt(t) == localNow(t) % DayMinutes

\* The days that the walk and its looks back come to are of the era.
LEMMA EraIs ==
  LET first == Day(1901, 1, 1)   last == Day(2199, 1, 1) IN
  /\ first \in Nat /\ last \in Nat /\ first <= last
  /\ \A date \in Int :
       date >= first - 365 /\ date < last + 365 => date \in Days
<1>1. /\ Day(1901, 1, 1) \in Nat /\ Day(1901, 1, 1) = Day(1900, 1, 1) + 365
      /\ Day(2199, 1, 1) \in Nat /\ Day(2200, 1, 1) = Day(2199, 1, 1) + 365
      /\ Day(1901, 1, 1) <= Day(2199, 1, 1) /\ Day(1900, 1, 1) \in Nat
  BY SMT DEF Day, DaysBefore
<1> QED
  BY <1>1 DEF Days

\* dstOffset is four hours or five.
LEMMA DstOffsetIs ==
  ASSUME NEW date
  PROVE  /\ dstOffset(date) \in {240, 300}
         /\ dstOffset(date)
              = IF date >= Springs(Year(date)) /\ date < Falls(Year(date))
                THEN 240 ELSE 300
BY DEF dstOffset, Springs, Falls

\* An instant is a day and a minute in New York, and except on a Sunday the offset
\* between them is the one of the day.
LEMMA LocalTime ==
  ASSUME NEW t \in Instants
  PROVE  /\ t \in Int /\ DayAt(t) \in Int /\ DayAt(t) \in Days
         /\ DayAt(t) >= Day(1901, 1, 1) - 1 /\ DayAt(t) <= Day(2199, 1, 1) + 20
         /\ MinuteAt(t) \in 0..1439
         /\ \E off \in {240, 300} :
              /\ t = 1440 * DayAt(t) + MinuteAt(t) + off
              /\ weekday(DayAt(t)) # 0 => off = dstOffset(DayAt(t))
<1> DEFINE u == t \div DayMinutes   y == Year(u)
           off == IF /\ t >= Springs(y) * DayMinutes + 7 * 60
                     /\ t < Falls(y) * DayMinutes + 6 * 60
                  THEN 240 ELSE 300
           d == DayAt(t)   m == MinuteAt(t)
<1> DEFINE first == Day(1901, 1, 1)   last == Day(2199, 1, 1)
<1>0. /\ first \in Nat /\ last \in Nat
      /\ \A date \in Int : date >= first - 365 /\ date < last + 365 => date \in Days
  BY EraIs
<1> HIDE DEF first, last
<1>1. t \in Int /\ t >= first * 1440 /\ t <= (last + 20) * 1440
  BY <1>0 DEF Instants, DayMinutes, first, last
<1>2. /\ u \in Int /\ t >= 1440 * u /\ t < 1440 * (u + 1)
      /\ u >= first /\ u <= last + 20
  BY <1>0, <1>1 DEF DayMinutes
<1>3. localNow(t) = t - off /\ off \in {240, 300}
  BY <1>1 DEF localNow, Springs, Falls
<1> HIDE DEF off
<1>4. d \in Int /\ m \in 0..1439 /\ t - off = 1440 * d + m
  <2>1. t - off \in Int
    BY <1>1, <1>3
  <2> QED
    BY <1>3, <2>1 DEF DayAt, MinuteAt, DayMinutes
<1> HIDE DEF d, m, u
<1>5. d \in {u - 1, u}
  BY <1>1, <1>2, <1>3, <1>4
<1>6. d >= first - 1 /\ d <= last + 20 /\ d \in Days /\ u \in Days
  BY <1>0, <1>2, <1>4, <1>5
<1> DEFINE z == Year(d)
<1>7. /\ y \in Era /\ Day(y, 1, 1) <= u /\ u < Day(y + 1, 1, 1)
      /\ z \in Era /\ Day(z, 1, 1) <= d /\ d < Day(z + 1, 1, 1)
  BY <1>6, YearOf
<1>8. ASSUME weekday(d) # 0 PROVE off = dstOffset(d)
  <2>1. /\ Springs(y) \in Int /\ Falls(y) \in Int
        /\ weekday(Springs(y)) = 0 /\ weekday(Falls(y)) = 0
        /\ Day(y, 1, 1) + 60 < Springs(y) /\ Day(y, 1, 1) \in Nat
    BY <1>7, ClocksChange, YearLength
  <2>2. /\ Falls(z) \in Int /\ Falls(z) + 40 < Day(z + 1, 1, 1)
    BY <1>7, ClocksChange
  <2>3. off = 240 <=> t >= Springs(y) * 1440 + 420 /\ t < Falls(y) * 1440 + 360
    BY DEF off, DayMinutes
  <2>4. dstOffset(d) = 240 <=> d >= Springs(z) /\ d < Falls(z)
    BY DstOffsetIs
  <2>5. d # Springs(y) /\ d # Falls(y)
    BY <1>8, <2>1
  <2>6. off = 240 <=> d >= Springs(y) /\ d < Falls(y)
    <3>1. t >= Springs(y) * 1440 + 420 <=> d > Springs(y)
      BY <1>1, <1>3, <1>4, <2>1, <2>5
    <3>2. t < Falls(y) * 1440 + 360 <=> d < Falls(y)
      BY <1>1, <1>3, <1>4, <2>1, <2>5
    <3> QED
      BY <1>4, <2>1, <2>3, <2>5, <3>1, <3>2
  <2>7. CASE y = z
    BY <1>3, <2>4, <2>6, <2>7, DstOffsetIs
  <2>8. CASE y # z
    <3>1. d = u - 1 /\ d < Day(y, 1, 1)
      <4>1. CASE d >= Day(y, 1, 1)
        <5>1. d < Day(y + 1, 1, 1) /\ d \in Int
          <6>1. Day(y + 1, 1, 1) \in Int
            BY <1>7, YearLength
          <6> QED
            BY <1>2, <1>5, <1>7, <6>1
        <5>2. Year(d) = y
          BY <1>7, <4>1, <5>1, YearIs
        <5> QED
          BY <2>8, <5>2
      <4>2. CASE d < Day(y, 1, 1)
        BY <1>2, <1>5, <1>7, <2>1, <4>2
      <4> QED
        BY <4>1, <4>2, <2>1, <1>4
    <3>2. u >= Day(z + 1, 1, 1)
      <4>1. CASE u < Day(z + 1, 1, 1)
        <5>1. u >= Day(z, 1, 1)
          <6>1. Day(z, 1, 1) \in Nat
            BY <1>7, YearLength
          <6> QED
            BY <1>2, <1>7, <3>1, <6>1
        <5>2. Year(u) = z
          BY <1>2, <1>7, <4>1, <5>1, YearIs
        <5> QED
          BY <2>8, <5>2
      <4>2. Day(z + 1, 1, 1) \in Int
        BY <1>7, YearLength
      <4> QED
        BY <1>2, <4>1, <4>2
    <3>3. Day(z + 1, 1, 1) \in Int
      BY <1>7, YearLength
    <3>4. ~(d >= Springs(y)) /\ ~(d < Falls(z))
      BY <1>2, <1>4, <2>1, <2>2, <3>1, <3>2, <3>3
    <3> QED
      BY <1>3, <2>4, <2>6, <3>4, DstOffsetIs
  <2> QED
    BY <2>7, <2>8
<1>9. t = 1440 * d + m + off
  BY <1>1, <1>3, <1>4
<1> QED
  BY <1>1, <1>3, <1>4, <1>6, <1>8, <1>9 DEF d, m, first, last

\* The golden number's share of easterSunday, and the days to the Sunday.
MoonOf(y) == (19 * (y % 19) + 24) % 30
ToSunday(y) ==
  (32 + 2 * ((y \div 100) % 4) + 2 * ((y % 100) \div 4) - MoonOf(y) - ((y % 100) % 4)) % 7

\* easterSunday in terms of the moon and the days from it to Sunday.
LEMMA EasterTerms ==
  ASSUME NEW y \in Era
  PROVE  LET h == MoonOf(y)
             l == ToSunday(y)
             m == ((y % 19) + 11 * h + 22 * l) \div 451
             n == h + l - 7 * m + 114
         IN easterSunday(y) = Day(y, n \div 31, (n % 31) + 1)
<1> DEFINE b == y \div 100   g == (b - (b + 8) \div 25 + 1) \div 3
           e == (19 * (y % 19) + b - (b \div 4) - g + 15) % 30
<1>1. b \in {19, 20, 21}
  BY DEF Era
<1>2. b - (b \div 4) - g + 15 = 24
  <2>1. CASE b = 19
    BY <2>1
  <2>2. CASE b = 20
    BY <2>2
  <2>3. CASE b = 21
    BY <2>3
  <2> QED
    BY <1>1, <2>1, <2>2, <2>3
<1>3. e = MoonOf(y)
  <2>1. 19 * (y % 19) \in Int /\ b \in Int /\ b \div 4 \in Int /\ g \in Int
    BY <1>1 DEF Era
  <2>2. 19 * (y % 19) + b - (b \div 4) - g + 15 = 19 * (y % 19) + 24
    <3> HIDE DEF b, g
    <3> QED
      BY <1>2, <2>1
  <2> QED
    BY <2>2 DEF MoonOf
<1>4. easterSunday(y)
        = LET l == (32 + 2 * (b % 4) + 2 * ((y % 100) \div 4) - e - ((y % 100) % 4)) % 7
              m == ((y % 19) + 11 * e + 22 * l) \div 451
              n == e + l - 7 * m + 114
          IN Day(y, n \div 31, (n % 31) + 1)
  BY DEF easterSunday
<1> HIDE DEF e
<1> QED
  BY <1>3, <1>4 DEF ToSunday

\* The moon's table is the cycle's formula, with its two corrections.
LEMMA MoonsAre ==
  ASSUME NEW a \in 0..18
  PROVE  LET h == (19 * a + 24) % 30 IN
         /\ PaschalMoon[a + 1] = 21 + h - (IF h >= 28 THEN 1 ELSE 0)
         /\ h \in 0..29 /\ (h = 28 => a = 16) /\ (h = 29 => a = 5)
<1>1. a \in {0, 1, 2, 3, 4, 5, 6, 7, 8, 9, 10, 11, 12, 13, 14, 15, 16, 17, 18}
  OBVIOUS
<1> QED
  BY <1>1, SMTT(60) DEF PaschalMoon

\* Its last correction is due exactly where the table is lower than the formula.
LEMMA MoonIs ==
  ASSUME NEW y \in Era
  PROVE  LET h == MoonOf(y)   l == ToSunday(y)
             m == ((y % 19) + 11 * h + 22 * l) \div 451
         IN /\ h \in 0..29 /\ l \in 0..6
            /\ m = (IF h >= 28 /\ l = 6 THEN 1 ELSE 0)
            /\ PaschalMoon[(y % 19) + 1] = 21 + h - (IF h >= 28 THEN 1 ELSE 0)
<1> DEFINE a == y % 19   h == MoonOf(y)   l == ToSunday(y)
<1>1. a \in 0..18
  BY DEF Era
<1>2. /\ PaschalMoon[a + 1] = 21 + h - (IF h >= 28 THEN 1 ELSE 0)
      /\ h \in 0..29 /\ (h = 28 => a = 16) /\ (h = 29 => a = 5)
  BY <1>1, MoonsAre DEF MoonOf
<1>3. l \in 0..6
  <2>1. /\ y \div 100 \in Int /\ (y \div 100) % 4 \in Int /\ y % 100 \in Int
        /\ (y % 100) \div 4 \in Int /\ (y % 100) % 4 \in Int /\ h \in Int
    BY <1>2 DEF Era
  <2> DEFINE x == 32 + 2 * ((y \div 100) % 4) + 2 * ((y % 100) \div 4) - h - ((y % 100) % 4)
  <2>2. x \in Int
    <3> HIDE DEF h
    <3> QED
      BY <2>1
  <2>3. l = x % 7
    BY DEF ToSunday
  <2> HIDE DEF x, l, h
  <2> QED
    BY <2>2, <2>3
<1> HIDE DEF a, h, l
<1>4. (a + 11 * h + 22 * l) \div 451 = (IF h >= 28 /\ l = 6 THEN 1 ELSE 0)
  <2>1. CASE h = 28
    <3>1. a + 11 * h + 22 * l = 324 + 22 * l /\ 324 + 22 * l \in Int
      BY <1>2, <1>3, <2>1
    <3> QED
      BY <1>3, <2>1, <3>1
  <2>2. CASE h = 29
    <3>1. a + 11 * h + 22 * l = 324 + 22 * l
      BY <1>2, <1>3, <2>2
    <3> QED
      BY <1>3, <2>2, <3>1
  <2>3. CASE h <= 27
    <3>1. a + 11 * h + 22 * l \in 0..450
      BY <1>1, <1>2, <1>3, <2>3
    <3> QED
      BY <1>2, <2>3, <3>1
  <2> QED
    BY <1>2, <2>1, <2>2, <2>3
<1> QED
  BY <1>2, <1>3, <1>4 DEF a, h, l

\* That many days after the moon of the formula it is Sunday.
LEMMA SundayAfter ==
  ASSUME NEW y \in Era
  PROVE  weekday(Day(y, 3, 1) + 21 + MoonOf(y) + ToSunday(y)) = 0
<1> DEFINE b == y \div 100   c == y % 100   k == c \div 4   i == c % 4   h == MoonOf(y)
<1>1. /\ b \in {19, 20, 21} /\ k \in 0..24 /\ i \in 0..3 /\ y = 100 * b + 4 * k + i
      /\ h \in 0..29 /\ y \in Int
  <2>1. y \in Int /\ 1900 <= y /\ y <= 2199
    BY DEF Era
  <2>2. b \in {19, 20, 21} /\ c \in 0..99 /\ y = 100 * b + c
    BY <2>1
  <2>3. h \in 0..29
    BY MoonIs
  <2> HIDE DEF b, c, h
  <2>4. k \in 0..24 /\ i \in 0..3 /\ c = 4 * k + i
    BY <2>2
  <2> HIDE DEF k, i
  <2> QED
    BY <2>1, <2>2, <2>3, <2>4
<1>2. ToSunday(y) = (32 + 2 * (b % 4) + 2 * k - h - i) % 7
  BY DEF ToSunday
<1> HIDE DEF b, k, i, h
<1>3. Day(y, 3, 1) = 365 * y - 305 + (y \div 4) - (y \div 100) + (y \div 400)
  BY <1>1, SMTT(30) DEF Day, DaysBefore, LeapYear, Era
<1>4. y \div 4 = 25 * b + k /\ y \div 100 = b /\ y \div 400 = b \div 4
  BY <1>1, SMTT(30)
<1>5. Day(y, 3, 1) = 36524 * b + 1461 * k + 365 * i - 305 + (b \div 4)
  BY <1>1, <1>3, <1>4, SMTT(30)
<1>6. CASE b = 19
  BY <1>1, <1>2, <1>5, <1>6, SMTT(60) DEF weekday, h
<1>7. CASE b = 20
  BY <1>1, <1>2, <1>5, <1>7, SMTT(60) DEF weekday, h
<1>8. CASE b = 21
  BY <1>1, <1>2, <1>5, <1>8, SMTT(60) DEF weekday, h
<1> QED
  BY <1>1, <1>6, <1>7, <1>8

\* The months of a year, as days from its first.
LEMMA MonthsAre ==
  ASSUME NEW y \in Era
  PROVE  LET first == Day(y, 1, 1)   leap == IF LeapYear(y) THEN 1 ELSE 0 IN
         /\ first \in Nat /\ leap \in 0..1
         /\ \A d \in Int :
              /\ Day(y, 1, d) = first + d - 1 /\ Day(y, 2, d) = first + 30 + d
              /\ Day(y, 3, d) = first + 58 + leap + d
              /\ Day(y, 4, d) = first + 89 + leap + d
              /\ Day(y, 5, d) = first + 119 + leap + d
              /\ Day(y, 6, d) = first + 150 + leap + d
              /\ Day(y, 7, d) = first + 180 + leap + d
              /\ Day(y, 9, d) = first + 242 + leap + d
              /\ Day(y, 11, d) = first + 303 + leap + d
              /\ Day(y, 12, d) = first + 333 + leap + d
         /\ Day(y + 1, 1, 1) = first + 365 + leap
<1> DEFINE first == Day(y, 1, 1)   leap == IF LeapYear(y) THEN 1 ELSE 0
<1>1. /\ first \in Nat /\ leap \in 0..1 /\ Day(y + 1, 1, 1) = first + 365 + leap
  BY YearLength
<1>2. \A m \in 1..12 : \A d \in Int : Day(y, m, d) = first + DaysBefore(y, m) + d - 1
  BY MonthsFrom
<1>3. /\ DaysBefore(y, 1) = 0 /\ DaysBefore(y, 2) = 31
      /\ DaysBefore(y, 3) = 59 + leap /\ DaysBefore(y, 4) = 90 + leap
      /\ DaysBefore(y, 5) = 120 + leap /\ DaysBefore(y, 6) = 151 + leap
      /\ DaysBefore(y, 7) = 181 + leap /\ DaysBefore(y, 9) = 243 + leap
      /\ DaysBefore(y, 11) = 304 + leap /\ DaysBefore(y, 12) = 334 + leap
  BY DEF DaysBefore
<1> HIDE DEF first, leap
<1>4. ASSUME NEW d \in Int
      PROVE  /\ Day(y, 1, d) = first + d - 1 /\ Day(y, 2, d) = first + 30 + d
             /\ Day(y, 3, d) = first + 58 + leap + d
             /\ Day(y, 4, d) = first + 89 + leap + d
             /\ Day(y, 5, d) = first + 119 + leap + d
             /\ Day(y, 6, d) = first + 150 + leap + d
             /\ Day(y, 7, d) = first + 180 + leap + d
             /\ Day(y, 9, d) = first + 242 + leap + d
             /\ Day(y, 11, d) = first + 303 + leap + d
             /\ Day(y, 12, d) = first + 333 + leap + d
  <2>1. /\ Day(y, 1, d) = first + DaysBefore(y, 1) + d - 1
        /\ Day(y, 2, d) = first + DaysBefore(y, 2) + d - 1
        /\ Day(y, 3, d) = first + DaysBefore(y, 3) + d - 1
        /\ Day(y, 4, d) = first + DaysBefore(y, 4) + d - 1
        /\ Day(y, 5, d) = first + DaysBefore(y, 5) + d - 1
        /\ Day(y, 6, d) = first + DaysBefore(y, 6) + d - 1
        /\ Day(y, 7, d) = first + DaysBefore(y, 7) + d - 1
        /\ Day(y, 9, d) = first + DaysBefore(y, 9) + d - 1
        /\ Day(y, 11, d) = first + DaysBefore(y, 11) + d - 1
        /\ Day(y, 12, d) = first + DaysBefore(y, 12) + d - 1
    BY <1>2
  <2> QED
    BY <1>1, <1>3, <2>1
<1> QED
  BY <1>1, <1>4 DEF first, leap

\* easterSunday is the first Sunday after the moon.
LEMMA EasterIs ==
  ASSUME NEW y \in Era
  PROVE  LET moon == Day(y, 3, 1) - 1 + PaschalMoon[(y % 19) + 1]
             easter == easterSunday(y)
         IN /\ easter \in (moon + 1)..(moon + 7) /\ weekday(easter) = 0
            /\ moon \in (Day(y, 3, 1) + 20)..(Day(y, 3, 1) + 48)
            /\ \A date \in (moon + 1)..(moon + 7) :
                 weekday(date) = 0 => date = easter
<1> DEFINE a == y % 19   h == MoonOf(y)   l == ToSunday(y)
           m == (a + 11 * h + 22 * l) \div 451   n == h + l - 7 * m + 114
           mar == Day(y, 3, 1)   moon == mar - 1 + PaschalMoon[a + 1]
           easter == easterSunday(y)
<1>1. easter = Day(y, n \div 31, (n % 31) + 1)
  BY EasterTerms
<1>2. /\ h \in 0..29 /\ l \in 0..6 /\ m = (IF h >= 28 /\ l = 6 THEN 1 ELSE 0)
      /\ PaschalMoon[a + 1] = 21 + h - (IF h >= 28 THEN 1 ELSE 0)
  BY MoonIs
<1>3. weekday(mar + 21 + h + l) = 0
  BY SundayAfter
<1>4. /\ mar \in Int /\ \A d \in Int : Day(y, 3, d) = mar + d - 1
      /\ \A d \in Int : Day(y, 4, d) = mar + d + 30
  <2> DEFINE first == Day(y, 1, 1)   leap == IF LeapYear(y) THEN 1 ELSE 0
  <2>1. /\ first \in Nat /\ leap \in 0..1
        /\ \A d \in Int : /\ Day(y, 3, d) = first + 58 + leap + d
                          /\ Day(y, 4, d) = first + 89 + leap + d
    BY MonthsAre
  <2> HIDE DEF first, leap
  <2>2. mar = first + 59 + leap
    BY <2>1
  <2> QED
    BY <2>1, <2>2
<1> HIDE DEF a, h, l, m, mar, easter
<1>5. n \in 114..149
  BY <1>2
<1>6. easter = mar + n - 93
  <2>1. CASE n <= 123
    <3>1. n \div 31 = 3 /\ (n % 31) + 1 = n - 92 /\ n - 92 \in Int
      BY <1>5, <2>1
    <3>2. easter = Day(y, 3, n - 92)
      BY <1>1, <3>1
    <3> QED
      BY <1>4, <1>5, <3>1, <3>2
  <2>2. CASE n >= 124
    <3>1. n \div 31 = 4 /\ (n % 31) + 1 = n - 123 /\ n - 123 \in Int
      BY <1>5, <2>2
    <3>2. easter = Day(y, 4, n - 123)
      BY <1>1, <3>1
    <3> QED
      BY <1>4, <1>5, <3>1, <3>2
  <2> QED
    BY <1>5, <2>1, <2>2
<1>7. easter = mar + 21 + h + l - 7 * m /\ m \in 0..1
  BY <1>2, <1>4, <1>6
<1>8. moon = mar + 20 + h - (IF h >= 28 THEN 1 ELSE 0)
  BY <1>2, <1>4
<1>9. easter \in (moon + 1)..(moon + 7) /\ moon \in (mar + 20)..(mar + 48)
  BY <1>2, <1>4, <1>7, <1>8
<1>10. weekday(easter) = 0
  BY <1>2, <1>3, <1>4, <1>7 DEF weekday
<1>11. \A date \in (moon + 1)..(moon + 7) : weekday(date) = 0 => date = easter
  <2> HIDE DEF moon
  <2>1. moon \in Int /\ easter \in Int
    BY <1>2, <1>4, <1>7, <1>8
  <2> QED
    BY <1>9, <1>10, <2>1 DEF weekday
<1> QED
  BY <1>9, <1>10, <1>11 DEF mar, a, easter

\* Each rule makes of the year the days that it recognizes.
LEMMA NthIsInWeek ==
  ASSUME NEW y \in Era, NEW date \in Int, Year(date) = y, NEW m, Day(y, m, 1) \in Int,
         NEW target \in 0..6, NEW k \in Nat \ {0},
         Day(y, m, 7 * k - 6) = Day(y, m, 1) + 7 * (k - 1)
  PROVE  date = nthWeekday(y, m, target, k) <=> InWeek(date, m, 7 * k - 6, target)
<1> DEFINE from == Day(y, m, 1) + 7 * (k - 1)   nth == nthWeekday(y, m, target, k)
<1>1. /\ nth \in from..(from + 6) /\ weekday(nth) = target
      /\ \A e \in from..(from + 6) : weekday(e) = target => e = nth
  BY NthWeekdayIs
<1>2. InWeek(date, m, 7 * k - 6, target)
        <=> weekday(date) = target /\ date \in from..(from + 6)
  BY DEF InWeek
<1> QED
  BY <1>1, <1>2

\* The last Monday of May.
LEMMA LastMonday ==
  ASSUME NEW y \in Era, NEW date \in Int, Year(date) = y
  PROVE  date = lastWeekday(y, 5, 1) <=> InWeek(date, 5, 25, 1)
<1> DEFINE last == Day(y, 6, 1) - 1
           first == Day(y, 1, 1)   leap == IF LeapYear(y) THEN 1 ELSE 0
<1>1. first \in Nat /\ leap \in 0..1
      /\ \A d \in Int : /\ Day(y, 5, d) = first + 119 + leap + d
                        /\ Day(y, 6, d) = first + 150 + leap + d
  BY MonthsAre
<1>2. lastWeekday(y, 5, 1) = CHOOSE d \in (last - 6)..last : weekday(d) = 1
  BY DEF lastWeekday
<1>3. InWeek(date, 5, 25, 1)
        <=> weekday(date) = 1 /\ date \in Day(y, 5, 25)..(Day(y, 5, 25) + 6)
  BY DEF InWeek
<1> HIDE DEF first, leap
<1>4. Day(y, 5, 25) = last - 6 /\ last \in Int
  BY <1>1
<1> HIDE DEF last
<1>5. \E d \in (last - 6)..last : weekday(d) = 1
  <2> DEFINE d == last - ((last - 1) % 7)
  <2>1. (last - 1) % 7 \in 0..6 /\ last - 1 \in Int
    BY <1>4
  <2>2. d \in (last - 6)..last
    BY <1>4, <2>1
  <2>3. d % 7 = 1
    BY <1>4, SMTT(30)
  <2> QED
    BY <2>2, <2>3 DEF weekday
<1>6. \A d, e \in (last - 6)..last : weekday(d) = 1 /\ weekday(e) = 1 => d = e
  BY <1>4 DEF weekday
<1>7. date = lastWeekday(y, 5, 1) <=> weekday(date) = 1 /\ date \in (last - 6)..last
  BY <1>2, <1>5, <1>6
<1>8. last - 6 + 6 = last
  BY <1>4
<1> QED
  BY <1>3, <1>4, <1>7, <1>8

\* The observed day of a holiday, of New Year or another.
ObservedBeside(date, m, d) == Observed(date, m, d, TRUE)
ObservedAfter(date, m, d) == Observed(date, m, d, FALSE)

\* A holiday that falls on a weekend.
LEMMA FixedIsObserved ==
  ASSUME NEW y \in Era, NEW date \in Int, Year(date) = y, weekday(date) \in 1..5,
         NEW m, NEW d, Day(y, m, d) \in Int
  PROVE  /\ date = observedFixed(Day(y, m, d)) <=> ObservedBeside(date, m, d)
         /\ date \in observedNewYear(Day(y, m, d)) <=> ObservedAfter(date, m, d)
<1> DEFINE day == Day(y, m, d)
<1> DEFINE Fri == weekday(date) = 5 /\ date = day - 1
           Mon == weekday(date) = 1 /\ date = day + 1
<1>1. ObservedBeside(date, m, d) <=> date = day \/ Mon \/ Fri
  <2>1. ObservedBeside(date, m, d) <=> \/ date = day \/ Mon
                                       \/ TRUE /\ weekday(date) = 5 /\ date = day - 1
    BY Zenon DEF Observed, ObservedBeside, ObservedAfter
  <2> QED
    BY <2>1
<1>2. ObservedAfter(date, m, d) <=> date = day \/ Mon
  BY DEF Observed, ObservedAfter
<1>3. day \in Int
  OBVIOUS
<1> HIDE DEF day
<1>4. /\ day % 7 = 6 => (day - 1) % 7 = 5
      /\ day % 7 = 0 => (day + 1) % 7 = 1
      /\ (day - 1) % 7 = 5 => day % 7 = 6
      /\ (day + 1) % 7 = 1 => day % 7 = 0
  BY <1>3
<1>5. /\ weekday(day) = 6 => weekday(day - 1) = 5
      /\ weekday(day) = 0 => weekday(day + 1) = 1
      /\ weekday(day - 1) = 5 => weekday(day) = 6
      /\ weekday(day + 1) = 1 => weekday(day) = 0
      /\ weekday(day) \in 0..6
  BY <1>3, <1>4 DEF weekday
<1>6. CASE weekday(day) = 6
  <2>1. observedFixed(day) = day - 1 /\ observedNewYear(day) = {}
    BY <1>6 DEF observedFixed, observedNewYear
  <2>2. date = observedFixed(day) <=> date = day \/ Mon \/ Fri
    BY <1>3, <1>5, <1>6, <2>1
  <2>3. date \in observedNewYear(day) <=> date = day \/ Mon
    BY <1>3, <1>5, <1>6, <2>1
  <2> HIDE DEF Mon, Fri
  <2> QED
    BY <1>1, <1>2, <2>2, <2>3, Zenon DEF day
<1>7. CASE weekday(day) = 0
  <2>1. observedFixed(day) = day + 1 /\ observedNewYear(day) = {day + 1}
    BY <1>7 DEF observedFixed, observedNewYear
  <2>2. date = observedFixed(day) <=> date = day \/ Mon \/ Fri
    BY <1>3, <1>5, <1>7, <2>1
  <2>3. date \in observedNewYear(day) <=> date = day \/ Mon
    BY <1>3, <1>5, <1>7, <2>1
  <2> HIDE DEF Mon, Fri
  <2> QED
    BY <1>1, <1>2, <2>2, <2>3, Zenon DEF day
<1>8. CASE weekday(day) \notin {0, 6}
  <2>1. observedFixed(day) = day /\ observedNewYear(day) = {day}
    BY <1>8 DEF observedFixed, observedNewYear
  <2>2. date = observedFixed(day) <=> date = day \/ Mon \/ Fri
    BY <1>3, <1>5, <1>8, <2>1
  <2>3. date \in observedNewYear(day) <=> date = day \/ Mon
    BY <1>3, <1>5, <1>8, <2>1
  <2> HIDE DEF Mon, Fri
  <2> QED
    BY <1>1, <1>2, <2>2, <2>3, Zenon DEF day
<1> QED
  BY <1>6, <1>7, <1>8

\* Two days before Easter.
LEMMA GoodFriday ==
  ASSUME NEW y \in Era, NEW date \in Int,
         Day(y, 1, 1) <= date, date < Day(y + 1, 1, 1),
         y + 1 \in Era \/ date + 2 < Day(y + 1, 1, 1)
  PROVE  date = easterSunday(y) - 2 <=> AfterPaschalMoon(date + 2)
<1> DEFINE moon == Day(y, 3, 1) - 1 + PaschalMoon[(y % 19) + 1]
           easter == easterSunday(y)
           first == Day(y, 1, 1)   leap == IF LeapYear(y) THEN 1 ELSE 0
<1>1. /\ easter \in (moon + 1)..(moon + 7) /\ weekday(easter) = 0
      /\ moon \in (Day(y, 3, 1) + 20)..(Day(y, 3, 1) + 48)
      /\ \A e \in (moon + 1)..(moon + 7) : weekday(e) = 0 => e = easter
  BY EasterIs
<1>2. /\ first \in Nat /\ leap \in 0..1 /\ Day(y, 3, 1) = first + 58 + leap + 1
      /\ Day(y + 1, 1, 1) = first + 365 + leap
  BY MonthsAre
<1> HIDE DEF first, leap, moon, easter
<1>3. moon \in Int /\ easter \in Int /\ moon + 7 < Day(y + 1, 1, 1) - 100
      /\ moon > first + 60 /\ Day(y + 1, 1, 1) \in Int
  BY <1>1, <1>2
<1>4. CASE date + 2 < Day(y + 1, 1, 1)
  <2>1. Year(date + 2) = y
    BY <1>2, <1>4, YearIs DEF first
  <2>2. AfterPaschalMoon(date + 2)
          <=> date + 2 \in (moon + 1)..(moon + 7) /\ weekday(date + 2) = 0
    BY <2>1 DEF AfterPaschalMoon, moon
  <2>3. AfterPaschalMoon(date + 2) <=> date + 2 = easter
    BY <1>1, <2>2
  <2>4. date + 2 = easter <=> date = easter - 2
    BY <1>3
  <2> QED
    BY <2>3, <2>4 DEF easter
<1>5. CASE date + 2 >= Day(y + 1, 1, 1)
  <2>1. date # easter - 2
    BY <1>1, <1>3, <1>5
  <2>2. ~AfterPaschalMoon(date + 2)
    <3> DEFINE z == y + 1
               moonz == Day(z, 3, 1) - 1 + PaschalMoon[(z % 19) + 1]
    <3>1. CASE z \in Era
      <4> DEFINE firstz == Day(z, 1, 1)   leapz == IF LeapYear(z) THEN 1 ELSE 0
      <4>1. /\ moonz \in (Day(z, 3, 1) + 20)..(Day(z, 3, 1) + 48)
            /\ firstz \in Nat /\ leapz \in 0..1
            /\ Day(z, 3, 1) = firstz + 58 + leapz + 1
            /\ Day(z + 1, 1, 1) = firstz + 365 + leapz
        BY <3>1, EasterIs, MonthsAre
      <4>2. date + 2 <= firstz + 1 /\ firstz <= date + 2
        BY <1>3, <1>5
      <4> HIDE DEF leapz, moonz, firstz
      <4>3. date + 2 < Day(z + 1, 1, 1) /\ ~(date + 2 \in (moonz + 1)..(moonz + 7))
        BY <4>1, <4>2
      <4>4. Year(date + 2) = z
        BY <3>1, <4>2, <4>3, YearIs DEF firstz
      <4> QED
        BY <4>3, <4>4 DEF AfterPaschalMoon, moonz
    <3>2. CASE z \notin Era
      BY <1>3, <1>5, <3>2
    <3> QED
      BY <3>1, <3>2
  <2> QED
    BY <2>1, <2>2 DEF easter
<1> QED
  BY <1>3, <1>4, <1>5

\* The rules, in the order of the list of holidays.
LEMMA ExchangeHolidayIs ==
  ASSUME NEW date
  PROVE  ExchangeHoliday(date)
         <=> \/ ObservedAfter(date, 1, 1)
             \/ \/ InWeek(date, 1, 15, 1) \/ InWeek(date, 2, 15, 1)
                \/ AfterPaschalMoon(date + 2) \/ InWeek(date, 5, 25, 1)
             \/ Year(date) > 2021 /\ ObservedBeside(date, 6, 19)
             \/ \/ ObservedBeside(date, 7, 4) \/ InWeek(date, 9, 1, 1)
                \/ InWeek(date, 11, 22, 4) \/ ObservedBeside(date, 12, 25)
BY Zenon DEF ExchangeHoliday, ObservedBeside, ObservedAfter

\* Of a workday, that the year has it among its holidays is what its date says.
LEMMA HolidaysAre ==
  ASSUME NEW y \in Era, NEW date \in Int,
         Day(y, 1, 1) <= date, date < Day(y + 1, 1, 1),
         y + 1 \in Era \/ date + 2 < Day(y + 1, 1, 1), weekday(date) \in 1..5
  PROVE  date \in holidays(y) <=> ExchangeHoliday(date)
<1> DEFINE first == Day(y, 1, 1)   leap == IF LeapYear(y) THEN 1 ELSE 0
<1>1. Year(date) = y
  BY YearIs
<1>2. /\ first \in Nat /\ leap \in 0..1
      /\ \A d \in Int :
           /\ Day(y, 1, d) = first + d - 1 /\ Day(y, 2, d) = first + 30 + d
           /\ Day(y, 5, d) = first + 119 + leap + d
           /\ Day(y, 6, d) = first + 150 + leap + d
           /\ Day(y, 7, d) = first + 180 + leap + d
           /\ Day(y, 9, d) = first + 242 + leap + d
           /\ Day(y, 11, d) = first + 303 + leap + d
           /\ Day(y, 12, d) = first + 333 + leap + d
      /\ Day(y + 1, 1, 1) = first + 365 + leap
  BY MonthsAre
<1> HIDE DEF first, leap
<1>3. /\ Day(y, 1, 1) \in Int /\ Day(y, 1, 15) = Day(y, 1, 1) + 14
      /\ Day(y, 2, 1) \in Int /\ Day(y, 2, 15) = Day(y, 2, 1) + 14
      /\ Day(y, 9, 1) \in Int
      /\ Day(y, 11, 1) \in Int /\ Day(y, 11, 22) = Day(y, 11, 1) + 21
      /\ Day(y, 6, 19) \in Int /\ Day(y, 7, 4) \in Int /\ Day(y, 12, 25) \in Int
      /\ Day(y + 1, 1, 1) \in Int
  <2>1. Day(y, 1, 1) = first + 1 - 1 /\ Day(y, 1, 15) = first + 15 - 1
    BY <1>2
  <2>2. Day(y, 2, 1) = first + 30 + 1 /\ Day(y, 2, 15) = first + 30 + 15
    BY <1>2
  <2>3. Day(y, 9, 1) = first + 242 + leap + 1
    BY <1>2
  <2>4. Day(y, 11, 1) = first + 303 + leap + 1 /\ Day(y, 11, 22) = first + 303 + leap + 22
    BY <1>2
  <2>5. /\ Day(y, 6, 19) = first + 150 + leap + 19 /\ Day(y, 7, 4) = first + 180 + leap + 4
        /\ Day(y, 12, 25) = first + 333 + leap + 25
    <3>1. Day(y, 6, 19) = first + 150 + leap + 19
      BY <1>2
    <3>2. Day(y, 7, 4) = first + 180 + leap + 4
      BY <1>2
    <3>3. Day(y, 12, 25) = first + 333 + leap + 25
      BY <1>2
    <3> QED
      BY <3>1, <3>2, <3>3
  <2>6. Day(y + 1, 1, 1) = first + 365 + leap /\ first \in Int /\ leap \in Int
    BY <1>2
  <2> QED
    BY <2>1, <2>2, <2>3, <2>4, <2>5, <2>6
<1>4. date \in observedNewYear(Day(y, 1, 1)) <=> ObservedAfter(date, 1, 1)
  BY <1>1, <1>3, FixedIsObserved
<1>5. date = nthWeekday(y, 1, 1, 3) <=> InWeek(date, 1, 15, 1)
  <2>1. 7 * 3 - 6 = 15 /\ 7 * (3 - 1) = 14
    OBVIOUS
  <2>2. Day(y, 1, 7 * 3 - 6) = Day(y, 1, 1) + 7 * (3 - 1)
    BY <1>3, <2>1
  <2>3. date = nthWeekday(y, 1, 1, 3) <=> InWeek(date, 1, 7 * 3 - 6, 1)
    BY <1>1, <1>3, <2>2, NthIsInWeek
  <2> QED
    BY <2>1, <2>3
<1>6. date = nthWeekday(y, 2, 1, 3) <=> InWeek(date, 2, 15, 1)
  <2>1. 7 * 3 - 6 = 15 /\ 7 * (3 - 1) = 14
    OBVIOUS
  <2>2. Day(y, 2, 7 * 3 - 6) = Day(y, 2, 1) + 7 * (3 - 1)
    BY <1>3, <2>1
  <2>3. date = nthWeekday(y, 2, 1, 3) <=> InWeek(date, 2, 7 * 3 - 6, 1)
    BY <1>1, <1>3, <2>2, NthIsInWeek
  <2> QED
    BY <2>1, <2>3
<1>7. date = nthWeekday(y, 9, 1, 1) <=> InWeek(date, 9, 1, 1)
  <2>1. 7 * 1 - 6 = 1 /\ 7 * (1 - 1) = 0
    OBVIOUS
  <2>2. Day(y, 9, 7 * 1 - 6) = Day(y, 9, 1) + 7 * (1 - 1)
    BY <1>3, <2>1
  <2>3. date = nthWeekday(y, 9, 1, 1) <=> InWeek(date, 9, 7 * 1 - 6, 1)
    BY <1>1, <1>3, <2>2, NthIsInWeek
  <2> QED
    BY <2>1, <2>3
<1>8. date = thanksgiving(y) <=> InWeek(date, 11, 22, 4)
  <2>1. 7 * 4 - 6 = 22 /\ 7 * (4 - 1) = 21
    OBVIOUS
  <2>2. Day(y, 11, 7 * 4 - 6) = Day(y, 11, 1) + 7 * (4 - 1)
    BY <1>3, <2>1
  <2>3. date = nthWeekday(y, 11, 4, 4) <=> InWeek(date, 11, 7 * 4 - 6, 4)
    BY <1>1, <1>3, <2>2, NthIsInWeek
  <2> QED
    BY <2>1, <2>3 DEF thanksgiving
<1>9. date = easterSunday(y) - 2 <=> AfterPaschalMoon(date + 2)
  BY GoodFriday
<1>10. date = lastWeekday(y, 5, 1) <=> InWeek(date, 5, 25, 1)
  BY <1>1, LastMonday
<1>11. /\ date = observedFixed(Day(y, 6, 19)) <=> ObservedBeside(date, 6, 19)
       /\ date = observedFixed(Day(y, 7, 4)) <=> ObservedBeside(date, 7, 4)
       /\ date = observedFixed(Day(y, 12, 25)) <=> ObservedBeside(date, 12, 25)
  <2>1. date = observedFixed(Day(y, 6, 19)) <=> ObservedBeside(date, 6, 19)
    <3>1. Day(y, 6, 19) \in Int
      BY <1>3
    <3> QED
      BY <1>1, <3>1, FixedIsObserved
  <2>2. date = observedFixed(Day(y, 7, 4)) <=> ObservedBeside(date, 7, 4)
    <3>1. Day(y, 7, 4) \in Int
      BY <1>3
    <3> QED
      BY <1>1, <3>1, FixedIsObserved
  <2>3. date = observedFixed(Day(y, 12, 25)) <=> ObservedBeside(date, 12, 25)
    <3>1. Day(y, 12, 25) \in Int
      BY <1>3
    <3> QED
      BY <1>1, <3>1, FixedIsObserved
  <2> QED
    BY <2>1, <2>2, <2>3
<1>12. date \in {observedFixed(Day(z, 6, 19)) : z \in {y} \ 0..2021}
         <=> Year(date) > 2021 /\ ObservedBeside(date, 6, 19)
  <2>1. y \in {y} \ 0..2021 <=> y > 2021
    BY DEF Era
  <2>2. date \in {observedFixed(Day(z, 6, 19)) : z \in {y} \ 0..2021}
          <=> y \in {y} \ 0..2021 /\ date = observedFixed(Day(y, 6, 19))
    OBVIOUS
  <2>3. Year(date) > 2021 <=> y \in {y} \ 0..2021
    BY <1>1, <2>1
  <2>4. date = observedFixed(Day(y, 6, 19)) <=> ObservedBeside(date, 6, 19)
    BY <1>11
  <2> QED
    BY <2>2, <2>3, <2>4
<1>13. date \notin observedNewYear(Day(y + 1, 1, 1))
  BY <1>3 DEF observedNewYear
<1>14. date \in holidays(y)
         <=> \/ date \in observedNewYear(Day(y, 1, 1))
             \/ date \in {nthWeekday(y, 1, 1, 3), nthWeekday(y, 2, 1, 3),
                          easterSunday(y) - 2, lastWeekday(y, 5, 1)}
             \/ date \in {observedFixed(Day(z, 6, 19)) : z \in {y} \ 0..2021}
             \/ date \in {observedFixed(Day(y, 7, 4)), nthWeekday(y, 9, 1, 1),
                          thanksgiving(y), observedFixed(Day(y, 12, 25))}
             \/ date \in observedNewYear(Day(y + 1, 1, 1))
  BY DEF holidays
<1>15. date \in {nthWeekday(y, 1, 1, 3), nthWeekday(y, 2, 1, 3),
                 easterSunday(y) - 2, lastWeekday(y, 5, 1)}
         <=> \/ InWeek(date, 1, 15, 1) \/ InWeek(date, 2, 15, 1)
             \/ AfterPaschalMoon(date + 2) \/ InWeek(date, 5, 25, 1)
  BY <1>5, <1>6, <1>9, <1>10, Zenon
<1>16. date \in {observedFixed(Day(y, 7, 4)), nthWeekday(y, 9, 1, 1),
                 thanksgiving(y), observedFixed(Day(y, 12, 25))}
         <=> \/ ObservedBeside(date, 7, 4) \/ InWeek(date, 9, 1, 1)
             \/ InWeek(date, 11, 22, 4) \/ ObservedBeside(date, 12, 25)
  BY <1>7, <1>8, <1>11, Zenon
<1>18. ASSUME date \in holidays(y) PROVE ExchangeHoliday(date)
  <2>1. CASE date \in observedNewYear(Day(y, 1, 1))
    BY <1>4, ExchangeHolidayIs, <2>1
  <2>2. CASE date \in {nthWeekday(y, 1, 1, 3), nthWeekday(y, 2, 1, 3),
                       easterSunday(y) - 2, lastWeekday(y, 5, 1)}
    BY <1>15, ExchangeHolidayIs, <2>2
  <2>3. CASE date \in {observedFixed(Day(z, 6, 19)) : z \in {y} \ 0..2021}
    BY <1>12, ExchangeHolidayIs, <2>3
  <2>4. CASE date \in {observedFixed(Day(y, 7, 4)), nthWeekday(y, 9, 1, 1),
                       thanksgiving(y), observedFixed(Day(y, 12, 25))}
    BY <1>16, ExchangeHolidayIs, <2>4
  <2> QED
    BY <1>13, <1>14, <1>18, <2>1, <2>2, <2>3, <2>4
<1>19. ASSUME ExchangeHoliday(date) PROVE date \in holidays(y)
  <2>1. CASE ObservedAfter(date, 1, 1)
    BY <1>4, <1>14, <2>1
  <2>2. CASE \/ InWeek(date, 1, 15, 1) \/ InWeek(date, 2, 15, 1)
             \/ AfterPaschalMoon(date + 2) \/ InWeek(date, 5, 25, 1)
    BY <1>14, <1>15, <2>2
  <2>3. CASE Year(date) > 2021 /\ ObservedBeside(date, 6, 19)
    BY <1>12, <1>14, <2>3
  <2>4. CASE \/ ObservedBeside(date, 7, 4) \/ InWeek(date, 9, 1, 1)
             \/ InWeek(date, 11, 22, 4) \/ ObservedBeside(date, 12, 25)
    BY <1>14, <1>16, <2>4
  <2> QED
    BY ExchangeHolidayIs, <1>19, <2>1, <2>2, <2>3, <2>4
<1> QED
  BY <1>18, <1>19

\* The days a walk asks about.
WalkedDays ==
  {d \in Int : d >= Day(1901, 1, 1) - 20 /\ d <= Day(2199, 1, 1) + 20}

\* isTradingDay is what the exchange's rules say of the date.
LEMMA TradingIs ==
  ASSUME NEW date \in WalkedDays
  PROVE  isTradingDay(date)
           <=> weekday(date) \in 1..5 /\ ~ExchangeHoliday(date)
<1> DEFINE y == Year(date)
<1>1. /\ date \in Int /\ date \in Days /\ Day(2199, 1, 1) \in Nat
      /\ date <= Day(2199, 1, 1) + 20
  BY EraIs DEF WalkedDays
<1>2. y \in Era /\ Day(y, 1, 1) <= date /\ date < Day(y + 1, 1, 1)
  BY <1>1, YearOf
<1>3. y + 1 \in Era \/ date + 2 < Day(y + 1, 1, 1)
  <2>1. CASE y = 2199
    <3>1. 2199 \in Era
      BY DEF Era
    <3>2. Day(2199 + 1, 1, 1) = Day(2199, 1, 1) + 365 + (IF LeapYear(2199) THEN 1 ELSE 0)
      BY <3>1, YearLength
    <3>3. Day(2199 + 1, 1, 1) >= Day(2199, 1, 1) + 365
      BY <1>1, <3>2
    <3> QED
      BY <1>1, <2>1, <3>2, <3>3
  <2>2. CASE y # 2199
    BY <1>2, <2>2 DEF Era
  <2> QED
    BY <2>1, <2>2
<1>4. weekday(date) \in 0..6
  BY <1>1 DEF weekday
<1>5. CASE weekday(date) \in 1..5
  <2>1. date \in holidays(y) <=> ExchangeHoliday(date)
    BY <1>1, <1>2, <1>3, <1>5, HolidaysAre
  <2>2. weekday(date) \notin {0, 6}
    BY <1>5
  <2> QED
    BY <1>5, <2>1, <2>2, Zenon DEF isTradingDay
<1>6. CASE weekday(date) \in {0, 6}
  <2>1. weekday(date) \notin 1..5
    BY <1>6
  <2> QED
    BY <1>6, <2>1, Zenon DEF isTradingDay
<1> QED
  BY <1>4, <1>5, <1>6

\* A holiday in the middle of the week is one of four dates.
LEMMA MidweekHoliday ==
  ASSUME NEW y \in Era, NEW date \in Int,
         Day(y, 1, 1) <= date, date < Day(y + 1, 1, 1),
         weekday(date) \in {2, 3}, ExchangeHoliday(date)
  PROVE  LET first == Day(y, 1, 1)   leap == IF LeapYear(y) THEN 1 ELSE 0
         IN  date \in {first, first + 169 + leap, first + 184 + leap, first + 358 + leap}
<1> DEFINE first == Day(y, 1, 1)   leap == IF LeapYear(y) THEN 1 ELSE 0
<1>1. Year(date) = y
  BY YearIs
<1>2. /\ Day(y, 6, 19) = first + 150 + leap + 19
      /\ Day(y, 7, 4) = first + 180 + leap + 4
      /\ Day(y, 12, 25) = first + 333 + leap + 25
      /\ first \in Nat /\ leap \in 0..1
  <2>1. /\ first \in Nat /\ leap \in 0..1
        /\ \A d \in Int : /\ Day(y, 6, d) = first + 150 + leap + d
                          /\ Day(y, 7, d) = first + 180 + leap + d
                          /\ Day(y, 12, d) = first + 333 + leap + d
    BY MonthsAre
  <2> HIDE DEF first, leap
  <2>2. Day(y, 6, 19) = first + 150 + leap + 19
    BY <2>1
  <2>3. Day(y, 7, 4) = first + 180 + leap + 4
    BY <2>1
  <2>4. Day(y, 12, 25) = first + 333 + leap + 25
    BY <2>1
  <2> QED
    BY <2>1, <2>2, <2>3, <2>4
<1>3. ~AfterPaschalMoon(date + 2)
  <2>1. AfterPaschalMoon(date + 2) => weekday(date + 2) = 0
    BY DEF AfterPaschalMoon
  <2>2. date % 7 \in {2, 3} => (date + 2) % 7 # 0
    OBVIOUS
  <2> QED
    BY <2>1, <2>2 DEF weekday
<1>4. ~InWeek(date, 1, 15, 1) /\ ~InWeek(date, 2, 15, 1) /\ ~InWeek(date, 5, 25, 1)
      /\ ~InWeek(date, 9, 1, 1) /\ ~InWeek(date, 11, 22, 4)
  BY DEF InWeek
<1>5. ObservedAfter(date, 1, 1) => date = Day(y, 1, 1)
  BY <1>1 DEF ObservedAfter, Observed
<1>6. ObservedBeside(date, 6, 19) => date = Day(y, 6, 19)
  BY <1>1 DEF ObservedBeside, Observed
<1>7. ObservedBeside(date, 7, 4) => date = Day(y, 7, 4)
  BY <1>1 DEF ObservedBeside, Observed
<1>8. ObservedBeside(date, 12, 25) => date = Day(y, 12, 25)
  BY <1>1 DEF ObservedBeside, Observed
<1>9. \/ ObservedAfter(date, 1, 1) \/ ObservedBeside(date, 6, 19)
      \/ ObservedBeside(date, 7, 4) \/ ObservedBeside(date, 12, 25)
  BY <1>3, <1>4, ExchangeHolidayIs
<1>10. \/ date = Day(y, 1, 1) \/ date = Day(y, 6, 19)
       \/ date = Day(y, 7, 4) \/ date = Day(y, 12, 25)
  BY <1>5, <1>6, <1>7, <1>8, <1>9
<1> HIDE DEF leap
<1>11. date \in {first, first + 169 + leap, first + 184 + leap, first + 358 + leap}
  BY <1>2, <1>10
<1> QED
  BY <1>11 DEF leap

\* No two of these follow one another.
LEMMA TuesdayOrWednesday ==
  ASSUME NEW date \in Int, date \in Days, date + 1 \in Days, weekday(date) = 2,
         ExchangeHoliday(date), ExchangeHoliday(date + 1)
  PROVE  FALSE
<1> DEFINE y == Year(date)   z == Year(date + 1)
           first == Day(y, 1, 1)   leap == IF LeapYear(y) THEN 1 ELSE 0
           firstz == Day(z, 1, 1)   leapz == IF LeapYear(z) THEN 1 ELSE 0
<1>1. /\ y \in Era /\ first <= date /\ date < Day(y + 1, 1, 1)
      /\ z \in Era /\ firstz <= date + 1 /\ date + 1 < Day(z + 1, 1, 1)
  BY YearOf
<1>2. weekday(date + 1) = 3
  <2>1. date % 7 = 2 => (date + 1) % 7 = 3
    OBVIOUS
  <2> QED
    BY <2>1 DEF weekday
<1>3. date \in {first, first + 169 + leap, first + 184 + leap, first + 358 + leap}
  BY <1>1, MidweekHoliday
<1>4. date + 1 \in {firstz, firstz + 169 + leapz, firstz + 184 + leapz, firstz + 358 + leapz}
  <2>1. date + 1 \in Int
    OBVIOUS
  <2> QED
    BY <1>1, <1>2, <2>1, MidweekHoliday
<1>5. /\ first \in Nat /\ leap \in 0..1 /\ Day(y + 1, 1, 1) = first + 365 + leap
      /\ firstz \in Nat /\ leapz \in 0..1
  BY <1>1, YearLength
<1>6. CASE date + 1 < Day(y + 1, 1, 1)
  <2>1. z = y
    BY <1>1, <1>5, <1>6, YearIs
  <2>2. firstz = first /\ leapz = leap
    BY <2>1
  <2> HIDE DEF first, leap, firstz, leapz
  <2> QED
    BY <1>3, <1>4, <1>5, <2>2
<1>7. CASE date + 1 >= Day(y + 1, 1, 1)
  <2> HIDE DEF first, leap, firstz, leapz
  <2> QED
    BY <1>1, <1>3, <1>5, <1>7
<1> QED
  BY <1>1, <1>5, <1>6, <1>7

\* The dates whose last trading day a walk asks for.
AskedDays ==
  {d \in Int : d >= Day(1901, 1, 1) - 1 /\ d <= Day(2199, 1, 1) + 20}

\* Among ten days there is one on which the exchange trades.
LEMMA TradesWithin ==
  ASSUME NEW date \in AskedDays
  PROVE  \E n \in 1..10 : isTradingDay(date - n)
<1> DEFINE lo == Day(1901, 1, 1)   hi == Day(2199, 1, 1)
           n == ((date - 4) % 7) + 2
<1>1. /\ date \in Int /\ lo - 1 <= date /\ date <= hi + 20
      /\ lo \in Nat /\ hi \in Nat
      /\ \A d \in Int : d >= lo - 365 /\ d < hi + 365 => d \in Days
  BY EraIs DEF AskedDays
<1> HIDE DEF lo, hi
<1>2. n \in 2..8 /\ (date - n) % 7 = 2 /\ (date - n + 1) % 7 = 3
  BY <1>1
<1> HIDE DEF n
<1>3. /\ date - n \in Int /\ date - n >= lo - 20 /\ date - n + 1 <= hi + 20
      /\ date - n <= hi + 20 /\ date - n + 1 >= lo - 20
  BY <1>1, <1>2
<1>4. date - n \in Days /\ date - n + 1 \in Days
  BY <1>1, <1>3
<1>5. date - n \in WalkedDays /\ date - n + 1 \in WalkedDays
  BY <1>3 DEF WalkedDays, lo, hi
<1>6. weekday(date - n) = 2 /\ weekday(date - n + 1) = 3
  BY <1>2 DEF weekday
<1>7. CASE ~ExchangeHoliday(date - n)
  <2>1. isTradingDay(date - n)
    BY <1>5, <1>6, <1>7, TradingIs
  <2> QED
    BY <1>2, <2>1
<1>8. CASE ExchangeHoliday(date - n)
  <2>1. ~ExchangeHoliday(date - n + 1)
    BY <1>3, <1>4, <1>6, <1>8, TuesdayOrWednesday
  <2>2. isTradingDay(date - n + 1)
    BY <1>5, <1>6, <2>1, TradingIs
  <2>3. date - n + 1 = date - (n - 1) /\ n - 1 \in 1..10
    BY <1>1, <1>2
  <2> QED
    BY <2>2, <2>3
<1> QED
  BY <1>7, <1>8

\* previousTradingDate finds the last trading day before the date.
LEMMA PreviousIs ==
  ASSUME NEW date \in AskedDays
  PROVE  LET p == previousTradingDate(date) IN
         /\ p \in Int /\ date - 10 <= p /\ p < date /\ isTradingDay(p)
         /\ \A e \in Int : p < e /\ e < date => ~isTradingDay(e)
<1> DEFINE T == {n \in 1..10 : isTradingDay(date - n)}
<1>1. T \subseteq Nat /\ T # {} /\ date \in Int
  <2>1. T # {}
    BY TradesWithin
  <2>2. T \subseteq Nat /\ date \in Int
    BY DEF AskedDays
  <2> QED
    BY <2>1, <2>2
<1>2. PICK n \in T : \A k \in T : n <= k
  BY <1>1, LeastNatural
<1>3. /\ isTradingDay(date - n) /\ n \in 1..10
      /\ \A k \in 1..(n - 1) : ~isTradingDay(date - k)
  BY <1>2
<1> DEFINE m == CHOOSE i \in 1..10 : /\ isTradingDay(date - i)
                                     /\ \A k \in 1..(i - 1) : ~isTradingDay(date - k)
<1>4. /\ m \in 1..10 /\ isTradingDay(date - m)
      /\ \A k \in 1..(m - 1) : ~isTradingDay(date - k)
  BY <1>3
<1>5. previousTradingDate(date) = date - m
  BY DEF previousTradingDate
<1> HIDE DEF m
<1>6. ASSUME NEW e \in Int, date - m < e, e < date PROVE ~isTradingDay(e)
  <2>1. date - e \in 1..(m - 1) /\ date - (date - e) = e
    BY <1>1, <1>4, <1>6
  <2> QED
    BY <1>4, <2>1
<1> QED
  BY <1>1, <1>4, <1>5, <1>6

\* When a session of that date begins and ends.
Begins(e) == localToUtc(e, Opens)
Ends(e) == localToUtc(e, Closes(e))

\* A session ends at one in the afternoon or at four.
LEMMA ClosesAre ==
  ASSUME NEW e PROVE Closes(e) \in {780, 960}
BY DEF Closes

\* Sessions begin and end at bells.
LEMMA BellsRing ==
  ASSUME NEW e \in Int
  PROVE  /\ \E b \in Bells : Begins(e) = 1440 * e + b
         /\ \E b \in Bells : Ends(e) = 1440 * e + b
         /\ Begins(e) = 1440 * e + 570 + dstOffset(e)
         /\ Ends(e) = 1440 * e + Closes(e) + dstOffset(e)
         /\ Begins(e) \in Int /\ Ends(e) \in Int /\ Begins(e) < Ends(e)
         /\ dstOffset(e) \in {240, 300} /\ Closes(e) \in {780, 960}
<1>1. dstOffset(e) \in {240, 300} /\ Closes(e) \in {780, 960}
  BY ClosesAre, DstOffsetIs
<1>2. /\ Begins(e) = 1440 * e + 570 + dstOffset(e)
      /\ Ends(e) = 1440 * e + Closes(e) + dstOffset(e)
  <2>1. e * DayMinutes = 1440 * e /\ Opens = 570
    BY DEF DayMinutes, Opens
  <2> QED
    BY <1>1, <2>1 DEF Begins, Ends, localToUtc
<1>3. 1440 * e \in Int
  OBVIOUS
<1>4. 570 + dstOffset(e) \in Bells /\ Closes(e) + dstOffset(e) \in Bells
  BY <1>1 DEF Bells
<1>5. /\ 1440 * e + 570 + dstOffset(e) = 1440 * e + (570 + dstOffset(e))
      /\ 1440 * e + Closes(e) + dstOffset(e) = 1440 * e + (Closes(e) + dstOffset(e))
  BY <1>1, <1>3
<1>6. Begins(e) \in Int /\ Ends(e) \in Int /\ Begins(e) < Ends(e)
  BY <1>1, <1>2, <1>3
<1> QED
  BY <1>1, <1>2, <1>4, <1>5, <1>6

\* No session is on a Sunday, when the clocks change.
LEMMA Workday ==
  ASSUME NEW e, isTradingDay(e) PROVE weekday(e) # 0
BY DEF isTradingDay

\* A time of day of a trading day, seen from the instant.
LEMMA InSession ==
  ASSUME NEW t \in Instants, NEW e \in Int, isTradingDay(e)
  PROVE  /\ t >= Begins(e) /\ t <= Ends(e) => DayAt(t) = e
         /\ DayAt(t) = e => t = 1440 * e + MinuteAt(t) + dstOffset(e)
<1>1. PICK off \in {240, 300} :
        /\ t = 1440 * DayAt(t) + MinuteAt(t) + off
        /\ weekday(DayAt(t)) # 0 => off = dstOffset(DayAt(t))
  BY LocalTime
<1>2. t \in Int /\ DayAt(t) \in Int /\ MinuteAt(t) \in 0..1439
  BY LocalTime
<1>3. dstOffset(e) \in {240, 300} /\ Closes(e) \in {780, 960}
  BY ClosesAre, DstOffsetIs
<1>4. ASSUME t >= Begins(e), t <= Ends(e) PROVE DayAt(t) = e
  <2>1. /\ 1440 * DayAt(t) + MinuteAt(t) + off >= 1440 * e + 570 + dstOffset(e)
        /\ 1440 * DayAt(t) + MinuteAt(t) + off <= 1440 * e + Closes(e) + dstOffset(e)
    BY <1>1, <1>4, BellsRing
  <2> DEFINE d == DayAt(t)   m == MinuteAt(t)
  <2>2. /\ d \in Int /\ m \in 0..1439
        /\ 1440 * d + m + off >= 1440 * e + 570 + dstOffset(e)
        /\ 1440 * d + m + off <= 1440 * e + Closes(e) + dstOffset(e)
    BY <1>2, <2>1
  <2> HIDE DEF d, m
  <2>3. 1440 * d < 1440 * e + 1440 /\ 1440 * d + 1440 > 1440 * e
    BY <1>3, <2>2
  <2>4. d = e
    BY <2>2, <2>3
  <2> QED
    BY <2>4 DEF d
<1>5. ASSUME DayAt(t) = e PROVE t = 1440 * e + MinuteAt(t) + dstOffset(e)
  BY <1>1, <1>5, Workday
<1> QED
  BY <1>4, <1>5

\* The phase is regular from the beginning of a session to its end.
LEMMA RegularIs ==
  ASSUME NEW t \in Instants
  PROVE  LET s == resolveUsEquitySession(t)   d == DayAt(t) IN
         /\ s.trades = isTradingDay(d) /\ s.openAt = Begins(d) /\ s.closeAt = Ends(d)
         /\ s.phase = "regular" <=> isTradingDay(d) /\ Begins(d) <= t /\ t < Ends(d)
<1> DEFINE s == resolveUsEquitySession(t)   d == DayAt(t)   m == MinuteAt(t)
<1>1. s.trades = isTradingDay(d) /\ s.openAt = Begins(d) /\ s.closeAt = Ends(d)
  BY DEF resolveUsEquitySession, DayAt, Begins, Ends
<1>2. s.phase = IF ~isTradingDay(d) THEN "holiday"
                ELSE IF m \in Opens..(Closes(d) - 1) THEN "regular"
                ELSE IF m \in (7 * 60)..(20 * 60 - 1) THEN "extended"
                ELSE "closed"
  BY DEF resolveUsEquitySession, DayAt, MinuteAt
<1>3. s.phase = "regular" <=> isTradingDay(d) /\ m \in Opens..(Closes(d) - 1)
  <2> DEFINE inHours == m \in Opens..(Closes(d) - 1)   open == isTradingDay(d)
  <2> HIDE DEF s, inHours, open
  <2>1. s.phase = IF ~open THEN "holiday" ELSE IF inHours THEN "regular"
                  ELSE IF m \in (7 * 60)..(20 * 60 - 1) THEN "extended"
                  ELSE "closed"
    BY <1>2 DEF inHours, open
  <2> QED
    BY <2>1 DEF inHours, open
<1>4. d \in Int /\ m \in 0..1439 /\ t \in Int
  BY LocalTime
<1>5. ASSUME isTradingDay(d)
      PROVE  m \in Opens..(Closes(d) - 1) <=> Begins(d) <= t /\ t < Ends(d)
  <2>1. t = 1440 * d + m + dstOffset(d)
    BY <1>4, <1>5, InSession
  <2> HIDE DEF d, m
  <2>2. /\ Begins(d) = 1440 * d + 570 + dstOffset(d)
        /\ Ends(d) = 1440 * d + Closes(d) + dstOffset(d)
    BY <1>4, BellsRing
  <2>3. dstOffset(d) \in {240, 300} /\ Closes(d) \in {780, 960} /\ Opens = 570
    BY ClosesAre, DstOffsetIs DEF Opens
  <2> QED
    BY <1>4, <2>1, <2>2, <2>3
<1> QED
  BY <1>1, <1>3, <1>5

\* The day of the last close is the last trading day whose session has ended.
LEMMA LastCloseIs ==
  ASSUME NEW t \in Instants
  PROVE  \E last \in Int :
           /\ resolveUsEquitySession(t).lastRegularCloseAt = Ends(last)
           /\ isTradingDay(last) /\ Ends(last) <= t
           /\ \A e \in Int : isTradingDay(e) /\ e > last => t < Ends(e)
<1> DEFINE d == DayAt(t)   m == MinuteAt(t)   last == lastCloseDate(d, m)
<1>1. resolveUsEquitySession(t).lastRegularCloseAt = Ends(last)
  BY DEF resolveUsEquitySession, DayAt, MinuteAt, Ends
<1>2. d \in Int /\ m \in 0..1439 /\ t \in Int /\ d \in AskedDays
  BY LocalTime DEF AskedDays
<1>3. PICK off \in {240, 300} : t = 1440 * d + m + off
  BY LocalTime
<1>4. ASSUME NEW e \in Int, e > d PROVE t < Ends(e)
  <2>1. /\ Ends(e) = 1440 * e + Closes(e) + dstOffset(e)
        /\ dstOffset(e) \in {240, 300} /\ Closes(e) \in {780, 960}
    BY BellsRing
  <2> HIDE DEF d, m
  <2>2. 1440 * e >= 1440 * d + 1440
    BY <1>2, <1>4
  <2> QED
    BY <1>2, <1>3, <2>1, <2>2
<1>5. ASSUME NEW e \in Int, e < d PROVE Ends(e) <= t
  <2>1. /\ Ends(e) = 1440 * e + Closes(e) + dstOffset(e)
        /\ dstOffset(e) \in {240, 300} /\ Closes(e) \in {780, 960}
    BY BellsRing
  <2> HIDE DEF d, m
  <2>2. 1440 * e <= 1440 * d - 1440
    BY <1>2, <1>5
  <2> QED
    BY <1>2, <1>3, <2>1, <2>2
<1>6. ASSUME isTradingDay(d) PROVE m >= Closes(d) <=> Ends(d) <= t
  <2>1. t = 1440 * d + m + dstOffset(d)
    BY <1>2, <1>6, InSession
  <2> HIDE DEF d, m
  <2>2. /\ Ends(d) = 1440 * d + Closes(d) + dstOffset(d)
        /\ dstOffset(d) \in {240, 300} /\ Closes(d) \in {780, 960}
    BY <1>2, BellsRing
  <2> QED
    BY <1>2, <2>1, <2>2
<1>7. CASE isTradingDay(d) /\ m >= Closes(d)
  <2>1. last = d
    BY <1>7 DEF lastCloseDate
  <2>2. Ends(d) <= t
    BY <1>6, <1>7
  <2> QED
    BY <1>1, <1>2, <1>4, <1>7, <2>1, <2>2
<1>8. CASE ~(isTradingDay(d) /\ m >= Closes(d))
  <2>1. last = previousTradingDate(d)
    BY <1>8 DEF lastCloseDate
  <2>2. /\ last \in Int /\ last < d /\ isTradingDay(last)
        /\ \A e \in Int : last < e /\ e < d => ~isTradingDay(e)
    BY <1>2, <2>1, PreviousIs
  <2>3. ASSUME NEW e \in Int, isTradingDay(e), e > last PROVE t < Ends(e)
    <3>1. CASE e > d
      BY <1>4, <3>1
    <3>2. CASE e = d
      <4>1. ~(Ends(d) <= t) /\ Ends(d) \in Int
        BY <1>2, <1>6, <1>8, <2>3, <3>2, BellsRing
      <4> HIDE DEF d
      <4> QED
        BY <1>2, <3>2, <4>1
    <3>3. CASE e < d
      BY <2>2, <2>3, <3>3
    <3> HIDE DEF d, last
    <3> QED
      BY <1>2, <3>1, <3>2, <3>3
  <2>4. Ends(last) <= t
    BY <1>5, <2>2
  <2> QED
    BY <1>1, <2>2, <2>3, <2>4
<1> QED
  BY <1>7, <1>8

\* A session ends before the next begins.
LEMMA EndsInOrder ==
  ASSUME NEW d \in Int, NEW e \in Int, d < e PROVE Ends(d) < Begins(e)
<1>1. /\ Ends(d) = 1440 * d + Closes(d) + dstOffset(d)
      /\ dstOffset(d) \in {240, 300} /\ Closes(d) \in {780, 960}
      /\ Begins(e) = 1440 * e + 570 + dstOffset(e) /\ dstOffset(e) \in {240, 300}
  BY BellsRing
<1> QED
  BY <1>1

\* The walk looks next at the first mark, and passes over no bell.
LEMMA NextMarkIs ==
  ASSUME NEW t \in Nat
  PROVE  /\ NextMark(t) \in Nat /\ t < NextMark(t) /\ NextMark(t) <= t + 2880
         /\ \A k \in Int, b \in Bells :
              ~(t < 1440 * k + b /\ 1440 * k + b < NextMark(t))
<1> DEFINE q == t \div 1440   r == t % 1440
           later == {m \in MinuteMarks : m > r}
           marks == IF later = {} THEN MinuteMarks ELSE later
           first == CHOOSE m \in marks : \A n \in marks : m <= n
<1>1. /\ q \in Nat /\ r \in 0..1439 /\ t = 1440 * q + r
  OBVIOUS
<1>2. Bells \subseteq MinuteMarks /\ MinuteMarks \subseteq 0..1439 /\ MinuteMarks # {}
  BY CalendarAssumption DEF Bells
<1>3. NextMark(t) = (IF later = {} THEN q + 1 ELSE q) * 1440 + first
  <2>1. DayMinutes = 1440
    BY DEF DayMinutes
  <2> QED
    BY <2>1 DEF NextMark
<1> HIDE DEF q, r
<1>4. later \subseteq MinuteMarks
  OBVIOUS
<1> HIDE DEF later, first
<1>5. marks \subseteq 0..1439 /\ marks # {}
  BY <1>2, <1>4
<1> HIDE DEF marks
<1>6. first \in marks /\ \A n \in marks : first <= n
  <2>1. marks \subseteq Nat /\ marks # {}
    BY <1>5
  <2>2. \E m \in marks : \A n \in marks : m <= n
    BY <2>1, LeastNatural
  <2> QED
    BY <2>2 DEF first
<1>7. first \in 0..1439
  BY <1>5, <1>6
<1>8. CASE later # {}
  <2>1. NextMark(t) = q * 1440 + first /\ marks = later
    BY <1>3, <1>8 DEF marks
  <2>2. first > r
    BY <1>6, <2>1 DEF later
  <2>3. ASSUME NEW k \in Int, NEW b \in Bells,
               t < 1440 * k + b, 1440 * k + b < NextMark(t)
        PROVE  FALSE
    <3>1. b \in 0..1439 /\ b \in MinuteMarks
      BY <1>2
    <3>2. 1440 * k < 1440 * q + 1440 /\ 1440 * q < 1440 * k + 1440
      <4>1. /\ 1440 * q + r < 1440 * k + b /\ 1440 * k + b < q * 1440 + first
            /\ q \in Int /\ k \in Int /\ r \in 0..1439 /\ b \in 0..1439
            /\ first \in 0..1439
        BY <1>1, <1>7, <2>1, <2>3, <3>1
      <4> QED
        BY <4>1
    <3>3. k = q
      BY <1>1, <3>2
    <3>4. b > r /\ b < first
      BY <1>1, <1>7, <2>1, <2>3, <3>1, <3>3
    <3>5. b \in later
      BY <3>1, <3>4 DEF later
    <3>6. first <= b
      BY <1>6, <2>1, <3>5
    <3> QED
      BY <1>7, <3>1, <3>4, <3>6
  <2>4. /\ NextMark(t) \in Nat /\ t < NextMark(t) /\ NextMark(t) <= t + 2880
    BY <1>1, <1>7, <2>1, <2>2
  <2> QED
    BY <2>3, <2>4
<1>9. CASE later = {}
  <2>1. NextMark(t) = (q + 1) * 1440 + first /\ marks = MinuteMarks
    BY <1>3, <1>9 DEF marks
  <2>2. \A b \in MinuteMarks : ~(b > r)
    BY <1>9 DEF later
  <2>3. ASSUME NEW k \in Int, NEW b \in Bells,
               t < 1440 * k + b, 1440 * k + b < NextMark(t)
        PROVE  FALSE
    <3>1. b \in 0..1439 /\ b \in MinuteMarks
      BY <1>2
    <3>2. first <= b /\ ~(b > r)
      BY <1>6, <2>1, <2>2, <3>1
    <3>3. 1440 * k > 1440 * q /\ 1440 * k < 1440 * (q + 1)
      BY <1>1, <1>7, <2>1, <2>3, <3>1, <3>2
    <3> QED
      BY <1>1, <3>3
  <2>4. /\ NextMark(t) \in Nat /\ t < NextMark(t) /\ NextMark(t) <= t + 2880
    BY <1>1, <1>7, <2>1
  <2> QED
    BY <2>3, <2>4
<1> QED
  BY <1>8, <1>9

\* What a look tells of the next one, if no bell rings in between.
LEMMA LastCloseMoves ==
  ASSUME NEW t \in Instants, NEW u \in Instants, t < u,
         \A k \in Int, b \in Bells : ~(t < 1440 * k + b /\ 1440 * k + b < u)
  PROVE  LET s == resolveUsEquitySession(t)
             s1 == resolveUsEquitySession(u)
         IN  s1.lastRegularCloseAt
               = IF s.phase = "regular" /\ s1.phase # "regular"
                 THEN u ELSE s.lastRegularCloseAt
<1> DEFINE s == resolveUsEquitySession(t)   s1 == resolveUsEquitySession(u)
<1>1. t \in Int /\ u \in Int /\ DayAt(t) \in Int /\ DayAt(u) \in Int
  BY LocalTime
<1>2. PICK last \in Int :
        /\ s.lastRegularCloseAt = Ends(last) /\ isTradingDay(last) /\ Ends(last) <= t
        /\ \A e \in Int : isTradingDay(e) /\ e > last => t < Ends(e)
  BY LastCloseIs
<1>3. PICK next \in Int :
        /\ s1.lastRegularCloseAt = Ends(next) /\ isTradingDay(next) /\ Ends(next) <= u
        /\ \A e \in Int : isTradingDay(e) /\ e > next => u < Ends(e)
  BY LastCloseIs
<1>4. \A e \in Int : ~(t < Ends(e) /\ Ends(e) < u) /\ ~(t < Begins(e) /\ Begins(e) < u)
  BY BellsRing
<1>5. \A e \in Int : Ends(e) \in Int /\ Begins(e) \in Int /\ Begins(e) < Ends(e)
  BY BellsRing
<1>6. /\ s.phase = "regular"
           <=> isTradingDay(DayAt(t)) /\ Begins(DayAt(t)) <= t /\ t < Ends(DayAt(t))
      /\ s1.phase = "regular"
           <=> isTradingDay(DayAt(u)) /\ Begins(DayAt(u)) <= u /\ u < Ends(DayAt(u))
  BY RegularIs
<1> HIDE DEF s, s1
<1>7. ASSUME NEW e \in Int, isTradingDay(e), t < Ends(e), Ends(e) <= u
      PROVE  /\ Ends(e) = u /\ e = next
             /\ s.phase = "regular" /\ s1.phase # "regular"
  <2>1. Ends(e) = u
    BY <1>1, <1>4, <1>5, <1>7
  <2>2. e = next
    <3>1. ~(e > next)
      BY <1>1, <1>3, <1>7, <2>1
    <3>2. ~(e < next)
      <4>1. e < next => Ends(e) < Begins(next)
        BY EndsInOrder
      <4> QED
        BY <1>1, <1>3, <1>5, <2>1, <4>1
    <3> QED
      BY <3>1, <3>2
  <2>3. Begins(e) <= t
    BY <1>1, <1>4, <1>5, <2>1
  <2>4. DayAt(t) = e
    BY <1>1, <1>5, <1>7, <2>3, InSession
  <2>5. s.phase = "regular"
    BY <1>6, <1>7, <2>3, <2>4
  <2>6. DayAt(u) = e
    <3>1. u >= Begins(e) /\ u <= Ends(e)
      BY <1>1, <1>5, <2>1
    <3> QED
      BY <1>7, <3>1, InSession
  <2>7. s1.phase # "regular"
    BY <1>1, <1>6, <2>1, <2>6
  <2> QED
    BY <2>1, <2>2, <2>5, <2>7
<1>8. CASE s.phase = "regular" /\ s1.phase # "regular"
  <2> DEFINE d == DayAt(t)
  <2>1. isTradingDay(d) /\ Begins(d) <= t /\ t < Ends(d) /\ d \in Int
    BY <1>1, <1>6, <1>8
  <2>2. Ends(d) <= u
    <3> SUFFICES ASSUME u < Ends(d) PROVE FALSE
      BY <1>1, <1>5, <2>1
    <3>1. u >= Begins(d) /\ u <= Ends(d)
      BY <1>1, <1>5, <2>1
    <3>2. DayAt(u) = d
      BY <2>1, <3>1, InSession
    <3> QED
      BY <1>6, <1>8, <2>1, <3>1, <3>2
  <2>3. Ends(d) = u /\ d = next
    BY <1>7, <2>1, <2>2
  <2> HIDE DEF d
  <2>4. s1.lastRegularCloseAt = u
    BY <1>3, <2>3
  <2> QED
    BY <1>8, <2>4 DEF s, s1
<1>9. CASE ~(s.phase = "regular" /\ s1.phase # "regular")
  <2>1. ~(last < next)
    BY <1>2, <1>3, <1>7, <1>9
  <2>2. ~(next < last)
    <3> SUFFICES ASSUME next < last PROVE FALSE
      OBVIOUS
    <3>1. u < Ends(last)
      BY <1>2, <1>3
    <3> QED
      BY <1>1, <1>2, <1>5, <3>1
  <2>3. last = next
    BY <2>1, <2>2
  <2> QED
    BY <1>2, <1>3, <1>9, <2>3 DEF s, s1
<1> QED
  BY <1>8, <1>9 DEF s, s1

\* Where the walk is, and what it has seen.
CalendarInv ==
  /\ at \in Instants
  /\ session = resolveUsEquitySession(at)
  /\ seenClose # 0 => session.lastRegularCloseAt = seenClose

\* The years of the walk begin in the order of their numbers.
LEMMA BeginningIs ==
  ASSUME NEW y \in 1901..2199
  PROVE  /\ Beginning(y) \in Nat
         /\ Beginning(1901) <= Beginning(y) /\ Beginning(y) <= Beginning(2199)
<1> DEFINE J(z) == Day(z, 1, 1)
<1>1. y \in Era /\ 1901 \in Era /\ 2199 \in Era /\ y \in Int
  BY DEF Era
<1>2. J(1901) \in Nat /\ J(y) \in Nat /\ J(2199) \in Nat
  BY <1>1, YearLength
<1>3. J(1901) <= J(y)
  <2>1. CASE y = 1901
    BY <1>2, <2>1
  <2>2. CASE y # 1901
    <3>1. J(1901 + 1) = J(1901) + 365 + (IF LeapYear(1901) THEN 1 ELSE 0)
      BY <1>1, YearLength
    <3>2. J(1901 + 1) <= J(y)
      BY <1>1, <2>2, YearsApart
    <3> QED
      BY <1>2, <3>1, <3>2
  <2> QED
    BY <2>1, <2>2
<1>4. J(y) <= J(2199)
  <2>1. CASE y = 2199
    BY <1>2, <2>1
  <2>2. CASE y # 2199
    <3>1. J(y + 1) = J(y) + 365 + (IF LeapYear(y) THEN 1 ELSE 0)
      BY <1>1, YearLength
    <3>2. J(y + 1) <= J(2199)
      BY <1>1, <2>2, YearsApart
    <3> QED
      BY <1>2, <3>1, <3>2
  <2> QED
    BY <2>1, <2>2
<1>5. /\ Beginning(y) = J(y) * 1440 /\ Beginning(1901) = J(1901) * 1440
      /\ Beginning(2199) = J(2199) * 1440
  <2>1. DayMinutes = 1440
    BY DEF DayMinutes
  <2> QED
    BY <2>1 DEF Beginning
<1> HIDE DEF J
<1> QED
  BY <1>2, <1>3, <1>4, <1>5

\* How far the walk may go.
LEMMA InstantsAre ==
  ASSUME NEW t \in Nat, t >= Beginning(1901), t <= Beginning(2199) + 28800
  PROVE  t \in Instants
<1> DEFINE a == Day(1901, 1, 1)   b == Day(2199, 1, 1)
<1>1. a \in Nat /\ b \in Nat
  BY EraIs
<1>2. /\ Beginning(1901) = a * 1440 /\ Beginning(2199) = b * 1440
      /\ Instants = (a * 1440)..((b + 20) * 1440)
  <2>1. DayMinutes = 1440
    BY DEF DayMinutes
  <2> QED
    BY <2>1 DEF Beginning, Instants
<1> HIDE DEF a, b
<1>3. t >= a * 1440 /\ t <= b * 1440 + 28800 /\ b * 1440 + 28800 = (b + 20) * 1440
  BY <1>1, <1>2
<1>4. t \in (a * 1440)..((b + 20) * 1440)
  BY <1>1, <1>3
<1> QED
  BY <1>2, <1>4

\* The walk begins with what the calendar says of its first instant.
LEMMA CalendarInitially == CalendarInit => CalendarInv
<1> SUFFICES ASSUME CalendarInit PROVE CalendarInv
  OBVIOUS
<1>1. PICK y \in WalkedYears, m \in 1..12 : at = Day(y, m, 1) * DayMinutes
  BY DEF CalendarInit
<1>2. y \in 1901..2198
  BY CalendarAssumption
<1>3. y \in Era /\ y + 1 \in 1901..2199 /\ y \in 1901..2199
  BY <1>2 DEF Era
<1>4. /\ Day(y, 1, 1) \in Nat
      /\ Day(y + 1, 1, 1) = Day(y, 1, 1) + 365 + (IF LeapYear(y) THEN 1 ELSE 0)
  BY <1>3, YearLength
<1>5. Day(y, m, 1) = Day(y, 1, 1) + DaysBefore(y, m) + 1 - 1
  BY <1>3, MonthsFrom
<1>6. DaysBefore(y, m) \in 0..335
  BY DEF DaysBefore
<1>7. Day(y, m, 1) \in Day(y, 1, 1)..Day(y + 1, 1, 1)
  BY <1>4, <1>5, <1>6
<1>8. Beginning(y) = Day(y, 1, 1) * 1440 /\ Beginning(y + 1) = Day(y + 1, 1, 1) * 1440
      /\ at = Day(y, m, 1) * 1440
  <2>1. DayMinutes = 1440
    BY DEF DayMinutes
  <2> QED
    BY <1>1, <2>1 DEF Beginning
<1>9. at \in Beginning(y)..Beginning(y + 1)
  <2> DEFINE a == Day(y, 1, 1)   b == Day(y, m, 1)   c == Day(y + 1, 1, 1)
  <2>1. a \in Nat /\ c \in Nat /\ b \in a..c
    BY <1>4, <1>7
  <2> HIDE DEF a, b, c
  <2>2. b * 1440 \in (a * 1440)..(c * 1440)
    BY <2>1
  <2> QED
    BY <1>8, <2>2 DEF a, b, c
<1>10. at \in Instants
  <2>1. /\ Beginning(y) \in Nat /\ Beginning(1901) <= Beginning(y)
    BY <1>3, BeginningIs
  <2>2. Beginning(y + 1) \in Nat /\ Beginning(y + 1) <= Beginning(2199)
    BY <1>3, BeginningIs
  <2>3. Beginning(1901) \in Nat /\ Beginning(2199) \in Nat
    BY BeginningIs
  <2>4. at \in Nat /\ at >= Beginning(1901) /\ at <= Beginning(2199) + 28800
    BY <1>9, <2>1, <2>2, <2>3
  <2> QED
    BY <2>4, InstantsAre
<1> QED
  BY <1>10 DEF CalendarInit, CalendarInv

\* CalendarInv is inductive.
LEMMA CalendarSteps == CalendarInv /\ [CalendarTick]_calendarVars => CalendarInv'
<1> SUFFICES ASSUME CalendarInv, [CalendarTick]_calendarVars PROVE CalendarInv'
  OBVIOUS
<1>1. CASE UNCHANGED calendarVars
  BY <1>1 DEF CalendarInv, calendarVars
<1>2. CASE CalendarTick
  <2>1. PICK y \in WalkedYears : at \in Beginning(y)..(Beginning(y + 1) + 7 * DayMinutes)
    BY <1>2 DEF CalendarTick
  <2>2. y \in 1901..2199 /\ y + 1 \in 1901..2199
    BY CalendarAssumption
  <2>3. /\ Beginning(y) \in Nat /\ Beginning(y + 1) \in Nat /\ Beginning(2199) \in Nat
        /\ Beginning(1901) <= Beginning(y) /\ Beginning(y + 1) <= Beginning(2199)
        /\ Beginning(1901) \in Nat
    <3>1. /\ Beginning(y) \in Nat /\ Beginning(1901) <= Beginning(y)
      BY <2>2, BeginningIs
    <3>2. Beginning(y + 1) \in Nat /\ Beginning(y + 1) <= Beginning(2199)
      BY <2>2, BeginningIs
    <3>3. Beginning(1901) \in Nat /\ Beginning(2199) \in Nat
      BY BeginningIs
    <3> QED
      BY <3>1, <3>2, <3>3
  <2>4. at \in Instants /\ at' = NextMark(at) /\ session = resolveUsEquitySession(at)
        /\ session' = resolveUsEquitySession(at')
        /\ seenClose' = IF session.phase = "regular" /\ session'.phase # "regular"
                        THEN at' ELSE seenClose
    BY <1>2 DEF CalendarInv, CalendarTick
  <2>5. at \in Nat /\ at <= Beginning(2199) + 10080
    <3>1. 7 * DayMinutes = 10080
      BY DEF DayMinutes
    <3> QED
      BY <2>1, <2>3, <3>1
  <2>6. /\ at' \in Nat /\ at < at' /\ at' <= at + 2880
        /\ \A k \in Int, b \in Bells : ~(at < 1440 * k + b /\ 1440 * k + b < at')
    BY <2>4, <2>5, NextMarkIs
  <2>7. at' \in Instants
    <3>1. at >= Beginning(1901)
      BY <2>1, <2>3, <2>5
    <3>2. at' >= Beginning(1901) /\ at' <= Beginning(2199) + 28800
      BY <2>3, <2>5, <2>6, <3>1
    <3> QED
      BY <2>6, <3>2, InstantsAre
  <2>8. session'.lastRegularCloseAt
          = IF session.phase = "regular" /\ session'.phase # "regular"
            THEN at' ELSE session.lastRegularCloseAt
    BY <2>4, <2>6, <2>7, LastCloseMoves
  <2>9. seenClose' # 0 => session'.lastRegularCloseAt = seenClose'
    BY <2>4, <2>8 DEF CalendarInv
  <2> QED
    BY <2>4, <2>7, <2>9 DEF CalendarInv
<1> QED
  BY <1>1, <1>2

\* It implies the property.
LEMMA CalendarSays == CalendarInv => CalendarHolds
<1> SUFFICES ASSUME CalendarInv PROVE CalendarHolds
  OBVIOUS
<1> DEFINE d == DayAt(at)
<1>1. at \in Instants /\ session = resolveUsEquitySession(at)
  BY DEF CalendarInv
<1>2. /\ session.trades = isTradingDay(d)
      /\ session.openAt = Begins(d) /\ session.closeAt = Ends(d)
      /\ session.phase = "regular" <=> isTradingDay(d) /\ Begins(d) <= at /\ at < Ends(d)
  BY <1>1, RegularIs
<1>3. session.lastRegularCloseAt <= at
  BY <1>1, LastCloseIs
<1>4. SessionsFollowBells
  BY <1>2, <1>3 DEF CalendarInv, SessionsFollowBells
<1>5. d \in WalkedDays
  <2>1. /\ d \in Int /\ d >= Day(1901, 1, 1) - 1 /\ d <= Day(2199, 1, 1) + 20
        /\ Day(1901, 1, 1) \in Nat
    BY <1>1, LocalTime, EraIs
  <2> HIDE DEF d
  <2> QED
    BY <2>1 DEF WalkedDays
<1>6. isTradingDay(d) <=> weekday(d) \in 1..5 /\ ~ExchangeHoliday(d)
  BY <1>5, TradingIs
<1>7. OpenOnBusinessDays
  BY <1>2, <1>6 DEF OpenOnBusinessDays, DayAt
<1> QED
  BY <1>4, <1>7 DEF CalendarHolds

\* At every instant of any years from 1901 to 2198 the calendar's last close is
\* the end of the last session, its hours in UTC are those at which the phase
\* changes, and its trading days are those of the exchange's rules.
THEOREM CalendarSound ==
  CalendarInit /\ [][CalendarTick]_calendarVars => []CalendarHolds
  BY CalendarInitially, CalendarSteps, CalendarSays, PTL

(***************************************************************************)
(* The hours the scheduler meets.                                          *)
(***************************************************************************)
\* The kind SessionHours has for a date: scheduleWindow of resolveUsEquitySession,
\* with its halfDay.
KindOf(date) ==
  IF isTradingDay(date) THEN (IF isEarlyClose(date) THEN "early" ELSE "full")
  ELSE IF weekday(date) \in {0, 6} THEN "weekend" ELSE "holiday"

\* The hours of n dates in a row, in minutes from midnight before the first.
Hours(first, n) ==
  INSTANCE SessionHours WITH
    Calendar <- [k \in 1..n |-> KindOf(first + k - 1)], DaySlots <- 1440,
    Open <- 570, Close <- 960, EarlyClose <- 780,
    ExtendedOpen <- 420, ExtendedClose <- 1200

\* The minute from midnight before the first at which the clocks of New York stand.
Slot(first, t) == 1440 * (DayAt(t) - first) + MinuteAt(t)

\* When the session of a date closes, in these minutes.
CloseSlot(first, e) == 1440 * (e - first) + Closes(e)

\* What the kind of a date says of its session.
LEMMA KindsAre ==
  ASSUME NEW date
  PROVE  /\ KindOf(date) \in {"full", "early"} <=> isTradingDay(date)
         /\ isTradingDay(date)
              => Closes(date) = IF KindOf(date) = "early" THEN 780 ELSE 960
<1> DEFINE trades == isTradingDay(date)   early == isEarlyClose(date)
           off == weekday(date) \in {0, 6}
<1>1. KindOf(date) = IF trades THEN (IF early THEN "early" ELSE "full")
                     ELSE IF off THEN "weekend" ELSE "holiday"
  BY DEF KindOf
<1>2. Closes(date) = (IF early THEN 13 ELSE 16) * 60
  BY DEF Closes
<1> HIDE DEF trades, early, off
<1>3. KindOf(date) \in {"full", "early"} <=> trades
  BY <1>1
<1>4. trades => Closes(date) = IF KindOf(date) = "early" THEN 780 ELSE 960
  BY <1>1, <1>2
<1> QED
  BY <1>3, <1>4 DEF trades

\* A day of the hours is a date of the calendar.
LEMMA HoursOfDay ==
  ASSUME NEW first \in Int, NEW n \in Nat, NEW k \in 1..n
  PROVE  LET e == first + k - 1 IN
         /\ Hours(first, n)!TradingDay(k) <=> isTradingDay(e)
         /\ Hours(first, n)!OpenAt(k) = 1440 * (e - first) + 570
         /\ isTradingDay(e) => Hours(first, n)!CloseAt(k) = CloseSlot(first, e)
<1> DEFINE e == first + k - 1
           days == [i \in 1..n |-> KindOf(first + i - 1)]
<1>1. days[k] = KindOf(e)
  OBVIOUS
<1>2. k - 1 = e - first /\ Hours(first, n)!Midnight(k) = (k - 1) * 1440
  BY DEF Hours!Midnight
<1>3. Hours(first, n)!Midnight(k) = 1440 * (e - first)
  BY <1>2
<1>4. Hours(first, n)!TradingDay(k) <=> isTradingDay(e)
  BY <1>1, KindsAre DEF Hours!TradingDay
<1>5. Hours(first, n)!OpenAt(k) = 1440 * (e - first) + 570
  BY <1>3 DEF Hours!OpenAt
<1>6. Hours(first, n)!CloseAt(k)
        = 1440 * (e - first) + IF KindOf(e) = "early" THEN 780 ELSE 960
  BY <1>1, <1>3 DEF Hours!CloseAt
<1>7. isTradingDay(e) => Hours(first, n)!CloseAt(k) = CloseSlot(first, e)
  BY <1>6, KindsAre DEF CloseSlot
<1> QED
  BY <1>4, <1>5, <1>7

\* The day and the minute of a slot are those in New York.
LEMMA SlotIs ==
  ASSUME NEW t \in Instants, NEW first \in Int, NEW n \in Nat
  PROVE  LET d == DayAt(t)   m == MinuteAt(t)   slot == Slot(first, t) IN
         /\ d \in Int /\ m \in 0..1439 /\ slot \in Int
         /\ slot = 1440 * (d - first) + m
         /\ Hours(first, n)!Day(slot) = d - first + 1
<1> DEFINE d == DayAt(t)   m == MinuteAt(t)   slot == Slot(first, t)
<1>1. d \in Int /\ m \in 0..1439 /\ slot = 1440 * (d - first) + m
  BY LocalTime DEF Slot
<1>2. Hours(first, n)!Day(slot) = slot \div 1440 + 1
  BY DEF Hours!Day
<1> HIDE DEF d, m, slot
<1>3. slot \in Int /\ slot \div 1440 = d - first
  BY <1>1
<1> QED
  BY <1>1, <1>2, <1>3 DEF d, m, slot

\* The phase by the minutes of the day.
LEMMA PhaseIs ==
  ASSUME NEW t
  PROVE  LET phase == resolveUsEquitySession(t).phase
             d == DayAt(t)   m == MinuteAt(t) IN
         /\ phase = "regular" <=> isTradingDay(d) /\ m \in 570..(Closes(d) - 1)
         /\ phase = "extended" <=> /\ isTradingDay(d) /\ m \notin 570..(Closes(d) - 1)
                                   /\ m \in 420..1199
<1> DEFINE d == DayAt(t)   m == MinuteAt(t)   phase == resolveUsEquitySession(t).phase
           trades == isTradingDay(d)   inside == m \in 570..(Closes(d) - 1)
           wide == m \in 420..1199
<1>1. phase = IF ~isTradingDay(d) THEN "holiday"
              ELSE IF m \in Opens..(Closes(d) - 1) THEN "regular"
              ELSE IF m \in (7 * 60)..(20 * 60 - 1) THEN "extended"
              ELSE "closed"
  BY DEF resolveUsEquitySession, DayAt, MinuteAt
<1>2. Opens = 570 /\ 7 * 60 = 420 /\ 20 * 60 - 1 = 1199
  BY DEF Opens
<1>3. phase = IF ~trades THEN "holiday" ELSE IF inside THEN "regular"
              ELSE IF wide THEN "extended" ELSE "closed"
  BY <1>1, <1>2
<1> HIDE DEF phase, trades, inside, wide
<1>4. /\ phase = "regular" <=> trades /\ inside
      /\ phase = "extended" <=> trades /\ ~inside /\ wide
  BY <1>3
<1> QED
  BY <1>4 DEF phase, trades, inside, wide

\* The day of the last close, by the date and the minute of the day.
LEMMA LastCloseDay ==
  ASSUME NEW t \in Instants, NEW first \in Int
  PROVE  LET last == lastCloseDate(DayAt(t), MinuteAt(t)) IN
         /\ last \in Int /\ last <= DayAt(t) /\ isTradingDay(last)
         /\ CloseSlot(first, last) <= Slot(first, t)
         /\ \A e \in Int : isTradingDay(e) /\ CloseSlot(first, e) <= Slot(first, t)
                             => e <= last
         /\ \A e \in Int : isTradingDay(e) /\ e < DayAt(t) => e <= last
<1> DEFINE d == DayAt(t)   m == MinuteAt(t)   slot == Slot(first, t)
           last == lastCloseDate(d, m)
<1>1. d \in Int /\ m \in 0..1439 /\ slot = 1440 * (d - first) + m
  BY LocalTime DEF Slot
<1>2. d \in AskedDays
  BY LocalTime DEF AskedDays
<1>3. ASSUME NEW e \in Int
      PROVE  /\ e > d => ~(CloseSlot(first, e) <= slot)
             /\ e = d => (CloseSlot(first, e) <= slot <=> m >= Closes(d))
             /\ e < d => CloseSlot(first, e) <= slot
  <2>1. Closes(e) \in {780, 960} /\ CloseSlot(first, e) = 1440 * (e - first) + Closes(e)
    BY ClosesAre DEF CloseSlot
  <2> HIDE DEF d, m, slot
  <2> QED
    BY <1>1, <2>1
<1>4. CASE isTradingDay(d) /\ m >= Closes(d)
  <2>1. last = d
    BY <1>4 DEF lastCloseDate
  <2>2. CloseSlot(first, d) <= slot
    BY <1>1, <1>3, <1>4
  <2>3. ASSUME NEW e \in Int, CloseSlot(first, e) <= slot PROVE e <= d
    <3>1. ~(e > d)
      BY <1>3, <2>3
    <3> HIDE DEF d, slot
    <3> QED
      BY <1>1, <3>1
  <2>4. \A e \in Int : e < d => e <= d
    BY <1>1
  <2> QED
    BY <1>1, <1>4, <2>1, <2>2, <2>3, <2>4
<1>5. CASE ~(isTradingDay(d) /\ m >= Closes(d))
  <2>1. last = previousTradingDate(d)
    BY <1>5 DEF lastCloseDate
  <2>2. /\ last \in Int /\ last < d /\ isTradingDay(last)
        /\ \A e \in Int : last < e /\ e < d => ~isTradingDay(e)
    BY <1>2, <2>1, PreviousIs
  <2>3. CloseSlot(first, last) <= slot
    BY <1>3, <2>2
  <2>4. ASSUME NEW e \in Int, isTradingDay(e), e < d PROVE e <= last
    <3>1. ~(last < e)
      BY <2>2, <2>4
    <3> HIDE DEF last
    <3> QED
      BY <2>2, <3>1
  <2>5. ASSUME NEW e \in Int, isTradingDay(e), CloseSlot(first, e) <= slot
        PROVE  e < d
    <3>1. ~(e > d) /\ e # d
      BY <1>3, <1>5, <2>5
    <3> HIDE DEF d, slot
    <3> QED
      BY <1>1, <3>1
  <2>6. last <= d
    <3> HIDE DEF d, last
    <3> QED
      BY <1>1, <2>2
  <2> QED
    BY <2>2, <2>3, <2>4, <2>5, <2>6
<1> QED
  BY <1>4, <1>5

\* From the dates the hours have and the day before them, the last close.
LEMMA LastOfHours ==
  ASSUME NEW t \in Instants, NEW first \in Int, NEW n \in Nat,
         isTradingDay(first - 1), ~isEarlyClose(first - 1),
         DayAt(t) \in first..(first + n - 1)
  PROVE  Hours(first, n)!LastRegularClose(Slot(first, t))
           = CloseSlot(first, lastCloseDate(DayAt(t), MinuteAt(t)))
<1> DEFINE d == DayAt(t)   slot == Slot(first, t)
           last == lastCloseDate(d, MinuteAt(t))   V == CloseSlot(first, last)
           T == {k \in Hours(first, n)!Days : /\ Hours(first, n)!TradingDay(k)
                                              /\ Hours(first, n)!CloseAt(k) <= slot}
           S == {960 - 1440} \cup {Hours(first, n)!CloseAt(k) : k \in T}
<1>1. /\ last \in Int /\ last <= d /\ isTradingDay(last) /\ V <= slot
      /\ \A e \in Int : isTradingDay(e) /\ CloseSlot(first, e) <= slot => e <= last
      /\ \A e \in Int : isTradingDay(e) /\ e < d => e <= last
  BY LastCloseDay
<1>2. d \in first..(first + n - 1) /\ first - 1 \in Int /\ d \in Int
  OBVIOUS
<1> HIDE DEF d
<1>3. last >= first - 1
  BY <1>1, <1>2
<1>4. Hours(first, n)!Days = 1..n
  <2>1. Len([k \in 1..n |-> KindOf(first + k - 1)]) = n
    OBVIOUS
  <2> QED
    BY <2>1 DEF Hours!Days
<1>5. ASSUME NEW k \in 1..n
      PROVE  /\ k \in T <=> /\ isTradingDay(first + k - 1)
                            /\ CloseSlot(first, first + k - 1) <= slot
             /\ k \in T => Hours(first, n)!CloseAt(k) = CloseSlot(first, first + k - 1)
  <2>1. /\ Hours(first, n)!TradingDay(k) <=> isTradingDay(first + k - 1)
        /\ isTradingDay(first + k - 1)
             => Hours(first, n)!CloseAt(k) = CloseSlot(first, first + k - 1)
    BY HoursOfDay
  <2> QED
    BY <1>4, <2>1
<1>6. Closes(first - 1) = 960
  BY DEF Closes
<1>7. CloseSlot(first, first - 1) = 960 - 1440
  BY <1>6 DEF CloseSlot
<1>8. V \in S
  <2>1. CASE last = first - 1
    BY <1>7, <2>1
  <2>2. CASE last # first - 1
    <3> DEFINE k == last - first + 1
    <3>1. k \in 1..n /\ first + k - 1 = last
      <4> HIDE DEF last
      <4> QED
        BY <1>1, <1>2, <1>3, <2>2
    <3>2. k \in T /\ Hours(first, n)!CloseAt(k) = V
      BY <1>1, <1>5, <3>1
    <3> QED
      BY <3>2
  <2> QED
    BY <2>1, <2>2
<1>9. ASSUME NEW e \in Int, NEW g \in Int, e <= g
      PROVE  /\ CloseSlot(first, e) \in Int /\ CloseSlot(first, g) \in Int
             /\ CloseSlot(first, e) <= CloseSlot(first, g)
  <2>1. /\ CloseSlot(first, e) = 1440 * (e - first) + Closes(e)
        /\ CloseSlot(first, g) = 1440 * (g - first) + Closes(g)
        /\ Closes(e) \in {780, 960} /\ Closes(g) \in {780, 960}
    BY ClosesAre DEF CloseSlot
  <2>2. e = g => Closes(e) = Closes(g)
    OBVIOUS
  <2> QED
    BY <1>9, <2>1, <2>2
<1>10. \A x \in S : V >= x /\ x \in Int /\ V \in Int
  <2>1. V >= 960 - 1440 /\ V \in Int
    <3>1. CloseSlot(first, first - 1) <= V /\ V \in Int
      BY <1>1, <1>2, <1>3, <1>9
    <3> HIDE DEF V
    <3> QED
      BY <1>7, <3>1
  <2>2. ASSUME NEW k \in T
        PROVE  V >= Hours(first, n)!CloseAt(k) /\ Hours(first, n)!CloseAt(k) \in Int
    <3>1. k \in 1..n
      BY <1>4
    <3>2. first + k - 1 \in Int
      BY <3>1
    <3>3. /\ first + k - 1 <= last
          /\ Hours(first, n)!CloseAt(k) = CloseSlot(first, first + k - 1)
      BY <1>1, <1>5, <3>1, <3>2
    <3>4. /\ CloseSlot(first, first + k - 1) <= V
          /\ CloseSlot(first, first + k - 1) \in Int /\ V \in Int
      BY <1>1, <1>9, <3>2, <3>3
    <3> HIDE DEF V
    <3> QED
      BY <3>3, <3>4
  <2> QED
    BY <2>1, <2>2
<1>11. Hours(first, n)!LastRegularClose(slot)
         = CHOOSE x \in S : \A y \in S : x >= y
  BY DEF Hours!LastRegularClose, Hours!Max
<1> HIDE DEF S, V
<1>12. (CHOOSE x \in S : \A y \in S : x >= y) = V
  <2>1. \A x \in S : (\A y \in S : x >= y) => x = V
    BY <1>8, <1>10
  <2>2. V \in S /\ \A y \in S : V >= y
    BY <1>8, <1>10
  <2> QED
    BY <2>1, <2>2
<1>13. Hours(first, n)!LastRegularClose(slot) = V
  BY <1>11, <1>12
<1> QED
  BY <1>13 DEF V, d

\* Whatever stretch of days is taken from the calendar, beginning after a full
\* trading day, the hours RefreshSchedule is given for it are the calendar's: the
\* sessions, the extended hours and the last close at every instant of it are those
\* of resolveUsEquitySession.
THEOREM HoursAreTheCalendars ==
  ASSUME NEW first \in Int, NEW n \in Nat, NEW t \in Instants,
         isTradingDay(first - 1), ~isEarlyClose(first - 1),
         DayAt(t) \in first..(first + n - 1)
  PROVE  LET context == resolveUsEquitySession(t)
             slot == Slot(first, t)
             close == Hours(first, n)!LastRegularClose(slot)
         IN  /\ context.phase = "regular" <=> Hours(first, n)!InSession(slot)
             /\ context.phase = "extended" <=> Hours(first, n)!InExtended(slot)
             /\ context.lastRegularCloseAt
                  = localToUtc(first + (close \div 1440), close % 1440)
<1> DEFINE d == DayAt(t)   m == MinuteAt(t)   slot == Slot(first, t)
           k == d - first + 1   last == lastCloseDate(d, m)
           close == Hours(first, n)!LastRegularClose(slot)
           context == resolveUsEquitySession(t)
<1>1. /\ d \in Int /\ m \in 0..1439 /\ slot = 1440 * (d - first) + m /\ slot \in Int
      /\ Hours(first, n)!Day(slot) = k
  BY SlotIs
<1>2. k \in 1..n /\ first + k - 1 = d /\ k - 1 = d - first
  <2>1. d \in first..(first + n - 1)
    OBVIOUS
  <2> HIDE DEF d
  <2> QED
    BY <2>1
<1> DEFINE middle == 1440 * (d - first)
<1>3. /\ Hours(first, n)!TradingDay(k) <=> isTradingDay(d)
      /\ Hours(first, n)!OpenAt(k) = middle + 570
      /\ isTradingDay(d) => Hours(first, n)!CloseAt(k) = middle + Closes(d)
      /\ Hours(first, n)!Midnight(k) = middle
  <2>1. Hours(first, n)!Midnight(k) = (k - 1) * 1440
    BY DEF Hours!Midnight
  <2>2. Hours(first, n)!Midnight(k) = middle
    <3> HIDE DEF k, d
    <3> QED
      BY <1>1, <1>2, <2>1
  <2>3. ASSUME NEW j \in 1..n, first + j - 1 = d
        PROVE  /\ Hours(first, n)!TradingDay(j) <=> isTradingDay(d)
               /\ Hours(first, n)!OpenAt(j) = middle + 570
               /\ isTradingDay(d) => Hours(first, n)!CloseAt(j) = CloseSlot(first, d)
    <3>1. LET e == first + j - 1 IN
          /\ Hours(first, n)!TradingDay(j) <=> isTradingDay(e)
          /\ Hours(first, n)!OpenAt(j) = 1440 * (e - first) + 570
          /\ isTradingDay(e) => Hours(first, n)!CloseAt(j) = CloseSlot(first, e)
      BY HoursOfDay
    <3> QED
      BY <2>3, <3>1
  <2>4. CloseSlot(first, d) = middle + Closes(d)
    BY DEF CloseSlot
  <2> QED
    BY <1>2, <2>2, <2>3, <2>4
<1>4. Hours(first, n)!InSession(slot)
        <=> isTradingDay(d) /\ middle + 570 <= slot /\ slot < middle + Closes(d)
  BY <1>1, <1>3 DEF Hours!InSession
<1>5. Hours(first, n)!InExtended(slot)
        <=> /\ isTradingDay(d) /\ ~Hours(first, n)!InSession(slot)
            /\ middle + 420 <= slot /\ slot < middle + 1200
  BY <1>1, <1>3 DEF Hours!InExtended
<1>6. /\ m \in 570..(Closes(d) - 1) <=> middle + 570 <= slot /\ slot < middle + Closes(d)
      /\ m \in 420..1199 <=> middle + 420 <= slot /\ slot < middle + 1200
  <2>1. Closes(d) \in {780, 960} /\ middle \in Int /\ slot = middle + m
    BY <1>1, ClosesAre
  <2> HIDE DEF middle, d, m, slot
  <2> QED
    BY <1>1, <2>1
<1>7. /\ context.phase = "regular" <=> isTradingDay(d) /\ m \in 570..(Closes(d) - 1)
      /\ context.phase = "extended" <=> /\ isTradingDay(d) /\ m \notin 570..(Closes(d) - 1)
                                        /\ m \in 420..1199
  BY PhaseIs
<1>8. context.phase = "regular" <=> Hours(first, n)!InSession(slot)
  BY <1>4, <1>6, <1>7
<1>9. context.phase = "extended" <=> Hours(first, n)!InExtended(slot)
  BY <1>4, <1>5, <1>6, <1>7
<1>10. context.lastRegularCloseAt = localToUtc(last, Closes(last))
  BY DEF resolveUsEquitySession, DayAt, MinuteAt
<1>11. close = 1440 * (last - first) + Closes(last) /\ last \in Int
  BY LastOfHours, LastCloseDay DEF CloseSlot
<1>12. first + (close \div 1440) = last /\ close % 1440 = Closes(last)
  <2>1. Closes(last) \in {780, 960}
    BY ClosesAre
  <2> HIDE DEF last, close
  <2>2. close \div 1440 = last - first /\ close % 1440 = Closes(last)
    BY <1>11, <2>1
  <2> QED
    BY <1>11, <2>2
<1>13. context.lastRegularCloseAt
         = localToUtc(first + (close \div 1440), close % 1440)
  BY <1>10, <1>12
<1> QED
  BY <1>8, <1>9, <1>13
==============================================================================
