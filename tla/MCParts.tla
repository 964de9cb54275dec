------------------------------ MODULE MCParts ------------------------------
(***************************************************************************)
(* Parts that share no state, each explored by itself: "part" names the    *)
(* one a behaviour is about, and the others stay as they began.            *)
(***************************************************************************)
EXTENDS Overview, Figures, MarketCalendar, Connection,
        Inbox, ImportScreen, CsvReader, Requests, TLC

CONSTANTS a1, a2, s1, f1, o1, k1, k2, e1, e2, fileA, fileB, w1, w2

CONSTANT MaxText

VARIABLE part

(***************************************************************************)
(* Portfolios: an account whose stock and debt cancel, as the provider     *)
(* rounds them, so that it is left out once it is closed; all sorts of     *)
(* things in two accounts; a position whose basis is not known, and an     *)
(* option that was sold short.                                             *)
(***************************************************************************)
MCClassOf == s1 :> "equity" @@ f1 :> "bond"

Both(x, y) == a1 :> x @@ a2 :> y
Pair(n, m) == s1 :> n @@ f1 :> m

Holds(shares, contracts, cash, other, basis) ==
  [shares |-> shares, contracts |-> contracts, cash |-> cash,
   other |-> other, basis |-> basis, status |-> Both("active", "active"),
   price |-> Pair(10, 4), mark |-> o1 :> 3]

Indebted == Holds(Both(Pair(1, 0), Pair(1, 0)), Both(o1 :> 0, o1 :> 0),
                  Both(7, -11), Both(0, 0), Both(Pair(8, 0), Pair(9, 0)))
AllSorts == Holds(Both(Pair(1, 1), Pair(1, 0)), Both(o1 :> 1, o1 :> 1),
                  Both(7, 0), Both(5, 0), Both(Pair(8, 4), Pair(9, 0)))
Untold == Holds(Both(Pair(1, 0), Pair(1, 1)), Both(o1 :> 0, o1 :> -1),
                Both(7, 2), Both(0, 6), Both(Pair(8, 0), Pair(Unknown, 3)))

MCPortfolios == {Indebted, AllSorts, Untold}

\* Years that begin on each day of the week, one in which the exchange had no
\* Juneteenth yet, and two, one of them a leap year, in which Easter is the
\* exception.
MCYears == {2021, 2022, 2023, 2025, 2026, 2029, 2030, 2049, 2076}

\* UTC minutes at which something happens in New York, in summer or winter:
\* midnight, the change of the clocks, the hours 7, 9:30, 13, 16 and 20.
MCMinuteMarks ==
  {0, 60, 240, 300, 420, 660, 720, 810, 870, 1020, 1080, 1200, 1260}

\* Each alert has a rule of its own, and is named for it.
MCRuleOf == [e \in {e1, e2} |-> e]

\* Two files that overlap: a row of one is a row of the other.
MCOfferedRows == fileA :> {1, 2} @@ fileB :> {2, 3}

\* Every text of a few characters; a file must have the header "x".
MCTexts == UNION {[1..n -> Characters] : n \in 0..MaxText}
MCRequired == {<<"x">>}

(***************************************************************************)
(* One part at a time.                                                     *)
(***************************************************************************)
allVars == <<part, overviewVars, figuresVars, calendarVars, connectionVars,
             inboxVars, importScreenVars, csvVars, requestsVars>>

Parts == {"overview", "figures", "calendar", "connection", "inbox",
          "import_screen", "csv", "requests"}

\* Where a part has several beginnings, the other parts take one of them;
\* the browser begins in either session of the owner, which are alike.
Init ==
  /\ part \in Parts
  /\ OverviewInit
  /\ FiguresInit /\ (part # "figures" => portfolio = Indebted)
  /\ CalendarInit /\ (part # "calendar" => at = Beginning(2021))
  /\ ConnectionInit
  /\ part # "connection" => nextOf = [p \in Pages |-> NoMore]
  /\ InboxInit
  /\ part # "inbox" => /\ \A e \in Events : ~readAt[e]
                      /\ \A r \in Rules : mutedUntil[r] = Unmuted
  /\ ImportScreenInit
  /\ CsvInit /\ (part # "csv" => text = <<>>)
  /\ RequestsInit /\ cookie = w1 /\ passkeyAt[w2] = 0
  /\ services = {"export", "delete"}
  /\ part # "requests" => passkeyAt[w1] = NoPasskey

Next ==
  \/ /\ part = "overview" /\ OverviewNext
     /\ UNCHANGED <<part, figuresVars, calendarVars, connectionVars, inboxVars,
                    importScreenVars, csvVars, requestsVars>>
  \/ /\ part = "figures" /\ FiguresNext
     /\ UNCHANGED <<part, overviewVars, calendarVars, connectionVars, inboxVars,
                    importScreenVars, csvVars, requestsVars>>
  \/ /\ part = "calendar" /\ CalendarTick
     /\ UNCHANGED <<part, overviewVars, figuresVars, connectionVars, inboxVars,
                    importScreenVars, csvVars, requestsVars>>
  \/ /\ part = "connection" /\ ConnectionNext
     /\ UNCHANGED <<part, overviewVars, figuresVars, calendarVars, inboxVars,
                    importScreenVars, csvVars, requestsVars>>
  \/ /\ part = "inbox" /\ InboxNext
     /\ UNCHANGED <<part, overviewVars, figuresVars, calendarVars,
                    connectionVars, importScreenVars, csvVars, requestsVars>>
  \/ /\ part = "import_screen" /\ ImportScreenNext
     /\ UNCHANGED <<part, overviewVars, figuresVars, calendarVars,
                    connectionVars, inboxVars, csvVars, requestsVars>>
  \/ /\ part = "csv" /\ CsvNext
     /\ UNCHANGED <<part, overviewVars, figuresVars, calendarVars,
                    connectionVars, inboxVars, importScreenVars, requestsVars>>
  \/ /\ part = "requests" /\ RequestsNext
     /\ UNCHANGED <<part, overviewVars, figuresVars, calendarVars,
                    connectionVars, inboxVars, importScreenVars, csvVars>>

Spec == Init /\ [][Next]_allVars
=============================================================================
