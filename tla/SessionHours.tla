---------------------------- MODULE SessionHours ----------------------------
(***************************************************************************)
(* The hours of the market as the scheduler meets them                     *)
(* (sync/market-calendar.ts): which sessions a few days in a row have, and *)
(* when the last of them closed.  What kind each day is, and the hours,    *)
(* are constants; MarketCalendar is the calendar that says them.           *)
(*                                                                         *)
(* Time is counted in slots from midnight, New York, of the first day.     *)
(***************************************************************************)
EXTENDS Integers, Sequences, FiniteSetsExt

CONSTANTS
  Calendar,    \* kind of each day: "full", "early", "weekend" or "holiday"
  DaySlots, Open, Close, EarlyClose,    \* length of a day, regular session
  ExtendedOpen, ExtendedClose           \* extended session around it

Days == 1..Len(Calendar)

Day(t) == t \div DaySlots + 1
Midnight(d) == (d - 1) * DaySlots
TradingDay(d) == Calendar[d] \in {"full", "early"}
OpenAt(d) == Midnight(d) + Open
CloseAt(d) ==
  Midnight(d) + IF Calendar[d] = "early" THEN EarlyClose ELSE Close

InSession(t) == /\ TradingDay(Day(t))
                /\ OpenAt(Day(t)) <= t /\ t < CloseAt(Day(t))

InExtended(t) ==
  LET d == Day(t) IN
  /\ TradingDay(d) /\ ~InSession(t)
  /\ Midnight(d) + ExtendedOpen <= t /\ t < Midnight(d) + ExtendedClose

\* Mutant: the search for the previous trading day stops at days off.
LastClose(t) ==
  Max({Close - DaySlots} \cup {CloseAt(d) : d \in {e \in Days :
                                CloseAt(e) <= t}})

\* The day before the calendar begins was a full trading day.
LastRegularClose(t) ==
  Max({Close - DaySlots} \cup {CloseAt(d) : d \in {e \in Days :
                                TradingDay(e) /\ CloseAt(e) <= t}})

=============================================================================
