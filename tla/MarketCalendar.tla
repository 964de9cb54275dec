--------------------------- MODULE MarketCalendar ---------------------------
(***************************************************************************)
(* The exchange's calendar (sync/market-calendar.ts): its holidays, its    *)
(* hours and its last close, at any instant, walked through minute marks   *)
(* of whole years.                                                         *)
(*                                                                         *)
(* A date is the number of its day, 1 being the first of January of year   *)
(* 1, a Monday; an instant is a number of minutes in UTC.  What the        *)
(* runtime's Date and its time zone data do is external.                   *)
(***************************************************************************)
EXTENDS Integers, Sequences, FiniteSets

CONSTANTS
  WalkedYears,   \* the walk goes through them and a week of the next
  MinuteMarks    \* of a day, at which the walk looks

\* Every minute of a day, in UTC, at which a session may begin or end.
Bells == {810, 870, 1020, 1080, 1200, 1260}

\* The moons below are good for the years walked, and the walk hears every bell.
ASSUME CalendarAssumption ==
  /\ WalkedYears \subseteq 1901..2198
  /\ Bells \subseteq MinuteMarks /\ MinuteMarks \subseteq 0..1439

VARIABLES
  at,            \* the instant
  session,       \* what the calendar says of it
  seenClose      \* when the walk last saw the session end, 0 if it has not

calendarVars == <<at, session, seenClose>>

DayMinutes == 24 * 60

(***************************************************************************)
(* Days.                                                                   *)
(***************************************************************************)
LeapYear(y) == (y % 4 = 0 /\ y % 100 # 0) \/ y % 400 = 0

DaysBefore(y, m) ==
  <<0, 31, 59, 90, 120, 151, 181, 212, 243, 273, 304, 334>>[m]
    + (IF m > 2 /\ LeapYear(y) THEN 1 ELSE 0)

Day(y, m, d) ==
  LET n == y - 1 IN
  365 * n + (n \div 4) - (n \div 100) + (n \div 400) + DaysBefore(y, m) + d

Year(date) ==
  LET n == (400 * date) \div 146097 IN
  CHOOSE y \in n..(n + 2) : date >= Day(y, 1, 1) /\ date < Day(y + 1, 1, 1)

weekday(date) == date % 7

nthWeekday(y, m, target, ordinal) ==
  LET first == Day(y, m, 1) IN
  first + ((target - weekday(first) + 7) % 7) + (ordinal - 1) * 7

lastWeekday(y, m, target) ==
  LET last == (IF m = 12 THEN Day(y + 1, 1, 1) ELSE Day(y, m + 1, 1)) - 1 IN
  CHOOSE d \in (last - 6)..last : weekday(d) = target

(***************************************************************************)
(* Holidays.  A holiday that falls on a weekend is observed beside it, but *)
(* New Year not in the old year.                                           *)
(***************************************************************************)
observedFixed(date) ==
  CASE weekday(date) = 6 -> date - 1
    [] weekday(date) = 0 -> date + 1
    [] OTHER -> date

observedNewYear(date) ==
  CASE weekday(date) = 6 -> {}
    [] weekday(date) = 0 -> {date + 1}
    [] OTHER -> {date}

easterSunday(y) ==
  LET a == y % 19
      b == y \div 100
      c == y % 100
      g == (b - (b + 8) \div 25 + 1) \div 3
      h == (19 * a + b - (b \div 4) - g + 15) % 30
      l == (32 + 2 * (b % 4) + 2 * (c \div 4) - h - (c % 4)) % 7
      m == (a + 11 * h + 22 * l) \div 451
      n == h + l - 7 * m + 114
  IN Day(y, n \div 31, (n % 31) + 1)

thanksgiving(y) == nthWeekday(y, 11, 4, 4)

holidays(y) ==
  observedNewYear(Day(y, 1, 1))
    \cup {nthWeekday(y, 1, 1, 3), nthWeekday(y, 2, 1, 3),
          easterSunday(y) - 2, lastWeekday(y, 5, 1)}
    \cup {observedFixed(Day(z, 6, 19)) : z \in {y} \ 0..2021}
    \cup {observedFixed(Day(y, 7, 4)), nthWeekday(y, 9, 1, 1),
          thanksgiving(y), observedFixed(Day(y, 12, 25))}
    \cup observedNewYear(Day(y + 1, 1, 1))

isTradingDay(date) ==
  weekday(date) \notin {0, 6} /\ date \notin holidays(Year(date))

isEarlyClose(date) ==
  LET y == Year(date) IN
  \/ date = thanksgiving(y) + 1
  \/ date \in {Day(y, 12, 24), Day(y, 7, 3)} /\ isTradingDay(date)

previousTradingDate(date) ==
  date - CHOOSE n \in 1..10 : /\ isTradingDay(date - n)
                              /\ \A k \in 1..(n - 1) : ~isTradingDay(date - k)

(***************************************************************************)
(* Hours.                                                                  *)
(***************************************************************************)
\* Minutes New York is behind on a date whose clocks do not change.
dstOffset(date) ==
  LET y == Year(date) IN
  IF date >= nthWeekday(y, 3, 0, 2) /\ date < nthWeekday(y, 11, 0, 1)
  THEN 240 ELSE 300

localToUtc(date, minute) == date * DayMinutes + minute + dstOffset(date)

\* The clocks change at two in the morning, which is seven in UTC, or six.
localNow(t) ==
  LET y == Year(t \div DayMinutes) IN
  IF /\ t >= nthWeekday(y, 3, 0, 2) * DayMinutes + 7 * 60
     /\ t < nthWeekday(y, 11, 0, 1) * DayMinutes + 6 * 60
  THEN t - 240 ELSE t - 300

Opens == 9 * 60 + 30
Closes(date) == (IF isEarlyClose(date) THEN 13 ELSE 16) * 60

\* Mutant: of a trading day, its own close, also before it comes.
LastCloseToday(date, minutes) ==
  IF isTradingDay(date) THEN date ELSE previousTradingDate(date)

lastCloseDate(date, minutes) ==
  IF isTradingDay(date) /\ minutes >= Closes(date)
  THEN date ELSE previousTradingDate(date)

resolveUsEquitySession(t) ==
  LET date == localNow(t) \div DayMinutes
      minutes == localNow(t) % DayMinutes
      trading == isTradingDay(date)
      closes == Closes(date)
      last == lastCloseDate(date, minutes)
  IN [phase |->
        IF ~trading THEN "holiday"
        ELSE IF minutes \in Opens..(closes - 1) THEN "regular"
        ELSE IF minutes \in (7 * 60)..(20 * 60 - 1) THEN "extended"
        ELSE "closed",
      lastRegularCloseAt |-> localToUtc(last, Closes(last)),
      trades |-> trading,
      openAt |-> localToUtc(date, Opens),
      closeAt |-> localToUtc(date, closes)]

(***************************************************************************)
(* The walk.                                                               *)
(***************************************************************************)
Beginning(y) == Day(y, 1, 1) * DayMinutes

\* A walk may begin with any month; those of one year meet at a close.
CalendarInit ==
  /\ at \in {Day(y, m, 1) * DayMinutes : y \in WalkedYears, m \in 1..12}
  /\ session = resolveUsEquitySession(at)
  /\ seenClose = 0

NextMark(t) ==
  LET later == {m \in MinuteMarks : m > t % DayMinutes}
      marks == IF later = {} THEN MinuteMarks ELSE later
      first == CHOOSE m \in marks : \A n \in marks : m <= n
  IN (IF later = {} THEN t \div DayMinutes + 1 ELSE t \div DayMinutes)
       * DayMinutes + first

CalendarTick ==
  /\ \E y \in WalkedYears :
       at \in Beginning(y)..(Beginning(y + 1) + 7 * DayMinutes)
  /\ at' = NextMark(at)
  /\ session' = resolveUsEquitySession(at')
  /\ seenClose' = IF session.phase = "regular" /\ session'.phase # "regular"
                  THEN at' ELSE seenClose

(***************************************************************************)
(* Properties.                                                             *)
(***************************************************************************)
\* At every instant the calendar's last close is the end of the last session
\* the walk has come through, over nights, weekends, holidays, short days and
\* changes of the clocks; and the session's hours, converted to UTC, are the
\* hours at which its phase changes.  resolveUsEquitySession.
SessionsFollowBells ==
  /\ seenClose # 0 => session.lastRegularCloseAt = seenClose
  /\ session.lastRegularCloseAt <= at
  /\ session.phase = "regular" <=>
       session.trades /\ session.openAt <= at /\ at < session.closeAt

\* The ecclesiastical full moons of the nineteen years of the cycle, as days
\* of March (40 is the ninth of April), good for the years 1900 to 2199.
PaschalMoon ==
  <<45, 34, 23, 42, 31, 49, 39, 28, 47, 36, 25, 44, 33, 22, 41, 30, 48, 38, 27>>

AfterPaschalMoon(date) ==
  LET y == Year(date)
      moon == Day(y, 3, 1) - 1 + PaschalMoon[(y % 19) + 1]
  IN date \in (moon + 1)..(moon + 7) /\ weekday(date) = 0

\* A weekday on which a holiday of that date is observed.
Observed(date, m, d, onFriday) ==
  LET day == Day(Year(date), m, d) IN
  \/ date = day
  \/ weekday(date) = 1 /\ date = day + 1
  \/ onFriday /\ weekday(date) = 5 /\ date = day - 1

\* A date of the month within a week that begins with d, on that weekday.
InWeek(date, m, d, target) ==
  LET day == Day(Year(date), m, d) IN
  weekday(date) = target /\ date \in day..(day + 6)

ExchangeHoliday(date) ==
  \/ Observed(date, 1, 1, FALSE)
  \/ InWeek(date, 1, 15, 1) \/ InWeek(date, 2, 15, 1)
  \/ AfterPaschalMoon(date + 2)
  \/ InWeek(date, 5, 25, 1)
  \/ Year(date) > 2021 /\ Observed(date, 6, 19, TRUE)
  \/ Observed(date, 7, 4, TRUE)
  \/ InWeek(date, 9, 1, 1) \/ InWeek(date, 11, 22, 4)
  \/ Observed(date, 12, 25, TRUE)

\* The exchange trades on the weekdays that are none of its holidays, each
\* recognized by its own rule from the date alone, Good Friday by the moon.
\* holidays and easterSunday, which construct the dates from the year.
OpenOnBusinessDays ==
  LET date == localNow(at) \div DayMinutes IN
  session.trades <=> weekday(date) \in 1..5 /\ ~ExchangeHoliday(date)

\* Sessions begin and end when the calendar says, and are on the days of the
\* exchange, once the walk has come to the first close.
CalendarHolds == SessionsFollowBells /\ (seenClose # 0 => OpenOnBusinessDays)
=============================================================================
