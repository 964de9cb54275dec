----------------------- MODULE RefreshScheduleProofs -----------------------
(***************************************************************************)
(* Proofs about RefreshSchedule, for any calendar, hours, intervals and    *)
(* bounds: what a refresh leaves behind as the close of a day is valued at *)
(* that close, and what is shown is never valued before it.                *)
(*                                                                         *)
(* And for a process that keeps running, that a refresh is never late: an  *)
(* open market is kept fresh, a day begins with a refresh, and every close *)
(* is taken.  Each deadline bounds when the attempt under way began: at    *)
(* the first slot in which a refresh was due, later by one whole attempt   *)
(* for every failure so far, and, for a close, by one turn for every       *)
(* manual refresh that went before.                                        *)
(***************************************************************************)
EXTENDS RefreshSchedule, WellFoundedInduction, TLAPS

(***************************************************************************)
(* Greatest elements.                                                      *)
(***************************************************************************)
\* A set of natural numbers has a least one.
LEMMA LeastNatural ==
  ASSUME NEW T, T \subseteq Nat, T # {}
  PROVE  \E m \in T : \A y \in T : m <= y
<1> DEFINE R == {ss \in Nat \X Nat : ss[1] < ss[2]}
<1>1. IsWellFoundedOn(R, Nat)
  BY NatLessThanWellFounded DEF OpToRel
<1> HIDE DEF R
<1>2. PICK m \in T : \A y \in T : ~(<<y, m>> \in R)
  BY <1>1, WFMin
<1>3. ASSUME NEW y \in T PROVE m <= y
  <2>1. m \in Nat /\ y \in Nat /\ ~(<<y, m>> \in R)
    BY <1>2
  <2>2. ~(y < m)
    BY <2>1 DEF R
  <2> QED
    BY <2>1, <2>2
<1> QED
  BY <1>2, <1>3

\* A set of integers below some bound has a greatest one.
LEMMA MaxBounded ==
  ASSUME NEW S, S \subseteq Int, S # {}, NEW b \in Int, \A x \in S : x <= b
  PROVE  Max(S) \in S /\ \A y \in S : Max(S) >= y
<1> DEFINE T == {b - x : x \in S}
<1>1. T \subseteq Nat
  <2>1. ASSUME NEW x \in S PROVE b - x \in Nat
    OBVIOUS
  <2> QED
    BY <2>1
<1>2. T # {}
  <2>1. PICK x \in S : TRUE
    OBVIOUS
  <2>2. b - x \in T
    OBVIOUS
  <2> QED
    BY <2>2
<1>3. PICK m \in T : \A y \in T : m <= y
  BY <1>1, <1>2, LeastNatural
<1>4. PICK x \in S : m = b - x
  BY <1>3
<1>5. \A y \in S : x >= y
  <2> TAKE y \in S
  <2>1. m <= b - y
    BY <1>3
  <2> QED
    BY <1>4, <2>1
<1> QED
  BY <1>5 DEF Max

(***************************************************************************)
(* The calendar.                                                           *)
(***************************************************************************)
LEMMA ConstantTypes ==
  /\ DaySlots \in Nat \ {0} /\ Open \in Nat /\ Close \in Nat /\ EarlyClose \in Nat
  /\ ExtendedOpen \in Nat /\ ExtendedClose \in Nat
  /\ Grace \in Nat /\ CheckpointWindow \in Nat /\ MaxWait \in Nat
  /\ MaxSkew \in Nat /\ SessionAge \in Nat /\ ExtendedAge \in Nat
  /\ Open < EarlyClose /\ EarlyClose <= Close /\ Close <= ExtendedClose
  /\ ExtendedClose <= DaySlots
  /\ Days \subseteq Nat \ {0} /\ QuoteLags \subseteq Nat /\ Never \notin Int
<1>1. Days \subseteq Nat \ {0}
  <2>1. Len(Calendar) \in Nat
    BY ScheduleAssumption
  <2> QED
    BY <2>1 DEF Days
<1>2. /\ DaySlots \in Nat /\ Open \in Nat /\ Close \in Nat /\ EarlyClose \in Nat
      /\ ExtendedOpen \in Nat /\ ExtendedClose \in Nat
      /\ Grace \in Nat /\ CheckpointWindow \in Nat /\ MaxWait \in Nat
      /\ MaxSkew \in Nat /\ SessionAge \in Nat /\ ExtendedAge \in Nat
  BY ScheduleAssumption
<1>3. /\ Open < EarlyClose /\ EarlyClose <= Close
      /\ Close <= ExtendedClose /\ ExtendedClose <= DaySlots
      /\ QuoteLags \subseteq Nat /\ Never \notin Int
  BY ScheduleAssumption
<1> QED
  BY <1>1, <1>2, <1>3

LEMMA BoundTypes ==
  /\ SessionInterval \in Nat /\ MaxFaults \in Nat /\ MaxManuals \in Nat
  /\ ExtendedOpen <= Open /\ Len(Calendar) \in Nat
BY ScheduleAssumption

LEMMA Multiples ==
  ASSUME NEW a \in Int, NEW b \in Int, a < b, NEW c \in Nat
  PROVE  a * c \in Int /\ b * c \in Int /\ a * c + c <= b * c
<1>1. PICK n \in Nat : b = a + 1 + n
  <2>1. b - a - 1 \in Nat
    OBVIOUS
  <2> QED
    BY <2>1
<1>2. b * c = a * c + c + n * c
  BY <1>1
<1>3. n * c >= 0
  OBVIOUS
<1> QED
  BY <1>2, <1>3

\* The midnights of two days are a day or more apart.
LEMMA MidnightsApart ==
  ASSUME NEW d \in Int, NEW e \in Int
  PROVE  /\ Midnight(d) \in Int
         /\ d < e => Midnight(d) + DaySlots <= Midnight(e)
BY Multiples, ConstantTypes DEF Midnight

LEMMA CloseInDay ==
  ASSUME NEW d \in Int
  PROVE  /\ CloseAt(d) \in Int /\ OpenAt(d) \in Int
         /\ Midnight(d) + EarlyClose <= CloseAt(d)
         /\ CloseAt(d) <= Midnight(d) + Close
         /\ OpenAt(d) = Midnight(d) + Open
BY ConstantTypes, MidnightsApart DEF CloseAt, OpenAt

\* The last regular close is one of a trading day that is over, or that of
\* the day before the calendar begins.
LEMMA LastRegularCloseIs ==
  ASSUME NEW t \in Nat
  PROVE  \/ LastRegularClose(t) = Close - DaySlots
         \/ \E d \in Days : /\ TradingDay(d) /\ CloseAt(d) <= t
                            /\ LastRegularClose(t) = CloseAt(d)
<1> DEFINE Past == {e \in Days : TradingDay(e) /\ CloseAt(e) <= t}
           S == {Close - DaySlots} \cup {CloseAt(d) : d \in Past}
<1>1. S \subseteq Int
  <2>1. ASSUME NEW d \in Past PROVE CloseAt(d) \in Int
    BY CloseInDay, ConstantTypes
  <2>2. Close - DaySlots \in Int
    BY ConstantTypes
  <2> QED
    BY <2>1, <2>2
<1>2. \A x \in S : x <= t
  BY ConstantTypes
<1>3. Max(S) \in S
  <2> HIDE DEF S
  <2>1. S # {} /\ t \in Int
    BY DEF S
  <2>2. PICK X : X = S
    OBVIOUS
  <2>3. Max(X) \in X
    BY <1>1, <1>2, <2>1, <2>2, MaxBounded
  <2> QED
    BY <1>1, <2>2, <2>3
<1> QED
  BY <1>3 DEF LastRegularClose

\* Whatever is held, its quote has a time.
LEMMA QuotesTimed ==
  ASSUME NEW t \in Nat
  PROVE  QuoteTimes(t) \subseteq Int
<1> DEFINE Past == {e \in Days : TradingDay(e)
                                   /\ Midnight(e) + ExtendedClose <= t}
           S == {ExtendedClose - DaySlots} \cup
                {Midnight(d) + ExtendedClose - 1 : d \in Past}
<1>1. S \subseteq Int
  <2>1. ASSUME NEW d \in Past PROVE Midnight(d) + ExtendedClose - 1 \in Int
    BY MidnightsApart, ConstantTypes
  <2>2. ExtendedClose - DaySlots \in Int
    BY ConstantTypes
  <2> QED
    BY <2>1, <2>2
<1>2. \A x \in S : x <= t
  <2>1. ASSUME NEW d \in Past PROVE Midnight(d) + ExtendedClose - 1 <= t
    BY MidnightsApart, ConstantTypes
  <2> QED
    BY <2>1, ConstantTypes
<1>3. Max(S) \in Int
  <2> HIDE DEF S
  <2>1. S # {} /\ t \in Int
    BY DEF S
  <2>2. PICK X : X = S
    OBVIOUS
  <2>3. Max(X) \in X
    BY <1>1, <1>2, <2>1, <2>2, MaxBounded
  <2> QED
    BY <1>1, <2>2, <2>3
<1>4. LastTrade(t) \in Int
  BY <1>3 DEF LastTrade
<1>5. {LastTrade(t) - lag : lag \in QuoteLags} \subseteq Int
  <2>1. ASSUME NEW lag \in QuoteLags PROVE LastTrade(t) - lag \in Int
    BY <1>4, ConstantTypes
  <2> QED
    BY <2>1
<1> QED
  BY <1>5 DEF QuoteTimes

\* In the window of a close the next session has not begun, so that the
\* freshness policy asks for quotes of that close or later.
LEMMA WindowOutOfSession ==
  ASSUME NEW t \in Nat, NEW trigger, CloseEligible(trigger, t)
  PROVE  \E d \in Days : /\ TradingDay(d) /\ LastRegularClose(t) = CloseAt(d)
                         /\ CloseAt(d) + Grace <= t
                         /\ t < CloseAt(d) + Grace + CheckpointWindow
                         /\ ~InSession(t)
<1>1. LastRegularClose(t) # Close - DaySlots
  BY ConstantTypes, WindowAssumption DEF CloseEligible
<1>2. PICK e \in Days : /\ TradingDay(e) /\ CloseAt(e) <= t
                        /\ LastRegularClose(t) = CloseAt(e)
  BY <1>1, LastRegularCloseIs
<1>3. e \in Int /\ CloseAt(e) \in Int
  BY CloseInDay, ConstantTypes
<1>4. CloseAt(e) + Grace <= t /\ t < CloseAt(e) + Grace + CheckpointWindow
  BY <1>2, <1>3, ConstantTypes DEF CloseEligible
<1>5. ASSUME InSession(t) PROVE FALSE
  <2> DEFINE d == Day(t)
  <2>1. d \in Int
    BY ConstantTypes DEF Day
  <2>2. OpenAt(d) <= t /\ t < CloseAt(d)
    BY <1>5 DEF InSession
  <2> HIDE DEF d
  <2>3. CASE d < e
    BY <1>2, <1>3, <2>1, <2>2, <2>3, CloseInDay, MidnightsApart, ConstantTypes
  <2>4. CASE d = e
    BY <1>2, <1>3, <2>2, <2>4
  <2>5. CASE e < d
    <3>1. Midnight(e) + DaySlots <= Midnight(d)
      BY <1>3, <2>1, <2>5, MidnightsApart
    <3>2. CloseAt(e) <= Midnight(e) + Close
      BY <1>3, CloseInDay
    <3>3. OpenAt(d) = Midnight(d) + Open
      BY <2>1, CloseInDay
    <3>4. Midnight(d) \in Int /\ Midnight(e) \in Int
      BY <1>3, <2>1, MidnightsApart
    <3> QED
      BY <1>3, <1>4, <2>2, <3>1, <3>2, <3>3, <3>4, ConstantTypes,
         WindowAssumption
  <2> QED
    BY <1>3, <2>1, <2>3, <2>4, <2>5
<1> QED
  BY <1>2, <1>4, <1>5

(***************************************************************************)
(* The invariant.                                                          *)
(***************************************************************************)
Triggers == {"scheduled", "manual"}
Jobs == {Idle} \cup {Queued(trigger) : trigger \in Triggers}
        \cup {Built(trigger, asOf, eligible) :
                trigger \in Triggers, asOf \in Int, eligible \in BOOLEAN}

FlagsOK ==
  /\ holdsEquities \in BOOLEAN /\ up \in BOOLEAN
  /\ ticked \in BOOLEAN /\ due \in BOOLEAN

TypeOK ==
  /\ FlagsOK
  /\ now \in Nat /\ job \in Jobs /\ wait \in 0..MaxWait
  /\ lastSuccess \in Int \cup {Never}
  /\ shown \in Int \cup {Never} /\ checkpoint \in Int \cup {Never}

\* A candidate that counts as a close was begun in the window of that close,
\* and the process has run since, keeping up.
ClosesBegun ==
  job.status = "built" =>
    /\ up
    /\ job.eligible =>
         \E d \in Days :
           /\ TradingDay(d) /\ job.asOf >= CloseAt(d)
           /\ CloseAt(d) + Grace <= now - wait
           /\ now - wait < CloseAt(d) + Grace + CheckpointWindow

IndInv == TypeOK /\ ClosesBegun /\ CheckpointNotAhead

LEMMA JobForms ==
  ASSUME NEW j \in Jobs
  PROVE  /\ \/ j = Idle /\ j.status = "idle"
            \/ /\ j.status = "queued" /\ j # Idle
               /\ j.trigger \in Triggers /\ j = Queued(j.trigger)
            \/ /\ j.status = "built" /\ j # Idle /\ j.trigger \in Triggers
               /\ j.asOf \in Int /\ j.eligible \in BOOLEAN
BY DEF Jobs, Idle, Queued, Built

LEMMA InitInv == Init => IndInv
<1> SUFFICES ASSUME Init PROVE IndInv
  OBVIOUS
<1>1. Idle \in Jobs /\ Idle.status = "idle"
  BY DEF Jobs, Idle
<1>2. TypeOK
  <2>1. FlagsOK
    BY DEF Init, FlagsOK
  <2>2. now \in Nat /\ wait \in 0..MaxWait
    BY ConstantTypes DEF Init
  <2> QED
    BY <1>1, <2>1, <2>2 DEF Init, TypeOK
<1>3. ClosesBegun /\ CheckpointNotAhead
  BY <1>1 DEF Init, ClosesBegun, CheckpointNotAhead
<1> QED
  BY <1>2, <1>3 DEF IndInv

\* A request leaves a job that is waiting or running as it is.
LEMMA RequestKeeps ==
  ASSUME IndInv, NEW trigger \in Triggers,
         job' = Requested(trigger),
         wait' = IF job' = job THEN wait ELSE 0,
         UNCHANGED <<holdsEquities, now, up, ticked, lastSuccess, shown,
                     checkpoint>>,
         due' \in BOOLEAN
  PROVE  IndInv'
<1>1. CASE job = Idle
  <2>1. job' = Queued(trigger) /\ job'.status = "queued"
    BY <1>1 DEF Requested, Queued
  <2>2. job' \in Jobs
    BY <2>1 DEF Jobs
  <2>3. wait' \in 0..MaxWait
    BY ConstantTypes DEF IndInv, TypeOK, FlagsOK
  <2> QED
    BY <2>1, <2>2, <2>3
       DEF IndInv, TypeOK, FlagsOK, ClosesBegun, CheckpointNotAhead
<1>2. CASE job # Idle
  <2>1. job' = job /\ wait' = wait
    BY <1>2 DEF Requested
  <2> QED
    BY <2>1 DEF IndInv, TypeOK, FlagsOK, ClosesBegun, CheckpointNotAhead
<1> QED
  BY <1>1, <1>2

\* A refresh that ends without a promotion leaves nothing behind.
LEMMA FailureKeeps ==
  ASSUME IndInv, Failed
  PROVE  IndInv'
<1>1. Idle \in Jobs /\ Idle.status = "idle"
  BY DEF Jobs, Idle
<1> QED
  BY <1>1, ConstantTypes
     DEF Failed, IndInv, TypeOK, FlagsOK, ClosesBegun, CheckpointNotAhead

\* A candidate that counts as a close has a quote of that close or later.
LEMMA BuildKeeps ==
  ASSUME IndInv, NEW quote \in QuoteTimes(now), BuildPromotion(quote)
  PROVE  IndInv'
<1> DEFINE e == CloseEligible(job.trigger, now)
<1>1. now \in Nat /\ quote \in Int /\ job.trigger \in Triggers
  <2>1. now \in Nat /\ job \in Jobs /\ job.status = "queued"
    BY DEF IndInv, TypeOK, FlagsOK, BuildPromotion
  <2> QED
    BY <2>1, QuotesTimed, JobForms
<1>2. job' = Built(job.trigger, quote, e) /\ wait' = 0
  BY DEF BuildPromotion
<1>3. e \in BOOLEAN
  BY DEF CloseEligible
<1>4. job' \in Jobs
  BY <1>1, <1>2, <1>3 DEF Jobs
<1>5. /\ job'.status = "built" /\ job'.asOf = quote /\ job'.eligible = e
  BY <1>2 DEF Built
<1>6. TypeOK'
  BY <1>2, <1>4, ConstantTypes DEF IndInv, TypeOK, FlagsOK, BuildPromotion
<1>7. ClosesBegun'
  <2>1. up'
    BY DEF BuildPromotion
  <2>2. ASSUME e
        PROVE  \E d \in Days :
                 /\ TradingDay(d) /\ quote >= CloseAt(d)
                 /\ CloseAt(d) + Grace <= now
                 /\ now < CloseAt(d) + Grace + CheckpointWindow
    <3>1. PICK d \in Days :
            /\ TradingDay(d) /\ LastRegularClose(now) = CloseAt(d)
            /\ CloseAt(d) + Grace <= now
            /\ now < CloseAt(d) + Grace + CheckpointWindow
            /\ ~InSession(now)
      BY <1>1, <2>2, WindowOutOfSession
    <3>2. quote >= LastRegularClose(now)
      BY <3>1 DEF BuildPromotion, Fresh
    <3> QED
      BY <3>1, <3>2
  <2>3. now' - wait' = now
    BY <1>1, <1>2 DEF BuildPromotion
  <2>4. (job').eligible => e
    BY <1>5
  <2> HIDE DEF e
  <2>5. ASSUME (job').eligible
        PROVE  \E d \in Days :
                 /\ TradingDay(d) /\ (job').asOf >= CloseAt(d)
                 /\ CloseAt(d) + Grace <= now' - wait'
                 /\ now' - wait' < CloseAt(d) + Grace + CheckpointWindow
    BY <1>5, <2>2, <2>3, <2>4, <2>5
  <2> QED
    BY <2>1, <2>5 DEF ClosesBegun, TradingDay, CloseAt, Midnight
<1>8. CheckpointNotAhead'
  BY DEF IndInv, BuildPromotion, CheckpointNotAhead
<1> QED
  BY <1>6, <1>7, <1>8 DEF IndInv

\* A promotion is refused if it would go back, so the new close is the last.
LEMMA PromotionKeeps ==
  ASSUME IndInv, PromoteSnapshot
  PROVE  IndInv'
<1>1. job.asOf \in Int /\ (shown # Never => shown \in Int /\ shown <= job.asOf)
  <2>1. job \in Jobs /\ job.status = "built" /\ shown \in Int \cup {Never}
    BY DEF IndInv, TypeOK, FlagsOK, PromoteSnapshot
  <2>2. job.asOf \in Int
    BY <2>1, JobForms
  <2> QED
    BY <2>1, <2>2 DEF PromoteSnapshot, StaleCandidate
<1>2. checkpoint # Never => checkpoint \in Int /\ checkpoint <= job.asOf
  BY <1>1, ConstantTypes DEF IndInv, TypeOK, FlagsOK, CheckpointNotAhead
<1>3. Max({job.asOf} \cup ({checkpoint} \ {Never})) = job.asOf
  BY <1>1, <1>2 DEF Max
<1>4. checkpoint' = job.asOf \/ checkpoint' = checkpoint
  BY <1>3 DEF PromoteSnapshot
<1>5. Idle \in Jobs /\ Idle.status = "idle"
  BY DEF Jobs, Idle
<1>6. shown' = job.asOf /\ shown' # Never
  BY <1>1, ConstantTypes DEF PromoteSnapshot
<1>7. TypeOK'
  BY <1>1, <1>4, <1>5, <1>6, ConstantTypes
     DEF IndInv, TypeOK, FlagsOK, PromoteSnapshot
<1>8. ClosesBegun'
  BY <1>5 DEF ClosesBegun, PromoteSnapshot
<1>9. CheckpointNotAhead'
  BY <1>1, <1>2, <1>4, <1>6 DEF CheckpointNotAhead
<1> QED
  BY <1>7, <1>8, <1>9 DEF IndInv

\* A crash loses what was built.
LEMMA CrashKeeps ==
  ASSUME IndInv, Crash
  PROVE  IndInv'
<1>1. job \in Jobs
  BY DEF IndInv, TypeOK, FlagsOK
<1>2. job' \in Jobs /\ (job').status # "built"
  <2>1. CASE job = Idle
    BY <2>1 DEF Crash, Jobs, Idle
  <2>2. CASE job # Idle
    <3>1. job.trigger \in Triggers
      BY <1>1, <2>2, JobForms
    <3>2. job' = Queued(job.trigger)
      BY <2>2 DEF Crash
    <3> QED
      BY <3>1, <3>2 DEF Jobs, Queued
  <2> QED
    BY <2>1, <2>2
<1>3. TypeOK'
  <2>1. FlagsOK'
    BY DEF Crash, IndInv, TypeOK, FlagsOK
  <2>2. wait' \in 0..MaxWait
    BY ConstantTypes DEF Crash
  <2> QED
    BY <1>2, <2>1, <2>2 DEF Crash, IndInv, TypeOK, FlagsOK
<1>4. ClosesBegun' /\ CheckpointNotAhead'
  BY <1>2 DEF Crash, IndInv, ClosesBegun, CheckpointNotAhead
<1> QED
  BY <1>3, <1>4 DEF IndInv

\* A worker that keeps up does not let a slot pass when it has waited long.
LEMMA SlotKeeps ==
  ASSUME IndInv, NextSlot
  PROVE  IndInv'
<1>1. now \in Nat /\ wait \in 0..MaxWait /\ job \in Jobs /\ MaxWait \in Nat
  BY ConstantTypes DEF IndInv, TypeOK, FlagsOK
<1>2. now' = now + 1 /\ wait' \in 0..MaxWait
  BY <1>1 DEF NextSlot
<1>3. TypeOK'
  <2>1. FlagsOK'
    BY DEF NextSlot, IndInv, TypeOK, FlagsOK
  <2> QED
    BY <1>1, <1>2, <2>1 DEF IndInv, TypeOK, FlagsOK, NextSlot
<1>4. ClosesBegun'
  <2>1. ASSUME job.status = "built" PROVE up /\ now' - wait' = now - wait
    <3>1. up /\ job # Idle
      BY <1>1, <2>1, JobForms DEF IndInv, ClosesBegun, Idle
    <3> QED
      BY <1>1, <3>1 DEF NextSlot
  <2> QED
    BY <2>1 DEF IndInv, ClosesBegun, NextSlot, TradingDay, CloseAt, Midnight
<1>5. CheckpointNotAhead'
  BY DEF IndInv, NextSlot, CheckpointNotAhead
<1> QED
  BY <1>3, <1>4, <1>5 DEF IndInv

LEMMA StepInv == IndInv /\ [Next]_vars => IndInv'
<1> SUFFICES ASSUME IndInv, [Next]_vars PROVE IndInv'
  OBVIOUS
<1>1. CASE TickReads
  <2>1. due' \in BOOLEAN
    BY <1>1 DEF TickReads, RefreshDue, BackgroundEligible,
                RegularCloseSnapshotDue, OffHoursCheckpointDue
  <2> QED
    BY <1>1, <2>1
       DEF TickReads, IndInv, TypeOK, FlagsOK, ClosesBegun, CheckpointNotAhead
<1>2. CASE TickRequests
  BY <1>2, RequestKeeps DEF TickRequests, Triggers
<1>3. CASE RequestManual
  <2>1. due' \in BOOLEAN
    BY <1>3 DEF RequestManual, IndInv, TypeOK, FlagsOK
  <2> QED
    BY <1>3, <2>1, RequestKeeps DEF RequestManual, Triggers
<1>4. CASE \E quote \in QuoteTimes(now) : BuildPromotion(quote)
  BY <1>4, BuildKeeps
<1>5. CASE \E quote \in QuoteTimes(now) : RejectCandidate(quote)
  BY <1>5, FailureKeeps DEF RejectCandidate
<1>6. CASE PromoteSnapshot
  BY <1>6, PromotionKeeps
<1>7. CASE RejectStale
  BY <1>7, FailureKeeps DEF RejectStale
<1>8. CASE RefreshFails
  BY <1>8, FailureKeeps DEF RefreshFails
<1>9. CASE Crash
  BY <1>9, CrashKeeps
<1>10. CASE Restart
  BY <1>10 DEF Restart, IndInv, TypeOK, FlagsOK, ClosesBegun, CheckpointNotAhead
<1>11. CASE NextSlot
  BY <1>11, SlotKeeps
<1>12. CASE UNCHANGED vars
  BY <1>12 DEF vars, IndInv, TypeOK, FlagsOK, ClosesBegun, CheckpointNotAhead
<1> QED
  BY <1>1, <1>2, <1>3, <1>4, <1>5, <1>6, <1>7, <1>8, <1>9, <1>10, <1>11,
     <1>12 DEF Next

(***************************************************************************)
(* Deadlines.                                                              *)
(***************************************************************************)
\* The slots an attempt at a refresh has taken: one for the tick that asks
\* for it, those before it is claimed, those before it is promoted.
Elapsed ==
  IF job = Idle THEN IF ticked /\ ~due THEN 0 ELSE 1
  ELSE IF job.status = "queued" THEN 1 + wait ELSE 1 + MaxWait + wait

\* When the attempt under way began, not counting those that failed.
Started == now - Elapsed - faults * OneRefresh

\* Refreshes follow one another: what is shown was read before the candidate
\* was, and a candidate is no older than the freshness policy allows.
ReadsInOrder ==
  /\ lastSuccess # Never => 0 <= lastSuccess /\ lastSuccess <= now
  /\ shown # Never => lastSuccess # Never /\ shown <= lastSuccess
  /\ job.status = "built" =>
       /\ job.asOf <= now - wait /\ now - wait - job.asOf <= MaxSkew
       /\ ~holdsEquities => job.asOf = now - wait
       /\ shown # Never => shown <= now - wait

Counted ==
  /\ faults \in Nat /\ crashes \in Nat /\ manuals \in Nat
  /\ faults + crashes <= MaxFaults /\ manuals <= MaxManuals
  /\ crashes = 0 => up
  /\ now = 0 \/ now < Len(Calendar) * DaySlots

SessionPunctual ==
  crashes = 0 /\ InSession(now) =>
    \/ Started <= OpenAt(Day(now))
    \/ lastSuccess # Never /\ Started <= lastSuccess + SessionInterval

DayPunctual ==
  crashes = 0 /\ ~holdsEquities /\ Calendar[Day(now)] # "holiday" =>
    \/ Started <= Midnight(Day(now))
    \/ lastSuccess # Never /\ lastSuccess >= Midnight(Day(now))

\* A refresh that will not count as the close: nobody scheduled it, or it was
\* read too early.
Unready ==
  \/ job.status = "queued" /\ job.trigger = "manual"
  \/ job.status = "built" /\ ~job.eligible

\* What such a refresh may cost the close: its own time, and that of refreshes
\* whose quotes are older than what it left on show.
OneTurn == OneRefresh + MaxSkew
CloseBy(d) ==
  CloseAt(d) + Grace + manuals * OneTurn + IF Unready THEN 0 ELSE OneTurn

ClosePending(d) ==
  /\ crashes = 0 /\ TradingDay(d)
  /\ now >= CloseAt(d) + Grace /\ ~CheckpointTaken(d)

ClosePunctual ==
  ClosePending(Day(now)) =>
    /\ Started <= CloseBy(Day(now))
    /\ ~Unready /\ shown # Never =>
         shown + MaxSkew + MaxWait <= CloseBy(Day(now)) + faults * OneRefresh

Punctual ==
  Counted /\ ReadsInOrder /\ SessionPunctual /\ DayPunctual /\ ClosePunctual

LEMMA Smaller ==
  ASSUME NEW a \in Int, NEW b \in Int, a <= b, NEW c \in Nat
  PROVE  a * c \in Int /\ b * c \in Int /\ a * c <= b * c
<1>1. CASE a = b
  BY <1>1
<1>2. CASE a < b
  BY <1>2, Multiples
<1> QED
  BY <1>1, <1>2

\* What failures and manual refreshes may cost is bounded.
LEMMA Budgets ==
  ASSUME Counted
  PROVE  /\ OneRefresh \in Nat /\ OneTurn \in Nat
         /\ OneTurn = OneRefresh + MaxSkew /\ OneRefresh = 2 * MaxWait + 1
         /\ faults * OneRefresh \in Nat /\ manuals * OneTurn \in Nat
         /\ (faults + 1) * OneRefresh = faults * OneRefresh + OneRefresh
         /\ (manuals + 1) * OneTurn = manuals * OneTurn + OneTurn
         /\ Patience \in Nat /\ ClosePatience \in Nat
         /\ faults * OneRefresh + OneRefresh <= Patience
         /\ Patience + manuals * OneTurn + OneTurn <= ClosePatience
<1>1. /\ OneRefresh \in Nat /\ OneTurn \in Nat
      /\ OneTurn = OneRefresh + MaxSkew /\ OneRefresh = 2 * MaxWait + 1
  BY ConstantTypes DEF OneRefresh, OneTurn
<1>2. /\ MaxFaults \in Nat /\ MaxManuals \in Nat
      /\ faults \in Nat /\ manuals \in Nat
      /\ faults <= MaxFaults /\ manuals <= MaxManuals
  BY BoundTypes DEF Counted
<1>3. PICK r \in Nat, t \in Nat : r = OneRefresh /\ t = OneTurn
  BY <1>1
<1>4. /\ faults * r \in Nat /\ manuals * t \in Nat
      /\ (faults + 1) * r = faults * r + r /\ (manuals + 1) * t = manuals * t + t
  BY <1>2, <1>3
<1>5. (faults + 1) * r <= (1 + MaxFaults) * r
  BY <1>2, <1>3, Smaller
<1>6. (manuals + 1) * t <= (1 + MaxManuals) * t
  BY <1>2, <1>3, Smaller
<1>7. /\ (1 + MaxFaults) * r \in Nat /\ (1 + MaxManuals) * t \in Nat
  BY <1>2, <1>3
<1>8. /\ Patience = (1 + MaxFaults) * r
      /\ ClosePatience = (1 + MaxFaults) * r + (1 + MaxManuals) * t
  BY <1>1, <1>3 DEF Patience, ClosePatience
<1> QED
  BY <1>1, <1>3, <1>4, <1>5, <1>6, <1>7, <1>8

LEMMA ElapsedBounds ==
  ASSUME IndInv
  PROVE  /\ Elapsed \in Nat /\ Elapsed <= OneRefresh
         /\ job = Idle => Elapsed <= 1
         /\ job.status = "queued" => Elapsed = 1 + wait
         /\ job.status = "built" => Elapsed = 1 + MaxWait + wait
<1>1. wait \in 0..MaxWait /\ MaxWait \in Nat /\ job \in Jobs
  BY ConstantTypes DEF IndInv, TypeOK
<1>2. CASE job = Idle
  BY <1>1, <1>2 DEF Elapsed, OneRefresh, Idle
<1>3. CASE job.status = "queued" /\ job # Idle
  BY <1>1, <1>3 DEF Elapsed, OneRefresh
<1>4. CASE job.status = "built" /\ job # Idle
  BY <1>1, <1>4 DEF Elapsed, OneRefresh
<1> QED
  BY <1>1, <1>2, <1>3, <1>4, JobForms

(***************************************************************************)
(* Days.                                                                   *)
(***************************************************************************)
LEMMA DayBounds ==
  ASSUME NEW t \in Nat
  PROVE  /\ Day(t) \in Nat \ {0}
         /\ Midnight(Day(t)) \in Int /\ Midnight(Day(t)) <= t
         /\ t < Midnight(Day(t)) + DaySlots
<1>1. PICK c \in Nat \ {0} : c = DaySlots
  BY ConstantTypes
<1>2. /\ t \div c \in Nat /\ (t \div c) * c <= t /\ t < (t \div c) * c + c
  BY <1>1
<1>3. Day(t) = t \div c + 1 /\ Midnight(Day(t)) = (t \div c) * c
  BY <1>1, <1>2 DEF Day, Midnight
<1> QED
  BY <1>1, <1>2, <1>3

LEMMA DayIs ==
  ASSUME NEW t \in Nat, NEW d \in Int, Midnight(d) <= t,
         t < Midnight(d) + DaySlots
  PROVE  Day(t) = d
<1> DEFINE e == Day(t)
<1>1. /\ e \in Int /\ Midnight(e) \in Int /\ Midnight(e) <= t
      /\ t < Midnight(e) + DaySlots
  BY DayBounds
<1> HIDE DEF e
<1>2. Midnight(d) \in Int /\ DaySlots \in Nat
  BY MidnightsApart, ConstantTypes
<1>3. ~(d < e) /\ ~(e < d)
  BY <1>1, <1>2, MidnightsApart
<1>4. d = e
  BY <1>1, <1>3
<1> QED
  BY <1>4 DEF e

LEMMA DayInCalendar ==
  ASSUME IndInv, Counted, now # 0
  PROVE  Day(now) \in Days
<1>1. now \in Nat /\ Len(Calendar) \in Nat /\ now < Len(Calendar) * DaySlots
  BY BoundTypes DEF IndInv, TypeOK, Counted
<1>2. /\ Day(now) \in Nat \ {0} /\ Midnight(Day(now)) \in Int
      /\ Midnight(Day(now)) <= now
  BY <1>1, DayBounds
<1>3. PICK n \in Nat : n = Len(Calendar)
  BY <1>1
<1>4. Midnight(n + 1) = n * DaySlots
  BY <1>3 DEF Midnight
<1>5. now < Midnight(n + 1) /\ Midnight(n + 1) \in Int
  BY <1>1, <1>3, <1>4, MidnightsApart
<1>6. Day(now) # n + 1
  BY <1>1, <1>2, <1>5
<1>7. ~(n + 1 < Day(now))
  <2>1. n + 1 < Day(now) => Midnight(n + 1) + DaySlots <= Midnight(Day(now))
    BY <1>2, MidnightsApart
  <2>2. DaySlots \in Nat
    BY ConstantTypes
  <2> QED
    BY <1>1, <1>2, <1>5, <2>1, <2>2
<1> QED
  BY <1>2, <1>3, <1>6, <1>7 DEF Days

\* A session opens at its first slot, and stays on its day.
LEMMA SessionBegins ==
  ASSUME NEW t \in Nat, InSession(t + 1)
  PROVE  \/ t + 1 = OpenAt(Day(t + 1))
         \/ InSession(t) /\ Day(t) = Day(t + 1)
<1>1. PICK d \in Nat \ {0} : d = Day(t + 1)
  BY DayBounds
<1>2. /\ TradingDay(d) /\ OpenAt(d) <= t + 1 /\ t + 1 < CloseAt(d)
  BY <1>1 DEF InSession
<1>3. /\ OpenAt(d) \in Int /\ CloseAt(d) \in Int /\ Midnight(d) \in Int
      /\ OpenAt(d) = Midnight(d) + Open /\ CloseAt(d) <= Midnight(d) + Close
  BY CloseInDay, MidnightsApart
<1>0. Open \in Nat /\ Close \in Nat /\ DaySlots \in Nat /\ Close <= DaySlots
  BY ConstantTypes
<1>4. CASE t + 1 = OpenAt(d)
  BY <1>1, <1>4
<1>5. CASE t + 1 # OpenAt(d)
  <2>1. OpenAt(d) <= t /\ t < CloseAt(d)
    BY <1>2, <1>3, <1>5
  <2>2. Day(t) = d
    BY <1>0, <1>3, <2>1, DayIs
  <2> QED
    BY <1>1, <1>2, <2>1, <2>2 DEF InSession
<1> QED
  BY <1>4, <1>5

LEMMA DayBegins ==
  ASSUME NEW t \in Nat
  PROVE  t + 1 = Midnight(Day(t + 1)) \/ Day(t) = Day(t + 1)
<1>1. PICK d \in Nat \ {0} : d = Day(t + 1)
  BY DayBounds
<1>2. /\ Midnight(d) \in Int /\ Midnight(d) <= t + 1
      /\ t + 1 < Midnight(d) + DaySlots
  BY <1>1, DayBounds
<1>3. t + 1 # Midnight(d) => Day(t) = d
  BY <1>2, DayIs, ConstantTypes
<1> QED
  BY <1>1, <1>3

\* The last regular close is not before any that is over.
LEMMA LastRegularCloseIsLast ==
  ASSUME NEW t \in Nat, NEW d \in Days, TradingDay(d), CloseAt(d) <= t
  PROVE  CloseAt(d) <= LastRegularClose(t) /\ LastRegularClose(t) \in Int
<1> DEFINE Past == {e \in Days : TradingDay(e) /\ CloseAt(e) <= t}
           S == {Close - DaySlots} \cup {CloseAt(e) : e \in Past}
<1>1. S \subseteq Int
  <2>1. ASSUME NEW e \in Past PROVE CloseAt(e) \in Int
    BY CloseInDay, ConstantTypes
  <2>2. Close - DaySlots \in Int
    BY ConstantTypes
  <2> QED
    BY <2>1, <2>2
<1>2. \A x \in S : x <= t
  BY ConstantTypes
<1>3. CloseAt(d) \in S
  OBVIOUS
<1>4. Max(S) \in S /\ Max(S) >= CloseAt(d)
  <2> HIDE DEF S
  <2>1. S # {} /\ t \in Int
    BY <1>3
  <2>2. PICK X : X = S
    OBVIOUS
  <2>3. Max(X) \in X /\ \A y \in X : Max(X) >= y
    BY <1>1, <1>2, <2>1, <2>2, MaxBounded
  <2> QED
    BY <1>1, <1>3, <2>2, <2>3
<1>5. CloseAt(d) \in Int /\ Max(S) \in Int
  BY <1>1, <1>3, <1>4
<1>6. Max(S) = LastRegularClose(t)
  BY DEF LastRegularClose
<1> QED
  BY <1>4, <1>5, <1>6

\* After the close of a day, that close is the last.
LEMMA CloseOfTheDay ==
  ASSUME NEW t \in Nat, NEW d \in Days, Day(t) = d, TradingDay(d), CloseAt(d) <= t
  PROVE  LastRegularClose(t) = CloseAt(d)
<1>1. /\ d \in Nat /\ CloseAt(d) \in Int /\ Midnight(d) \in Int
      /\ Midnight(d) + EarlyClose <= CloseAt(d) /\ t < Midnight(d) + DaySlots
  BY CloseInDay, MidnightsApart, ConstantTypes, DayBounds
<1>2. CloseAt(d) <= LastRegularClose(t) /\ LastRegularClose(t) \in Int
  BY LastRegularCloseIsLast
<1>3. LastRegularClose(t) <= CloseAt(d)
  <2>1. CASE LastRegularClose(t) = Close - DaySlots
    <3>1. Midnight(d) >= 0
      <4>1. d = 1 \/ 1 < d
        BY <1>1, ConstantTypes
      <4>2. Midnight(1) = 0
        BY ConstantTypes DEF Midnight
      <4> QED
        BY <1>1, <4>1, <4>2, MidnightsApart, ConstantTypes
    <3> QED
      BY <1>1, <2>1, <3>1, ConstantTypes
  <2>2. CASE \E e \in Days : /\ TradingDay(e) /\ CloseAt(e) <= t
                             /\ LastRegularClose(t) = CloseAt(e)
    <3>1. PICK e \in Days : CloseAt(e) <= t /\ LastRegularClose(t) = CloseAt(e)
      BY <2>2
    <3>2. /\ e \in Nat /\ CloseAt(e) \in Int /\ Midnight(e) \in Int
          /\ Midnight(e) + EarlyClose <= CloseAt(e)
          /\ CloseAt(e) <= Midnight(e) + Close
      BY CloseInDay, MidnightsApart, ConstantTypes
    <3>3. ~(d < e)
      BY <1>1, <3>1, <3>2, MidnightsApart, ConstantTypes
    <3>4. CASE e = d
      BY <1>1, <3>1, <3>4
    <3>5. CASE e < d
      <4>1. Midnight(e) + DaySlots <= Midnight(d)
        BY <1>1, <3>2, <3>5, MidnightsApart
      <4> QED
        BY <1>1, <3>1, <3>2, <4>1, ConstantTypes
    <3> QED
      BY <1>1, <3>2, <3>3, <3>4, <3>5
  <2> QED
    BY <2>1, <2>2, LastRegularCloseIs
<1> QED
  BY <1>1, <1>2, <1>3

\* A quote is never from the future.
LEMMA QuotesPast ==
  ASSUME NEW t \in Nat, NEW quote \in QuoteTimes(t)
  PROVE  quote \in Int /\ quote <= t /\ (~holdsEquities => quote = t)
<1> DEFINE Past == {e \in Days : TradingDay(e)
                                   /\ Midnight(e) + ExtendedClose <= t}
           S == {ExtendedClose - DaySlots} \cup
                {Midnight(d) + ExtendedClose - 1 : d \in Past}
<1>1. S \subseteq Int
  <2>1. ASSUME NEW d \in Past PROVE Midnight(d) + ExtendedClose - 1 \in Int
    BY MidnightsApart, ConstantTypes
  <2>2. ExtendedClose - DaySlots \in Int
    BY ConstantTypes
  <2> QED
    BY <2>1, <2>2
<1>2. \A x \in S : x <= t
  <2>1. ASSUME NEW d \in Past PROVE Midnight(d) + ExtendedClose - 1 <= t
    BY MidnightsApart, ConstantTypes
  <2> QED
    BY <2>1, ConstantTypes
<1>3. Max(S) \in Int /\ Max(S) <= t
  <2> HIDE DEF S
  <2>1. S # {} /\ t \in Int
    BY DEF S
  <2>2. PICK X : X = S
    OBVIOUS
  <2>3. Max(X) \in X
    BY <1>1, <1>2, <2>1, <2>2, MaxBounded
  <2> QED
    BY <1>1, <1>2, <2>2, <2>3
<1>4. LastTrade(t) \in Int /\ LastTrade(t) <= t
  BY <1>3 DEF LastTrade
<1> HIDE DEF S, Past
<1>5. CASE holdsEquities
  <2>1. PICK lag \in QuoteLags : quote = LastTrade(t) - lag
    BY <1>5 DEF QuoteTimes
  <2> QED
    BY <1>4, <1>5, <2>1, ConstantTypes
<1>6. CASE ~holdsEquities
  BY <1>6 DEF QuoteTimes
<1> QED
  BY <1>5, <1>6

\* Quotes are fresh enough during a session...
LEMMA FreshInSession ==
  ASSUME NEW t \in Nat, NEW quote \in QuoteTimes(t), InSession(t)
  PROVE  Fresh(t, quote)
<1>1. ~InExtended(t)
  BY DEF InExtended
<1>2. PICK lag \in Nat : quote = t - lag /\ lag <= MaxSkew /\ lag <= SessionAge
  <2>1. CASE holdsEquities
    <3>1. PICK lag \in QuoteLags : quote = t - lag
      BY <2>1 DEF QuoteTimes, LastTrade
    <3> QED
      BY <3>1, ConstantTypes, PromptAssumption
  <2>2. CASE ~holdsEquities
    <3>1. quote = t - 0 /\ 0 <= MaxSkew /\ 0 <= SessionAge
      BY <2>2, ConstantTypes DEF QuoteTimes
    <3> QED
      BY <3>1
  <2> QED
    BY <2>1, <2>2
<1> QED
  BY <1>1, <1>2, ConstantTypes DEF Fresh

\* ... what needs no quote always is...
LEMMA FreshWithoutQuotes ==
  ASSUME NEW t \in Nat, NEW quote \in QuoteTimes(t), ~holdsEquities
  PROVE  Fresh(t, quote)
<1>1. quote = t
  BY DEF QuoteTimes
<1>2. LastRegularClose(t) <= t
  BY LastRegularCloseIs, ConstantTypes
<1> QED
  BY <1>1, <1>2, ConstantTypes DEF Fresh

\* ... and so are quotes in the hour after the close, of that close.
LEMMA FreshAfterClose ==
  ASSUME NEW t \in Nat, NEW d \in Days, Day(t) = d, TradingDay(d),
         CloseAt(d) + Grace <= t, t <= CloseAt(d) + Grace + ClosePatience,
         ClosePatience \in Nat, NEW quote \in QuoteTimes(t)
  PROVE  Fresh(t, quote) /\ CloseEligible("scheduled", t)
<1>1. /\ d \in Nat /\ CloseAt(d) \in Int /\ Midnight(d) \in Int
      /\ Midnight(d) + EarlyClose <= CloseAt(d)
      /\ CloseAt(d) <= Midnight(d) + Close
      /\ Grace \in Nat /\ EarlyClose \in Nat /\ Close \in Nat
      /\ ExtendedClose \in Nat /\ ExtendedOpen \in Nat
      /\ CheckpointWindow \in Nat /\ ExtendedOpen <= EarlyClose
  BY CloseInDay, MidnightsApart, ConstantTypes, BoundTypes
<1>2. LastRegularClose(t) = CloseAt(d)
  BY <1>1, CloseOfTheDay
<1>3. ~InSession(t)
  BY <1>1 DEF InSession
<1>4. InExtended(t)
  <2>1. Midnight(d) + ExtendedOpen <= t
    BY <1>1
  <2>2. Close + Grace + ClosePatience < ExtendedClose
    BY PromptAssumption
  <2>3. t < Midnight(d) + ExtendedClose
    BY <1>1, <2>2
  <2> QED
    BY <1>3, <2>1, <2>3 DEF InExtended
<1>5. PICK lag \in Nat : /\ quote = t - lag /\ lag <= MaxSkew
                         /\ lag <= ExtendedAge /\ lag <= Grace
  <2>1. CASE holdsEquities
    <3>1. PICK lag \in QuoteLags : quote = t - lag
      BY <1>4, <2>1 DEF QuoteTimes, LastTrade
    <3> QED
      BY <3>1, ConstantTypes, PromptAssumption
  <2>2. CASE ~holdsEquities
    <3>1. quote = t - 0 /\ 0 <= MaxSkew /\ 0 <= ExtendedAge /\ 0 <= Grace
      BY <2>2, ConstantTypes DEF QuoteTimes
    <3> QED
      BY <3>1
  <2> QED
    BY <2>1, <2>2
<1>6. Fresh(t, quote)
  <2>1. MaxSkew \in Nat /\ ExtendedAge \in Nat
    BY ConstantTypes
  <2> QED
    BY <1>1, <1>2, <1>3, <1>5, <2>1 DEF Fresh
<1>7. CloseEligible("scheduled", t)
  <2>1. ClosePatience < CheckpointWindow
    BY PromptAssumption
  <2> QED
    BY <1>1, <1>2, <2>1 DEF CloseEligible
<1> QED
  BY <1>6, <1>7

(***************************************************************************)
(* The steps and the deadlines.                                            *)
(***************************************************************************)
LEMMA StartedType ==
  ASSUME IndInv, Counted
  PROVE  /\ Started \in Int /\ Started <= now
         /\ now <= Started + OneRefresh + faults * OneRefresh
         /\ Started = now - Elapsed - faults * OneRefresh
<1>1. /\ now \in Nat /\ Elapsed \in Nat /\ Elapsed <= OneRefresh
      /\ OneRefresh \in Nat /\ faults * OneRefresh \in Nat
  BY ElapsedBounds, Budgets DEF IndInv, TypeOK
<1> QED
  BY <1>1 DEF Started

\* The steps of an attempt: a slot of time is a slot of the attempt, and one
\* that fails is made up for.
Quiet ==
  \/ TickReads /\ (job # Idle \/ RefreshDue)
  \/ TickRequests \/ RequestManual
  \/ \E quote \in QuoteTimes(now) : BuildPromotion(quote)
  \/ RefreshFails \/ NextSlot \/ UNCHANGED vars

LEMMA Turns ==
  ASSUME NEW n \in Nat
  PROVE  /\ OneRefresh \in Nat /\ OneTurn \in Nat
         /\ n * OneRefresh \in Nat /\ n * OneTurn \in Nat
<1>1. OneRefresh \in Nat /\ OneTurn \in Nat
  BY ConstantTypes DEF OneRefresh, OneTurn
<1>2. PICK r \in Nat, t \in Nat : r = OneRefresh /\ t = OneTurn
  BY <1>1
<1>3. n * r \in Nat /\ n * t \in Nat
  OBVIOUS
<1> QED
  BY <1>1, <1>2, <1>3

\* Nothing is asked of a state but that it is one of the invariants'.
LEMMA StartedNext ==
  ASSUME IndInv', Counted'
  PROVE  /\ Started' \in Int /\ Started' <= now'
         /\ Started' <= now' - (faults' * OneRefresh)
<1>1. /\ now' \in Nat /\ wait' \in 0..MaxWait /\ MaxWait \in Nat
      /\ OneRefresh \in Nat /\ faults' \in Nat
  BY ConstantTypes DEF IndInv, TypeOK, Counted, OneRefresh
<1>2. Elapsed' \in Nat
  <2>1. \/ Elapsed' = 0 \/ Elapsed' = 1
        \/ Elapsed' = 1 + wait' \/ Elapsed' = 1 + MaxWait + wait'
    BY DEF Elapsed
  <2> QED
    BY <1>1, <2>1
<1>3. faults' * OneRefresh \in Nat
  BY <1>1, Turns
<1>4. Started' = now' - Elapsed' - (faults' * OneRefresh)
  BY DEF Started, OneRefresh
<1>5. PICK p \in Nat : p = faults' * OneRefresh
  BY <1>3
<1>6. PICK e \in Nat, m \in Nat : e = Elapsed' /\ m = now'
  BY <1>1, <1>2
<1>7. Started' = m - e - p
  BY <1>4, <1>5, <1>6
<1>8. m - e - p \in Int /\ m - e - p <= m /\ m - e - p <= m - p
  BY <1>5, <1>6
<1> QED
  BY <1>5, <1>6, <1>7, <1>8

LEMMA CountedStable ==
  ASSUME IndInv, Counted, [Next]_vars
  PROVE  Counted'
<1> USE DEF Counted
<1>1. now \in Nat
  BY DEF IndInv, TypeOK
<1>2. CASE RefreshFails
  BY <1>2, BoundTypes DEF RefreshFails, Failed
<1>3. CASE Crash
  BY <1>3, BoundTypes DEF Crash
<1>4. CASE RequestManual
  BY <1>4, BoundTypes DEF RequestManual
<1>5. CASE NextSlot
  BY <1>1, <1>5 DEF NextSlot
<1>6. CASE Restart
  BY <1>6 DEF Restart
<1>7. \/ RefreshFails \/ Crash \/ RequestManual \/ NextSlot \/ Restart
      \/ UNCHANGED <<faults, crashes, manuals, up, now>>
  BY DEF Next, vars, TickReads, TickRequests, BuildPromotion, RejectCandidate,
     PromoteSnapshot, RejectStale, Failed
<1> QED
  BY <1>2, <1>3, <1>4, <1>5, <1>6, <1>7

LEMMA Pace ==
  ASSUME IndInv, Counted, IndInv', Counted', Quiet, crashes = 0
  PROVE  Started' <= Started /\ UNCHANGED <<lastSuccess, shown, checkpoint>>
<1>a. /\ now \in Nat /\ wait \in 0..MaxWait /\ MaxWait \in Nat /\ up
      /\ faults * OneRefresh \in Nat /\ OneRefresh \in Nat
      /\ (faults + 1) * OneRefresh = faults * OneRefresh + OneRefresh
      /\ Elapsed \in Nat /\ Elapsed <= OneRefresh
  BY Budgets, ElapsedBounds, ConstantTypes DEF IndInv, TypeOK, Counted
<1>b. Elapsed' \in Nat
  <2>1. wait' \in 0..MaxWait
    BY DEF IndInv, TypeOK
  <2>2. \/ Elapsed' = 0 \/ Elapsed' = 1
        \/ Elapsed' = 1 + wait' \/ Elapsed' = 1 + MaxWait + wait'
    BY DEF Elapsed
  <2>3. MaxWait \in Nat
    BY <1>a
  <2> QED
    BY <2>1, <2>2, <2>3
<1>0. /\ now \in Nat /\ wait \in 0..MaxWait /\ MaxWait \in Nat /\ up
      /\ faults * OneRefresh \in Nat /\ OneRefresh \in Nat
      /\ (faults + 1) * OneRefresh = faults * OneRefresh + OneRefresh
      /\ Elapsed \in Nat /\ Elapsed <= OneRefresh /\ Elapsed' \in Nat
  BY <1>a, <1>b
<1> USE DEF Elapsed
<1>1. \/ job = Idle
      \/ job # Idle /\ job.status = "queued"
      \/ job # Idle /\ job.status = "built"
  BY JobForms DEF IndInv, TypeOK
<1>2. \A trigger : Queued(trigger).status = "queued" /\ Queued(trigger) # Idle
  BY DEF Queued, Idle
<1>3. UNCHANGED <<lastSuccess, shown, checkpoint>>
  BY DEF Quiet, TickReads, TickRequests, RequestManual, BuildPromotion,
     RefreshFails, Failed, NextSlot, vars
<1>4. CASE TickReads /\ (job # Idle \/ RefreshDue)
  <2>1. UNCHANGED <<now, job, wait, faults>>
    BY <1>4 DEF TickReads
  <2>2. job = Idle => Elapsed' = 1 /\ Elapsed = IF ticked /\ ~due THEN 0 ELSE 1
    BY <1>4, <2>1 DEF TickReads
  <2>3. Elapsed' >= Elapsed
    <3>1. CASE job = Idle
      BY <2>2, <3>1
    <3>2. CASE job # Idle
      <4>1. Elapsed' = Elapsed
        BY <2>1, <3>2
      <4> QED
        BY <1>0, <4>1
    <3> QED
      BY <3>1, <3>2
  <2> QED
    BY <1>0, <1>3, <2>1, <2>3 DEF Started
<1>5. CASE TickRequests \/ RequestManual
  <2>1. UNCHANGED <<now, faults>>
    BY <1>5 DEF TickRequests, RequestManual
  <2>2. PICK trigger : job' = Requested(trigger)
    BY <1>5 DEF TickRequests, RequestManual
  <2>3. wait' = IF job' = job THEN wait ELSE 0
    BY <1>5 DEF TickRequests, RequestManual
  <2>4. CASE job = Idle
    <3>1. job' = Queued(trigger) /\ wait' = 0
      BY <1>2, <2>2, <2>3, <2>4 DEF Requested
    <3>2. Elapsed' = 1 /\ Elapsed <= 1
      BY <1>2, <2>4, <3>1
    <3> QED
      BY <1>0, <1>3, <2>1, <3>2 DEF Started
  <2>5. CASE job # Idle
    <3>1. job' = job /\ wait' = wait
      BY <2>2, <2>3, <2>5 DEF Requested
    <3>2. Elapsed' = Elapsed
      BY <2>5, <3>1
    <3> QED
      BY <1>0, <1>3, <2>1, <3>2 DEF Started
  <2> QED
    BY <2>4, <2>5
<1>6. CASE \E quote \in QuoteTimes(now) : BuildPromotion(quote)
  <2>1. UNCHANGED <<now, faults>> /\ job.status = "queued" /\ wait' = 0
    BY <1>6 DEF BuildPromotion
  <2>2. (job').status = "built" /\ job' # Idle
    BY <1>6 DEF BuildPromotion, Built, Idle
  <2>3. job # Idle
    BY <2>1 DEF Idle
  <2>4. Elapsed' = 1 + MaxWait /\ Elapsed = 1 + wait
    BY <1>0, <2>1, <2>2, <2>3
  <2> QED
    BY <1>0, <1>3, <2>1, <2>4 DEF Started
<1>7. CASE RefreshFails
  <2>1. now' = now /\ faults' = faults + 1
    BY <1>7 DEF RefreshFails, Failed
  <2>2. faults' * OneRefresh = faults * OneRefresh + OneRefresh
    BY <1>0, <2>1
  <2>3. Started' = now - Elapsed' - (faults' * OneRefresh)
    BY <2>1 DEF Started, OneRefresh
  <2> QED
    BY <1>0, <1>3, <2>2, <2>3 DEF Started
<1>8. CASE NextSlot
  <2>1. /\ now' = now + 1 /\ UNCHANGED <<due, job, faults>>
        /\ ticked /\ ~due /\ ticked' = FALSE
        /\ wait' = IF job # Idle THEN wait + 1 ELSE wait
    BY <1>0, <1>8 DEF NextSlot
  <2>2. Elapsed' = Elapsed + 1
    BY <1>0, <1>1, <2>1
  <2> QED
    BY <1>0, <1>3, <2>1, <2>2 DEF Started
<1>9. CASE UNCHANGED vars
  <2>1. Elapsed' = Elapsed /\ now' = now /\ faults' = faults
    BY <1>9 DEF vars
  <2> QED
    BY <1>0, <1>3, <2>1 DEF Started
<1> QED
  BY <1>4, <1>5, <1>6, <1>7, <1>8, <1>9 DEF Quiet

LEMMA ReadsStable ==
  ASSUME IndInv, Counted, ReadsInOrder, [Next]_vars
  PROVE  ReadsInOrder'
<1> USE DEF ReadsInOrder
<1>0. /\ now \in Nat /\ wait \in 0..MaxWait /\ MaxWait \in Nat /\ job \in Jobs
      /\ lastSuccess \in Int \cup {Never} /\ shown \in Int \cup {Never}
      /\ Never \notin Int /\ MaxSkew \in Nat
  BY ConstantTypes DEF IndInv, TypeOK
<1>1. CASE TickReads \/ Restart \/ UNCHANGED vars
  BY <1>1 DEF TickReads, Restart, vars
<1>2. CASE TickRequests \/ RequestManual
  <2>1. UNCHANGED <<now, holdsEquities, lastSuccess, shown>>
    BY <1>2 DEF TickRequests, RequestManual
  <2>2. PICK trigger : job' = Requested(trigger)
    BY <1>2 DEF TickRequests, RequestManual
  <2>3. wait' = IF job' = job THEN wait ELSE 0
    BY <1>2 DEF TickRequests, RequestManual
  <2>4. (job').status = "built" => job' = job
    BY <2>2 DEF Requested, Queued
  <2> QED
    BY <1>0, <2>1, <2>3, <2>4
<1>3. CASE \E quote \in QuoteTimes(now) : BuildPromotion(quote)
  <2>1. PICK quote \in QuoteTimes(now) : BuildPromotion(quote)
    BY <1>3
  <2>2. /\ quote \in Int /\ quote <= now /\ (~holdsEquities => quote = now)
        /\ now - quote <= MaxSkew
    BY <1>0, <2>1, QuotesPast DEF BuildPromotion, Fresh
  <2>3. /\ (job').asOf = quote /\ wait' = 0
        /\ UNCHANGED <<now, holdsEquities, lastSuccess, shown>>
    BY <2>1 DEF BuildPromotion, Built
  <2> QED
    BY <1>0, <2>2, <2>3
<1>4. CASE Failed
  BY <1>0, <1>4 DEF Failed, Idle
<1>5. CASE PromoteSnapshot
  <2>1. /\ job.asOf \in Int /\ job.asOf <= now - wait
    BY <1>0, <1>5, JobForms DEF PromoteSnapshot
  <2>2. /\ lastSuccess' = now /\ shown' = job.asOf /\ now' = now
        /\ (job').status # "built"
    BY <1>5 DEF PromoteSnapshot, Idle
  <2> QED
    BY <1>0, <2>1, <2>2
<1>6. CASE Crash
  <2>1. (job').status # "built"
    BY <1>0, <1>6 DEF Crash, Idle, Queued
  <2> QED
    BY <1>6, <2>1 DEF Crash
<1>7. CASE NextSlot
  <2>1. /\ now' = now + 1
        /\ UNCHANGED <<job, holdsEquities, lastSuccess, shown>>
    BY <1>7 DEF NextSlot
  <2>2. job.status = "built" => wait' = wait + 1
    BY <1>7 DEF NextSlot, IndInv, ClosesBegun, Idle
  <2> QED
    BY <1>0, <2>1, <2>2
<1> QED
  BY <1>1, <1>2, <1>3, <1>4, <1>5, <1>6, <1>7
  DEF Next, RejectCandidate, RejectStale, RefreshFails

\* As long as the process runs, a step is one of an attempt, ends it, or is a
\* tick that finds nothing due.
LEMMA RunningSteps ==
  ASSUME IndInv, Counted, [Next]_vars, crashes' = 0
  PROVE  /\ crashes = 0
         /\ \/ Quiet
            \/ TickReads /\ ~RefreshDue
            \/ \E quote \in QuoteTimes(now) : RejectCandidate(quote)
            \/ RejectStale \/ PromoteSnapshot
<1>1. ~Crash
  BY DEF Crash, Counted
<1>2. crashes = 0
  BY <1>1
  DEF Next, vars, TickReads, TickRequests, RequestManual, BuildPromotion,
      RejectCandidate, PromoteSnapshot, RejectStale, RefreshFails, Failed,
      Restart, NextSlot
<1>3. ~Restart
  BY <1>2 DEF Restart, Counted
<1> QED
  BY <1>1, <1>2, <1>3 DEF Next, Quiet

\* Time passes by slots.
LEMMA SlotOrSame ==
  ASSUME Quiet
  PROVE  now' = now \/ (NextSlot /\ now' = now + 1)
BY DEF Quiet, TickReads, TickRequests, RequestManual, BuildPromotion,
   RefreshFails, Failed, NextSlot, vars

LEMMA SessionStable ==
  ASSUME IndInv, Counted, IndInv', Counted', ReadsInOrder, SessionPunctual,
         [Next]_vars
  PROVE  SessionPunctual'
<1> SUFFICES ASSUME crashes' = 0, InSession(now')
             PROVE  \/ Started' <= OpenAt(Day(now'))
                    \/ /\ lastSuccess' # Never
                       /\ Started' <= lastSuccess' + SessionInterval
  BY DEF SessionPunctual, InSession, TradingDay, OpenAt, CloseAt, Midnight, Day
<1>0. /\ now \in Nat /\ Started \in Int /\ Started <= now
      /\ lastSuccess \in Int \cup {Never} /\ Never \notin Int
      /\ SessionInterval \in Nat /\ crashes = 0
      /\ MaxSkew + MaxWait <= SessionInterval /\ MaxSkew \in Nat
      /\ MaxWait \in Nat /\ wait \in 0..MaxWait
  BY StartedType, RunningSteps, ConstantTypes, BoundTypes, PromptAssumption
  DEF IndInv, TypeOK
<1>1. Started' \in Int /\ Started' <= now'
  BY StartedNext
<1>2. CASE Quiet
  <2>1. Started' <= Started /\ lastSuccess' = lastSuccess
    BY <1>0, <1>2, Pace
  <2>2. CASE InSession(now) /\ Day(now) = Day(now')
    <3>1. OpenAt(Day(now)) \in Int
      BY <1>0, DayBounds, CloseInDay
    <3> QED
      BY <1>0, <1>1, <2>1, <2>2, <3>1 DEF SessionPunctual
  <2>3. CASE now' = OpenAt(Day(now'))
    BY <1>1, <2>3
  <2> QED
    BY <1>0, <1>2, <2>2, <2>3, SlotOrSame, SessionBegins
<1>3. CASE TickReads /\ ~RefreshDue
  <2>1. now' = now /\ lastSuccess' = lastSuccess /\ ~BackgroundEligible
    BY <1>3 DEF TickReads, RefreshDue
  <2>2. InSession(now) /\ Calendar[Day(now)] # "holiday"
    BY <2>1 DEF InSession, TradingDay
  <2>3. lastSuccess # Never /\ ~(now - lastSuccess >= SessionInterval)
    BY <2>1, <2>2 DEF BackgroundEligible
  <2> QED
    BY <1>0, <1>1, <2>1, <2>3
<1>4. CASE \E quote \in QuoteTimes(now) : RejectCandidate(quote)
  BY <1>0, <1>4, FreshInSession DEF RejectCandidate, Failed
<1>5. CASE RejectStale
  <2>1. /\ now' = now /\ lastSuccess' = lastSuccess /\ job.status = "built"
        /\ shown # Never /\ shown > job.asOf
    BY <1>5 DEF RejectStale, Failed, StaleCandidate
  <2>2. shown \in Int /\ job.asOf \in Int
    BY <2>1, JobForms DEF IndInv, TypeOK
  <2>3. /\ now - wait - job.asOf <= MaxSkew
        /\ lastSuccess # Never /\ shown <= lastSuccess
    BY <2>1 DEF ReadsInOrder
  <2> QED
    BY <1>0, <1>1, <2>1, <2>2, <2>3
<1>6. CASE PromoteSnapshot
  <2>1. now' = now /\ lastSuccess' = now
    BY <1>6 DEF PromoteSnapshot
  <2> QED
    BY <1>0, <1>1, <2>1
<1> QED
  BY <1>2, <1>3, <1>4, <1>5, <1>6, RunningSteps
LEMMA DayStable ==
  ASSUME IndInv, Counted, IndInv', Counted', ReadsInOrder, DayPunctual,
         [Next]_vars
  PROVE  DayPunctual'
<1> SUFFICES ASSUME crashes' = 0, ~holdsEquities',
                    Calendar[Day(now')] # "holiday"
             PROVE  \/ Started' <= Midnight(Day(now'))
                    \/ /\ lastSuccess' # Never
                       /\ lastSuccess' >= Midnight(Day(now'))
  BY DEF DayPunctual, Midnight, Day
<1>0. /\ now \in Nat /\ Started \in Int
      /\ lastSuccess \in Int \cup {Never} /\ Never \notin Int
      /\ crashes = 0 /\ job \in Jobs
      /\ Midnight(Day(now)) \in Int /\ Midnight(Day(now)) <= now
      /\ Started' \in Int /\ Started' <= now'
  BY StartedType, StartedNext, RunningSteps, ConstantTypes, DayBounds
  DEF IndInv, TypeOK
<1>1. holdsEquities' = holdsEquities
  BY DEF Next, vars, TickReads, TickRequests, RequestManual, BuildPromotion,
         RejectCandidate, PromoteSnapshot, RejectStale, RefreshFails, Failed,
         Crash, Restart, NextSlot
<1>2. CASE Quiet
  <2>1. Started' <= Started /\ lastSuccess' = lastSuccess
    BY <1>0, <1>2, Pace
  <2>2. CASE Day(now) = Day(now')
    BY <1>0, <1>1, <2>1, <2>2 DEF DayPunctual
  <2>3. CASE now' = Midnight(Day(now'))
    BY <1>0, <2>3
  <2> QED
    BY <1>0, <1>2, <2>2, <2>3, SlotOrSame, DayBegins
<1>3. CASE TickReads /\ ~RefreshDue
  <2>1. /\ now' = now /\ lastSuccess' = lastSuccess
        /\ ~BackgroundEligible /\ ~OffHoursCheckpointDue
    BY <1>3 DEF TickReads, RefreshDue
  <2>2. lastSuccess # Never
    BY <2>1 DEF BackgroundEligible
  <2>3. lastSuccess \in Nat
    BY <1>0, <2>2 DEF ReadsInOrder
  <2>4. CASE InSession(now)
    <3>1. ~(now - lastSuccess >= SessionInterval)
      BY <2>1, <2>4 DEF BackgroundEligible
    <3>2. OpenAt(Day(now)) <= now
      BY <2>4 DEF InSession
    <3>3. /\ OpenAt(Day(now)) = Midnight(Day(now)) + Open /\ Open \in Nat
          /\ SessionInterval \in Nat /\ SessionInterval <= Open
      BY <1>0, DayBounds, CloseInDay, ConstantTypes, BoundTypes,
         PromptAssumption
    <3>4. lastSuccess >= Midnight(Day(now))
      BY <1>0, <2>3, <3>1, <3>2, <3>3
    <3> QED
      BY <2>1, <2>2, <3>4
  <2>5. CASE ~InSession(now)
    <3>1. Day(lastSuccess) = Day(now)
      BY <2>1, <2>2, <2>5 DEF OffHoursCheckpointDue
    <3>2. Midnight(Day(now)) <= lastSuccess
      BY <2>3, <3>1, DayBounds
    <3> QED
      BY <1>0, <2>1, <2>2, <2>3, <3>2
  <2> QED
    BY <2>4, <2>5
<1>4. CASE \E quote \in QuoteTimes(now) : RejectCandidate(quote)
  BY <1>0, <1>1, <1>4, FreshWithoutQuotes DEF RejectCandidate
<1>5. CASE RejectStale
  <2>1. job.status = "built" /\ shown # Never /\ shown > job.asOf
    BY <1>5 DEF RejectStale, StaleCandidate
  <2>2. shown \in Int /\ job.asOf \in Int
    BY <2>1, <1>0, JobForms DEF IndInv, TypeOK
  <2>3. shown <= job.asOf
    BY <1>1, <2>1 DEF ReadsInOrder
  <2> QED
    BY <2>1, <2>2, <2>3
<1>6. CASE PromoteSnapshot
  <2>1. now' = now /\ lastSuccess' = now
    BY <1>6 DEF PromoteSnapshot
  <2> QED
    BY <1>0, <2>1
<1> QED
  BY <1>2, <1>3, <1>4, <1>5, <1>6, RunningSteps
(***************************************************************************)
(* The close.                                                              *)
(***************************************************************************)
LEMMA CloseTime ==
  ASSUME NEW d \in Nat \ {0}
  PROVE  /\ CloseAt(d) \in Nat \ {0} /\ Midnight(d) \in Nat
         /\ Midnight(d) < CloseAt(d) /\ CloseAt(d) <= Midnight(d) + Close
         /\ Grace \in Nat /\ Close \in Nat
<1>1. /\ CloseAt(d) \in Int /\ Midnight(d) + EarlyClose <= CloseAt(d)
      /\ CloseAt(d) <= Midnight(d) + Close
      /\ EarlyClose \in Nat \ {0} /\ Grace \in Nat /\ Close \in Nat
  BY CloseInDay, ConstantTypes
<1>2. Midnight(d) \in Nat
  <2>1. d = 1 \/ 1 < d
    OBVIOUS
  <2>2. Midnight(1) = 0 /\ DaySlots \in Nat
    BY ConstantTypes DEF Midnight
  <2> QED
    BY <2>1, <2>2, MidnightsApart
<1> QED
  BY <1>1, <1>2

LEMMA CloseByNow ==
  ASSUME Counted, NEW d \in Nat \ {0}
  PROVE  /\ Unready => CloseBy(d) = CloseAt(d) + Grace + manuals * OneTurn
         /\ ~Unready => CloseBy(d) = CloseAt(d) + Grace + manuals * OneTurn + OneTurn
<1>1. /\ CloseAt(d) \in Int /\ Grace \in Int /\ OneTurn \in Int
      /\ manuals * OneTurn \in Int
  BY Budgets, CloseTime
<1> QED
  BY <1>1 DEF CloseBy

LEMMA CloseByNext ==
  ASSUME Counted', NEW d \in Nat \ {0}
  PROVE  /\ Unready' => CloseBy(d)' = CloseAt(d) + Grace + manuals' * OneTurn
         /\ ~Unready' => CloseBy(d)' = CloseAt(d) + Grace + manuals' * OneTurn + OneTurn
<1>1. manuals' \in Nat
  BY DEF Counted
<1>2. /\ CloseAt(d) \in Int /\ Grace \in Int /\ OneTurn \in Int
      /\ manuals' * OneTurn \in Int
  <2>1. OneTurn \in Nat /\ manuals' * OneTurn \in Nat
    BY <1>1, Turns
  <2>2. CloseAt(d) \in Int /\ Grace \in Int
    BY CloseTime
  <2> QED
    BY <2>1, <2>2
<1>3. CloseBy(d)' = CloseAt(d) + Grace + manuals' * OneTurn
                      + IF Unready' THEN 0 ELSE OneTurn
  BY DEF CloseBy, CloseAt, Midnight, OneTurn, OneRefresh
<1> QED
  BY <1>2, <1>3

\* While the close is awaited, the hour of the policy for it is not over.
LEMMA CloseNear ==
  ASSUME IndInv, Counted, ClosePunctual, NEW d \in Nat \ {0},
         d = Day(now), ClosePending(d)
  PROVE  /\ d \in Days /\ TradingDay(d) /\ CloseAt(d) + Grace <= now
         /\ now <= CloseAt(d) + Grace + ClosePatience
<1>1. now \in Nat /\ TradingDay(d) /\ now >= CloseAt(d) + Grace
  BY DEF IndInv, TypeOK, ClosePending
<1>2. d \in Days
  BY <1>1, CloseTime, DayInCalendar
<1>3. Started <= CloseBy(d)
  BY DEF ClosePunctual
<1>4. PICK m \in Nat, f \in Nat :
        m = manuals * OneTurn /\ f = faults * OneRefresh
  BY Budgets
<1>5. /\ OneTurn \in Nat /\ OneRefresh \in Nat /\ Patience \in Nat
      /\ ClosePatience \in Nat /\ f + OneRefresh <= Patience
      /\ Patience + m + OneTurn <= ClosePatience
  BY <1>4, Budgets
<1>6. Started \in Int /\ now <= Started + OneRefresh + f
  BY <1>4, StartedType
<1>7. CloseBy(d) \in Int /\ CloseBy(d) <= CloseAt(d) + Grace + m + OneTurn
  BY <1>4, <1>5, CloseByNow, CloseTime
<1>8. CloseAt(d) \in Int /\ Grace \in Int
  BY CloseTime
<1>9. now <= CloseAt(d) + Grace + ClosePatience
  BY <1>1, <1>3, <1>5, <1>6, <1>7, <1>8
<1> QED
  BY <1>1, <1>2, <1>9
\* A refresh that could not be the close ends, and leaves its turn to the next.
LEMMA TurnEnds ==
  ASSUME IndInv, Counted, IndInv', Counted', NEW d \in Nat \ {0},
         Started <= CloseBy(d), Unready, job' = Idle,
         UNCHANGED <<now, faults, manuals>>,
         shown' # Never => /\ shown' \in Int /\ shown' <= now
                           /\ job.status = "built" => shown' <= now - wait
  PROVE  /\ Started' <= CloseBy(d)'
         /\ shown' # Never =>
              shown' + MaxSkew + MaxWait <= CloseBy(d)' + (faults' * OneRefresh)
<1>1. PICK m \in Nat, f \in Nat :
        m = manuals * OneTurn /\ f = faults * OneRefresh
  BY Budgets
<1>2. /\ OneTurn \in Nat /\ OneRefresh \in Nat /\ MaxWait \in Nat
      /\ MaxSkew \in Nat /\ OneTurn = 2 * MaxWait + 1 + MaxSkew
      /\ OneRefresh = 2 * MaxWait + 1 /\ now \in Nat /\ wait \in 0..MaxWait
  BY Budgets, ConstantTypes DEF IndInv, TypeOK
<1>3. PICK g \in Nat : g = CloseAt(d) + Grace
  BY CloseTime
<1>4. ~Unready'
  BY DEF Unready, Idle
<1>5. faults' * OneRefresh = f /\ manuals' * OneTurn = m
  BY <1>1
<1>6. CloseBy(d)' = g + m + OneTurn
  <2>1. CloseBy(d)' = CloseAt(d) + Grace + manuals' * OneTurn + OneTurn
    BY <1>4, CloseByNext
  <2> QED
    BY <1>3, <1>5, <2>1
<1>7. CloseBy(d) = g + m
  <2>1. CloseBy(d) = CloseAt(d) + Grace + manuals * OneTurn
    BY CloseByNow
  <2> QED
    BY <1>1, <1>3, <2>1
<1>8. /\ Started \in Int /\ Elapsed \in Nat /\ Elapsed <= OneRefresh
      /\ now = Started + Elapsed + f
      /\ job.status = "queued" => Elapsed = 1 + wait
      /\ job.status = "built" => Elapsed = 1 + MaxWait + wait
  BY <1>1, <1>2, StartedType, ElapsedBounds
<1>9. Started' \in Int /\ Started' <= now - f
  BY <1>5, StartedNext
<1>10. Started' <= g + m + OneTurn
  BY <1>1, <1>2, <1>3, <1>7, <1>8, <1>9
<1>11. ASSUME shown' # Never
       PROVE  shown' + MaxSkew + MaxWait <= g + m + OneTurn + f
  <2>1. job.status = "queued" \/ job.status = "built"
    BY DEF Unready
  <2>2. PICK v \in Int : /\ v = shown' /\ v <= now
                         /\ job.status = "built" => v <= now - wait
    BY <1>11
  <2>3. Started <= g + m
    BY <1>7
  <2> QED
    BY <1>1, <1>2, <1>3, <1>8, <2>1, <2>2, <2>3
<1> QED
  BY <1>5, <1>6, <1>10, <1>11

\* What begun in the hour after the close and counts as one, is of that day.
LEMMA CloseOfToday ==
  ASSUME IndInv, job.status = "built", job.eligible
  PROVE  TradingDay(Day(now)) /\ job.asOf >= CloseAt(Day(now))
<1>1. PICK e \in Days : /\ TradingDay(e) /\ job.asOf >= CloseAt(e)
                        /\ CloseAt(e) + Grace <= now - wait
                        /\ now - wait < CloseAt(e) + Grace + CheckpointWindow
  BY DEF IndInv, ClosesBegun
<1>2. /\ now \in Nat /\ wait \in 0..MaxWait /\ e \in Nat \ {0}
      /\ MaxWait \in Nat /\ CheckpointWindow \in Nat /\ DaySlots \in Nat
  BY ConstantTypes DEF IndInv, TypeOK
<1>3. /\ CloseAt(e) \in Nat /\ Midnight(e) \in Nat
      /\ Midnight(e) < CloseAt(e) /\ CloseAt(e) <= Midnight(e) + Close
      /\ Grace \in Nat /\ Close \in Nat
  BY <1>2, CloseTime
<1>4. Midnight(e) <= now /\ now < Midnight(e) + DaySlots
  BY <1>1, <1>2, <1>3, WindowAssumption
<1>5. Day(now) = e
  BY <1>2, <1>4, DayIs
<1> QED
  BY <1>1, <1>5
\* An attempt under way does not miss the close.
LEMMA CloseAttempt ==
  ASSUME IndInv, Counted, IndInv', Counted', ReadsInOrder, Quiet,
         crashes = 0, NEW d \in Nat \ {0}, d = Day(now), ClosePending(d),
         ClosePunctual
  PROVE  /\ Started' <= CloseBy(d)'
         /\ ~Unready' /\ shown' # Never =>
              shown' + MaxSkew + MaxWait <= CloseBy(d)' + (faults' * OneRefresh)
<1>1. PICK m \in Nat, f \in Nat :
        m = manuals * OneTurn /\ f = faults * OneRefresh
  BY Budgets
<1>2. /\ OneTurn \in Nat /\ OneRefresh \in Nat /\ MaxWait \in Nat
      /\ MaxSkew \in Nat /\ OneTurn = 2 * MaxWait + 1 + MaxSkew
      /\ OneRefresh = 2 * MaxWait + 1 /\ now \in Nat /\ job \in Jobs
      /\ Never \notin Int /\ shown \in Int \cup {Never}
  BY Budgets, ConstantTypes DEF IndInv, TypeOK
<1>3. PICK g \in Nat : g = CloseAt(d) + Grace
  BY CloseTime
<1>4. /\ Started \in Int /\ Started' \in Int /\ Started' <= Started
      /\ now <= Started + OneRefresh + f
  BY <1>1, StartedType, StartedNext, Pace
<1>5. shown' = shown
  BY Pace
<1>6. /\ Unready => CloseBy(d) = g + m
      /\ ~Unready => CloseBy(d) = g + m + OneTurn
  BY <1>1, <1>3, CloseByNow
<1>7. /\ Started <= CloseBy(d)
      /\ ~Unready /\ shown # Never =>
           shown + MaxSkew + MaxWait <= CloseBy(d) + f
  BY <1>1 DEF ClosePunctual
<1>8. /\ Unready' => CloseBy(d)' = g + manuals' * OneTurn
      /\ ~Unready' => CloseBy(d)' = g + manuals' * OneTurn + OneTurn
  BY <1>3, CloseByNext
<1>9. CASE UNCHANGED <<manuals, faults>> /\ Unready' = Unready
  <2>1. manuals' * OneTurn = m /\ faults' * OneRefresh = f
    BY <1>1, <1>9
  <2>2. CASE Unready
    <3>1. CloseBy(d)' = g + m /\ Started <= g + m /\ Unready'
      BY <1>6, <1>7, <1>8, <1>9, <2>1, <2>2
    <3> QED
      BY <1>1, <1>3, <1>4, <3>1
  <2>3. CASE ~Unready
    <3>1. CloseBy(d)' = g + m + OneTurn /\ Started <= g + m + OneTurn
      BY <1>6, <1>7, <1>8, <1>9, <2>1, <2>3
    <3>2. shown # Never => shown + MaxSkew + MaxWait <= g + m + OneTurn + f
      BY <1>6, <1>7, <2>3
    <3> QED
      BY <1>1, <1>2, <1>3, <1>4, <1>5, <2>1, <3>1, <3>2
  <2> QED
    BY <2>2, <2>3
<1>10. CASE TickReads \/ NextSlot \/ UNCHANGED vars
  <2>1. UNCHANGED <<manuals, faults, job>>
    BY <1>10 DEF TickReads, NextSlot, vars
  <2>2. Unready' = Unready
    BY <2>1 DEF Unready
  <2> QED
    BY <1>9, <2>1, <2>2
<1>11. CASE TickRequests
  <2>1. UNCHANGED <<manuals, faults>> /\ job' = Requested("scheduled")
    BY <1>11 DEF TickRequests
  <2>2. Unready' = Unready
    BY <2>1 DEF Unready, Requested, Idle, Queued
  <2> QED
    BY <1>9, <2>1, <2>2
<1>12. CASE RequestManual
  <2>1. /\ manuals' = manuals + 1 /\ faults' = faults
        /\ job' = Requested("manual")
    BY <1>12 DEF RequestManual
  <2>2. manuals' * OneTurn = m + OneTurn /\ faults' * OneRefresh = f
    BY <1>1, <2>1, Budgets
  <2>3. CASE job = Idle
    <3>1. ~Unready /\ Unready'
      BY <2>1, <2>3 DEF Unready, Requested, Idle, Queued
    <3>2. CloseBy(d)' = g + m + OneTurn /\ Started <= g + m + OneTurn
      BY <1>1, <1>2, <1>3, <1>6, <1>7, <1>8, <2>2, <3>1
    <3> QED
      BY <1>1, <1>2, <1>3, <1>4, <3>1, <3>2
  <2>4. CASE job # Idle
    <3>1. Unready' = Unready
      BY <2>1, <2>4 DEF Unready, Requested
    <3>2. CASE Unready
      <4>1. CloseBy(d)' = g + m + OneTurn /\ Started <= g + m /\ Unready'
        BY <1>1, <1>2, <1>3, <1>6, <1>7, <1>8, <2>2, <3>1, <3>2
      <4> QED
        BY <1>1, <1>2, <1>3, <1>4, <4>1
    <3>3. CASE ~Unready
      <4>1. /\ CloseBy(d)' = g + m + OneTurn + OneTurn
            /\ Started <= g + m + OneTurn
        BY <1>1, <1>2, <1>3, <1>6, <1>7, <1>8, <2>2, <3>1, <3>3
      <4>2. shown # Never => shown + MaxSkew + MaxWait <= g + m + OneTurn + f
        BY <1>6, <1>7, <3>3
      <4> QED
        BY <1>1, <1>2, <1>3, <1>4, <1>5, <2>2, <4>1, <4>2
    <3> QED
      BY <3>2, <3>3
  <2> QED
    BY <2>3, <2>4
<1>13. CASE \E quote \in QuoteTimes(now) : BuildPromotion(quote)
  <2>1. PICK quote \in QuoteTimes(now) : BuildPromotion(quote)
    BY <1>13
  <2>2. /\ UNCHANGED <<manuals, faults>> /\ job.status = "queued"
        /\ (job').status = "built"
        /\ (job').eligible = CloseEligible(job.trigger, now)
    BY <2>1 DEF BuildPromotion, Built
  <2>3. job.trigger = "manual" => Unready /\ Unready'
    BY <2>2 DEF Unready, CloseEligible
  <2>4. ASSUME job.trigger = "scheduled" PROVE ~Unready /\ ~Unready'
    <3>1. CloseEligible("scheduled", now)
      BY <1>1, <1>2, <2>1, CloseNear, Budgets, FreshAfterClose
    <3> QED
      BY <2>2, <2>4, <3>1 DEF Unready
  <2>5. job.trigger = "manual" \/ job.trigger = "scheduled"
    BY <1>2, <2>2, JobForms DEF Triggers, Idle
  <2>6. Unready' = Unready
    BY <2>3, <2>4, <2>5 DEF Unready
  <2> QED
    BY <1>9, <2>2, <2>6
<1>14. CASE RefreshFails
  <2>1. /\ manuals' = manuals /\ faults' = faults + 1 /\ job' = Idle
    BY <1>14 DEF RefreshFails, Failed
  <2>2. manuals' * OneTurn = m /\ faults' * OneRefresh = f + OneRefresh
    BY <1>1, <2>1, Budgets
  <2>3. ~Unready'
    BY <2>1 DEF Unready, Idle
  <2>4. CloseBy(d)' = g + m + OneTurn /\ Started <= g + m + OneTurn
    <3>1. CloseBy(d)' = g + m + OneTurn
      BY <1>8, <2>2, <2>3
    <3>2. Started <= CloseBy(d) /\ CloseBy(d) \in {g + m, g + m + OneTurn}
      BY <1>6, <1>7
    <3> QED
      BY <1>1, <1>2, <1>3, <1>4, <3>1, <3>2
  <2>5. ASSUME shown # Never
        PROVE  shown + MaxSkew + MaxWait <= g + m + OneTurn + f + OneRefresh
    <3>1. CASE ~Unready
      <4>1. shown + MaxSkew + MaxWait <= g + m + OneTurn + f
        BY <1>6, <1>7, <2>5, <3>1
      <4> QED
        BY <1>1, <1>2, <1>3, <2>5, <4>1
    <3>2. CASE Unready
      <4>1. Started <= g + m
        BY <1>6, <1>7, <3>2
      <4>2. shown \in Int /\ shown <= now
        BY <1>2, <2>5 DEF ReadsInOrder, IndInv, TypeOK
      <4> QED
        BY <1>1, <1>2, <1>3, <1>4, <4>1, <4>2
    <3> QED
      BY <3>1, <3>2
  <2> QED
    BY <1>1, <1>2, <1>3, <1>4, <1>5, <2>2, <2>4, <2>5
<1> QED
  BY <1>10, <1>11, <1>12, <1>13, <1>14 DEF Quiet
\* A promotion makes its own reading the checkpoint, if it counts as a close.
LEMMA PromotedClose ==
  ASSUME IndInv, PromoteSnapshot, job.eligible
  PROVE  checkpoint' = job.asOf /\ job.asOf \in Int
<1>1. job.asOf \in Int /\ (shown # Never => shown \in Int /\ shown <= job.asOf)
  <2>1. job \in Jobs /\ job.status = "built" /\ shown \in Int \cup {Never}
    BY DEF IndInv, TypeOK, PromoteSnapshot
  <2>2. job.asOf \in Int
    BY <2>1, JobForms
  <2> QED
    BY <2>1, <2>2 DEF PromoteSnapshot, StaleCandidate
<1>2. checkpoint # Never => checkpoint \in Int /\ checkpoint <= job.asOf
  BY <1>1, ConstantTypes DEF IndInv, TypeOK, CheckpointNotAhead
<1>3. Max({job.asOf} \cup ({checkpoint} \ {Never})) = job.asOf
  BY <1>1, <1>2 DEF Max
<1> QED
  BY <1>1, <1>3 DEF PromoteSnapshot

\* A close is awaited from the end of the grace period on.
LEMMA CloseAwaited ==
  ASSUME IndInv, Quiet, UNCHANGED checkpoint, crashes = 0,
         NEW d \in Nat \ {0}, d = Day(now'), ClosePending(d)'
  PROVE  \/ now' = CloseAt(d) + Grace /\ now' = now + 1
         \/ d = Day(now) /\ ClosePending(d)
<1>1. /\ TradingDay(d) /\ now' >= CloseAt(d) + Grace
      /\ ~CheckpointTaken(d)
  BY DEF ClosePending, CheckpointTaken, TradingDay, CloseAt, Midnight
<1>2. now \in Nat
  BY DEF IndInv, TypeOK
<1>3. /\ CloseAt(d) \in Nat /\ Midnight(d) \in Nat /\ Midnight(d) < CloseAt(d)
      /\ Grace \in Nat
  BY CloseTime
<1>4. CASE now' = now
  BY <1>1, <1>4 DEF ClosePending
<1>5. CASE now' = now + 1
  <2>1. now' = Midnight(d) \/ Day(now) = d
    BY <1>2, <1>5, DayBegins
  <2>2. Day(now) = d
    BY <1>1, <1>2, <1>3, <1>5, <2>1
  <2> QED
    BY <1>1, <1>2, <1>3, <1>5, <2>2 DEF ClosePending
<1> QED
  BY <1>4, <1>5, SlotOrSame

LEMMA CloseStable ==
  ASSUME IndInv, Counted, IndInv', Counted', ReadsInOrder, ClosePunctual,
         [Next]_vars
  PROVE  ClosePunctual'
<1> SUFFICES ASSUME ClosePending(Day(now))'
             PROVE  /\ Started' <= CloseBy(Day(now))'
                    /\ ~Unready' /\ shown' # Never =>
                         shown' + MaxSkew + MaxWait
                           <= CloseBy(Day(now))' + (faults' * OneRefresh)
  BY DEF ClosePunctual
<1>a. now' \in Nat
  BY DEF IndInv, TypeOK
<1>1. PICK d \in Nat \ {0} : d = Day(now')
  BY <1>a, DayBounds
<1>2. ClosePending(d)' /\ CloseBy(Day(now))' = CloseBy(d)'
  BY <1>1 DEF ClosePending, CloseBy, Day
<1>3. crashes' = 0
  BY DEF ClosePending
<1>4. /\ crashes = 0 /\ now \in Nat /\ job \in Jobs /\ wait \in 0..MaxWait
      /\ MaxWait \in Nat
  BY <1>3, RunningSteps, ConstantTypes DEF IndInv, TypeOK
<1>b. /\ shown \in Int \cup {Never} /\ Never \notin Int
      /\ shown # Never => shown <= now
  BY <1>4, ConstantTypes DEF ReadsInOrder, IndInv, TypeOK
<1>c. ASSUME UNCHANGED <<now, checkpoint>>
      PROVE  /\ d = Day(now) /\ ClosePending(d) /\ Started <= CloseBy(d)
             /\ d \in Days /\ TradingDay(d) /\ CloseAt(d) + Grace <= now
             /\ now <= CloseAt(d) + Grace + ClosePatience
  <2>1. d = Day(now)
    BY <1>1, <1>c
  <2>2. ClosePending(d)
    BY <1>2, <1>4, <1>c
    DEF ClosePending, CheckpointTaken, TradingDay, CloseAt, Midnight
  <2>3. Started <= CloseBy(d)
    BY <2>1, <2>2 DEF ClosePunctual
  <2> QED
    BY <2>1, <2>2, <2>3, CloseNear
<1>5. CASE Quiet
  <2>1. shown' = shown /\ checkpoint' = checkpoint
    BY <1>4, <1>5, Pace
  <2>2. CASE now' = CloseAt(d) + Grace /\ now' = now + 1
    <3>1. PICK m \in Nat : m = manuals' * OneTurn
      BY Turns DEF Counted
    <3>2. PICK f \in Nat : f = faults' * OneRefresh
      BY Turns DEF Counted
    <3>3. PICK g \in Nat : g = CloseAt(d) + Grace
      BY CloseTime
    <3>4. /\ Unready' => CloseBy(d)' = g + m
          /\ ~Unready' => CloseBy(d)' = g + m + OneTurn
      BY <3>1, <3>3, CloseByNext
    <3>5. Started' \in Int /\ Started' <= g
      BY <2>2, <3>3, StartedNext
    <3>6. /\ OneTurn \in Nat /\ OneTurn = 2 * MaxWait + 1 + MaxSkew
          /\ MaxSkew \in Nat
      BY Budgets, ConstantTypes
    <3>7. Started' <= CloseBy(d)'
      <4>1. CASE Unready'
        BY <3>1, <3>3, <3>4, <3>5, <4>1
      <4>2. CASE ~Unready'
        BY <3>1, <3>3, <3>4, <3>5, <3>6, <4>2
      <4> QED
        BY <4>1, <4>2
    <3>8. ASSUME ~Unready', shown' # Never
          PROVE  shown' + MaxSkew + MaxWait <= CloseBy(d)' + f
      <4>1. shown \in Int /\ shown <= now
        BY <1>b, <2>1, <3>8
      <4>2. CloseBy(d)' = g + m + OneTurn /\ now + 1 = g
        BY <2>2, <3>3, <3>4, <3>8
      <4> QED
        BY <1>4, <2>1, <3>1, <3>2, <3>3, <3>6, <4>1, <4>2
    <3> QED
      BY <1>2, <3>2, <3>7, <3>8
  <2>3. CASE d = Day(now) /\ ClosePending(d)
    BY <1>2, <1>4, <1>5, <2>3, CloseAttempt
  <2> QED
    BY <1>1, <1>2, <1>4, <1>5, <2>1, <2>2, <2>3, CloseAwaited
<1>6. CASE TickReads /\ ~RefreshDue
  <2>1. UNCHANGED <<now, checkpoint>> /\ ~RegularCloseSnapshotDue
    BY <1>6 DEF TickReads, RefreshDue
  <2> QED
    BY <1>c, <2>1 DEF RegularCloseSnapshotDue, ClosePending
<1>7. CASE \E quote \in QuoteTimes(now) : RejectCandidate(quote)
  <2>1. PICK quote \in QuoteTimes(now) : RejectCandidate(quote)
    BY <1>7
  <2>2. /\ UNCHANGED <<now, checkpoint, manuals, faults, shown>> /\ job' = Idle
        /\ job.status = "queued" /\ ~Fresh(now, quote)
    BY <2>1 DEF RejectCandidate, Failed
  <2>3. ClosePatience \in Nat
    BY Budgets
  <2>4. FALSE
    BY <1>4, <1>c, <2>1, <2>2, <2>3, FreshAfterClose
  <2> QED
    BY <2>4
<1>8. CASE RejectStale
  <2>1. /\ UNCHANGED <<now, checkpoint, manuals, faults, shown>> /\ job' = Idle
        /\ job.status = "built" /\ shown # Never /\ shown > job.asOf
    BY <1>8 DEF RejectStale, Failed, StaleCandidate
  <2>2. /\ shown \in Int /\ shown <= now - wait /\ shown <= now
        /\ job.asOf \in Int /\ now - wait - job.asOf <= MaxSkew
    BY <1>4, <1>b, <2>1, JobForms DEF ReadsInOrder
  <2>3. CASE Unready
    <3>1. /\ Started' <= CloseBy(d)'
          /\ shown' # Never => shown' + MaxSkew + MaxWait
                                 <= CloseBy(d)' + (faults' * OneRefresh)
      BY <1>c, <2>1, <2>2, <2>3, TurnEnds
    <3> QED
      BY <1>2, <3>1
  <2>4. CASE ~Unready
    <3>1. PICK f \in Nat : f = faults * OneRefresh
      BY Budgets
    <3>2. ~Unready' /\ faults' * OneRefresh = f /\ manuals' = manuals
      BY <2>1, <3>1 DEF Unready, Idle
    <3>3. CloseBy(d)' = CloseBy(d) /\ CloseBy(d) \in Int
      <4>1. CloseBy(d)' = CloseAt(d) + Grace + manuals * OneTurn + OneTurn
        BY <2>1, <3>2, CloseByNext
      <4>2. CloseBy(d) = CloseAt(d) + Grace + manuals * OneTurn + OneTurn
        BY <2>4, CloseByNow
      <4>3. CloseAt(d) + Grace + manuals * OneTurn + OneTurn \in Int
        BY Budgets, CloseTime
      <4> QED
        BY <4>1, <4>2, <4>3
    <3>4. shown + MaxSkew + MaxWait <= CloseBy(d) + f
      BY <1>c, <2>1, <2>4, <3>1 DEF ClosePunctual
    <3>5. Started' \in Int /\ Started' <= now - f
      BY <2>1, <3>2, StartedNext
    <3>6. MaxSkew \in Nat
      BY ConstantTypes
    <3>7. Started' <= CloseBy(d)
      BY <1>4, <2>1, <2>2, <3>1, <3>3, <3>4, <3>5, <3>6
    <3> QED
      BY <1>2, <2>1, <3>2, <3>3, <3>4, <3>7
  <2> QED
    BY <2>3, <2>4
<1>9. CASE PromoteSnapshot
  <2>1. /\ UNCHANGED <<now, manuals, faults>> /\ job' = Idle
        /\ job.status = "built" /\ shown' = job.asOf
    BY <1>9 DEF PromoteSnapshot
  <2>2. CASE job.eligible
    <3>1. checkpoint' = job.asOf /\ job.asOf \in Int
      BY <1>9, <2>2, PromotedClose
    <3>2. job.asOf >= CloseAt(d)
      BY <1>1, <2>1, <2>2, CloseOfToday
    <3>3. ~(checkpoint' # Never /\ checkpoint' >= CloseAt(d))
      BY <1>2 DEF ClosePending, CheckpointTaken, CloseAt, Midnight
    <3> QED
      BY <1>b, <3>1, <3>2, <3>3
  <2>3. CASE ~job.eligible
    <3>1. Unready /\ checkpoint' = checkpoint
      BY <1>9, <2>1, <2>3 DEF Unready, PromoteSnapshot
    <3>2. shown' \in Int /\ shown' <= now /\ shown' <= now - wait
      BY <1>4, <2>1, JobForms DEF ReadsInOrder
    <3>3. /\ Started' <= CloseBy(d)'
          /\ shown' # Never => shown' + MaxSkew + MaxWait
                                 <= CloseBy(d)' + (faults' * OneRefresh)
      BY <1>c, <2>1, <3>1, <3>2, TurnEnds
    <3> QED
      BY <1>2, <3>3
  <2> QED
    BY <2>2, <2>3
<1> QED
  BY <1>3, <1>5, <1>6, <1>7, <1>8, <1>9, RunningSteps
LEMMA InitPunctual ==
  ASSUME Init, IndInv
  PROVE  Punctual
<1>1. Counted
  BY BoundTypes DEF Init, Counted
<1>2. now = 0 /\ Started \in Int /\ Started <= 0
  BY <1>1, StartedType DEF Init
<1>3. PICK d \in Nat \ {0} : d = Day(now)
  BY <1>2, DayBounds
<1>4. /\ Midnight(d) \in Nat /\ CloseAt(d) \in Nat \ {0} /\ Grace \in Nat
      /\ OpenAt(d) = Midnight(d) + Open /\ Open \in Nat
  BY CloseTime, CloseInDay, ConstantTypes
<1>5. SessionPunctual
  BY <1>2, <1>3, <1>4 DEF SessionPunctual
<1>6. DayPunctual
  BY <1>2, <1>3, <1>4 DEF DayPunctual
<1>7. ClosePunctual
  BY <1>2, <1>3, <1>4 DEF ClosePunctual, ClosePending
<1>8. ReadsInOrder
  BY DEF ReadsInOrder, Init, Idle
<1> QED
  BY <1>1, <1>5, <1>6, <1>7, <1>8 DEF Punctual

LEMMA StepPunctual == IndInv /\ Punctual /\ [Next]_vars => Punctual'
<1> SUFFICES ASSUME IndInv, Punctual, [Next]_vars PROVE Punctual'
  OBVIOUS
<1>1. /\ Counted /\ ReadsInOrder /\ SessionPunctual /\ DayPunctual
      /\ ClosePunctual
  BY DEF Punctual
<1>2. IndInv' /\ Counted'
  BY <1>1, StepInv, CountedStable
<1> QED
  BY <1>1, <1>2, ReadsStable, SessionStable, DayStable, CloseStable
  DEF Punctual

(***************************************************************************)
(* Theorems.                                                               *)
(***************************************************************************)
\* The invariant is inductive: the types, what is known of a candidate that
\* counts as a close, and the order of what is shown and the checkpoint.
THEOREM Invariance == Spec => []IndInv
BY InitInv, StepInv, PTL DEF Spec

\* The variables of the schedule are always of their types.
THEOREM TypeCorrectness == Spec => []TypeOK
<1>1. IndInv => TypeOK
  BY DEF IndInv
<1> QED
  BY <1>1, Invariance, PTL

\* promoteSnapshot and isRegularCloseCheckpoint: through failures, lagging
\* quotes, crashes and requests in any order, what is shown is never valued
\* before the close checkpoint.
THEOREM NeverBehindCheckpoint == Spec => []CheckpointNotAhead
<1>1. IndInv => CheckpointNotAhead
  BY DEF IndInv
<1> QED
  BY <1>1, Invariance, PTL

\* buildSnapshotPromotion: what is marked as a close is valued at the close
\* of a day that is not over, whatever the calendar.
THEOREM ClosesValued == Spec => []CheckpointIsCloseValued
<1>1. IndInv => CheckpointIsCloseValued
  <2> SUFFICES ASSUME IndInv, job.status = "built", job.eligible
               PROVE  \E d \in Days :
                        /\ TradingDay(d) /\ job.asOf >= CloseAt(d)
                        /\ CloseAt(d) <= now
                        /\ now < Midnight(d) + DaySlots
    BY DEF CheckpointIsCloseValued
  <2>1. PICK d \in Days :
          /\ TradingDay(d) /\ job.asOf >= CloseAt(d)
          /\ CloseAt(d) + Grace <= now - wait
          /\ now - wait < CloseAt(d) + Grace + CheckpointWindow
    BY DEF IndInv, ClosesBegun
  <2>2. now \in Nat /\ wait \in 0..MaxWait
    BY DEF IndInv, TypeOK, FlagsOK
  <2>3. d \in Int /\ Midnight(d) \in Int /\ CloseAt(d) \in Int
    BY ConstantTypes, MidnightsApart, CloseInDay
  <2>4. CloseAt(d) <= Midnight(d) + Close
    BY <2>3, CloseInDay
  <2>5. CloseAt(d) <= now /\ now < Midnight(d) + DaySlots
    BY <2>1, <2>2, <2>3, <2>4, ConstantTypes, WindowAssumption
  <2> QED
    BY <2>1, <2>5
<1> QED
  BY <1>1, Invariance, PTL

\* The deadlines are inductive: an attempt at a refresh begins in time, a
\* failed one is made up for, and the refreshes that come first at a close
\* have each its turn.
THEOREM PunctualInvariance == Spec => [](IndInv /\ Punctual)
<1>1. Init => IndInv /\ Punctual
  BY InitInv, InitPunctual
<1>2. IndInv /\ Punctual /\ [Next]_vars => IndInv' /\ Punctual'
  BY StepInv, StepPunctual
<1> QED
  BY <1>1, <1>2, PTL DEF Spec

\* scheduler.ts, evaluateSchedule: for as long as the process runs, a session
\* is never without a refresh for more than the interval of the background
\* refresh and the time some failures cost, for any calendar and intervals.
THEOREM FreshAllSession == Spec => []KeptFreshInSession
<1>1. IndInv /\ Punctual => KeptFreshInSession
  <2> SUFFICES ASSUME IndInv, Punctual, crashes = 0, InSession(now),
                      now > OpenAt(Day(now)) + (SessionInterval + Patience)
               PROVE  /\ lastSuccess # Never
                      /\ now - lastSuccess <= SessionInterval + Patience
    BY DEF KeptFreshInSession
  <2>1. Counted /\ SessionPunctual
    BY DEF Punctual
  <2>2. PICK f \in Nat : f = faults * OneRefresh
    BY <2>1, Budgets
  <2>3. /\ Started \in Int /\ now <= Started + OneRefresh + f
        /\ OneRefresh \in Nat /\ Patience \in Nat
        /\ f + OneRefresh <= Patience /\ SessionInterval \in Nat
        /\ now \in Nat /\ lastSuccess \in Int \cup {Never}
    BY <2>1, <2>2, StartedType, Budgets, BoundTypes DEF IndInv, TypeOK
  <2>4. OpenAt(Day(now)) \in Int
    BY <2>3, DayBounds, CloseInDay
  <2>5. \/ Started <= OpenAt(Day(now))
        \/ lastSuccess # Never /\ Started <= lastSuccess + SessionInterval
    BY <2>1 DEF SessionPunctual
  <2> QED
    BY <2>2, <2>3, <2>4, <2>5
<1> QED
  BY <1>1, PunctualInvariance, PTL

\* scheduler.ts, evaluateSchedule: for as long as the process runs, a day that
\* is no holiday begins with a refresh, if no quote can be too old for it.
THEOREM RefreshedDaily == Spec => []EveryDayRefreshed
<1>1. IndInv /\ Punctual => EveryDayRefreshed
  <2> SUFFICES ASSUME IndInv, Punctual, crashes = 0, ~holdsEquities,
                      Calendar[Day(now)] # "holiday",
                      now > Midnight(Day(now)) + Patience
               PROVE  lastSuccess # Never /\ lastSuccess >= Midnight(Day(now))
    BY DEF EveryDayRefreshed
  <2>1. Counted /\ DayPunctual
    BY DEF Punctual
  <2>2. PICK f \in Nat : f = faults * OneRefresh
    BY <2>1, Budgets
  <2>3. /\ Started \in Int /\ now <= Started + OneRefresh + f
        /\ OneRefresh \in Nat /\ Patience \in Nat
        /\ f + OneRefresh <= Patience /\ now \in Nat
    BY <2>1, <2>2, StartedType, Budgets DEF IndInv, TypeOK
  <2>4. Midnight(Day(now)) \in Int
    BY <2>3, DayBounds
  <2>5. ~(Started <= Midnight(Day(now)))
    BY <2>2, <2>3, <2>4
  <2> QED
    BY <2>1, <2>5 DEF DayPunctual
<1> QED
  BY <1>1, PunctualInvariance, PTL

\* isRegularCloseCheckpoint and evaluateSchedule: for as long as the process
\* runs, every trading day has its close checkpoint within the hour, whatever
\* manual refreshes come first, some failures and quotes that lag.
THEOREM EveryCloseTaken == Spec => []CloseCheckpointTaken
<1>1. IndInv /\ Punctual => CloseCheckpointTaken
  <2> SUFFICES ASSUME IndInv, Punctual, crashes = 0, TradingDay(Day(now)),
                      now > CloseAt(Day(now)) + Grace + ClosePatience,
                      ~CheckpointTaken(Day(now))
               PROVE  FALSE
    BY DEF CloseCheckpointTaken
  <2>1. Counted /\ ClosePunctual /\ now \in Nat
    BY DEF Punctual, IndInv, TypeOK
  <2>2. PICK d \in Nat \ {0} : d = Day(now)
    BY <2>1, DayBounds
  <2>3. /\ CloseAt(d) \in Int /\ Grace \in Int /\ ClosePatience \in Nat
    BY <2>1, <2>2, CloseTime, Budgets
  <2>4. ClosePending(d)
    BY <2>1, <2>2, <2>3 DEF ClosePending
  <2>5. now <= CloseAt(d) + Grace + ClosePatience
    BY <2>1, <2>2, <2>4, CloseNear
  <2> QED
    BY <2>1, <2>2, <2>3, <2>5
<1> QED
  BY <1>1, PunctualInvariance, PTL
=============================================================================
