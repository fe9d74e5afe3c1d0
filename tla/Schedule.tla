------------------------------ MODULE Schedule ------------------------------
(***************************************************************************)
(* The calendar of the delivery groups: delivery-schedule.ts and the week  *)
(* code of BatchesService, as functions, against a calendar defined here   *)
(* on its own terms.  The state is the clock, and whether a request asks   *)
(* for its schedule now: every property is of the answer it gets, at any   *)
(* instant the clock reaches.                                              *)
(*                                                                         *)
(* Instants are seconds, and days days, since Monday 2024-01-01 in UTC.    *)
(***************************************************************************)
EXTENDS Integers

CONSTANTS
  FirstDay, LastDay, \* the days the clock runs through
  Times,             \* the times of each it stops at
  Templates          \* schedules operators have configured

VARIABLES day, time, asking

clock == <<day, time, asking>>

DAY == 86400
WEEK == 7 * DAY
WIB == 7 * 3600

instant == day * DAY + time

Schedules == [opensAt : Int, closesAt : Int, deliveryDate : Int]

\* The first day of a year, for Years.
YearStart(y) == 365 * (y - 2024) + (y - 2021) \div 4

Years == 2024..2099

\* The weeks current may try, from one request's first to its last.
WeeksTried == 104

ASSUME ClockAssumption == Times \subseteq 0..(DAY - 1)
ASSUME TemplatesAssumption == Templates \subseteq Schedules

\* The weeks a request may try are within the calendar.
ASSUME CalendarAssumption ==
  /\ FirstDay \in Nat /\ LastDay \in Nat /\ FirstDay <= LastDay
  /\ LastDay + 7 * WeeksTried + 3 < YearStart(2100)

-----------------------------------------------------------------------------
(* delivery-schedule.ts *)

jakartaDate(t) == (t + WIB) \div DAY

HasPassedLate(s, t) ==
  s.closesAt < t \/ s.deliveryDate < jakartaDate(t)

HasPassed(s, t) ==
  s.closesAt <= t \/ s.deliveryDate < jakartaDate(t)

RolledOn(s) == [opensAt |-> s.opensAt + WEEK,
                closesAt |-> s.closesAt + WEEK,
                deliveryDate |-> s.deliveryDate + 7]

nextDeliverySchedule(s, t) ==
  LET next[r \in Schedules] ==
        IF HasPassed(r, t) THEN next[RolledOn(r)] ELSE r
  IN  next[s]

\* getUTCDay: 0 on Sundays.
UTCDay(d) == (d + 1) % 7

ThisMonday(d) == d - ((UTCDay(d) + 6) % 7)

\* Monday 00:00 to Wednesday 23:59:59 in Jakarta, for Saturday.
defaultDeliverySchedule(t) ==
  LET monday == ThisMonday(jakartaDate(t))
  IN  nextDeliverySchedule(
        [opensAt |-> monday * DAY - WIB,
         closesAt |-> (monday + 2) * DAY + (DAY - 1) - WIB,
         deliveryDate |-> monday + 5], t)

-----------------------------------------------------------------------------
(* weekCode *)

UTCFullYear(d) ==
  CHOOSE y \in Years : YearStart(y) <= d /\ d < YearStart(y + 1)

\* The Thursday of d's week: 4 - (getUTCDay() || 7) days away.
Thursday(d) == d + 4 - (IF UTCDay(d) = 0 THEN 7 ELSE UTCDay(d))

DayOfYear(d) == d - YearStart(UTCFullYear(d)) + 1

CalendarYear(d) == UTCFullYear(d)

CodeYear(d) == UTCFullYear(Thursday(d))

weekCode(d) == <<CodeYear(d), (DayOfYear(Thursday(d)) + 6) \div 7>>

-----------------------------------------------------------------------------

ClockInit == day = FirstDay /\ time \in Times /\ asking = FALSE

ClockNext ==
  /\ day' \in {day, day + 1} \cap (FirstDay..LastDay)
  /\ time' \in Times
  /\ asking' \in BOOLEAN

ClockSpec == ClockInit /\ [][ClockNext]_clock

-----------------------------------------------------------------------------
(* Properties *)

\* A schedule rolls forward by whole weeks, and no week further than it must:
\* weekday, cutoff and lead time are the template's, and the group before it
\* has had its cutoff or its delivery day.
Shifted(s, n) == [opensAt |-> s.opensAt + n * WEEK,
                  closesAt |-> s.closesAt + n * WEEK,
                  deliveryDate |-> s.deliveryDate + 7 * n]

CanOrder(s, t) == t < s.closesAt /\ t < (s.deliveryDate + 1) * DAY - WIB

NextIsNearest ==
  asking =>
    \A s \in Templates :
      LET next == nextDeliverySchedule(s, instant)
          n == (next.deliveryDate - s.deliveryDate) \div 7
      IN  /\ n \in Nat /\ next = Shifted(s, n)
          /\ CanOrder(next, instant)
          /\ \A k \in 0..(n - 1) : ~CanOrder(Shifted(s, k), instant)

\* Without a dated schedule the cutoff is the next Wednesday 23:59:59 in Jakarta,
\* at most a week away and never now, on Sundays and at the cutoff as well, and
\* delivery is on the Saturday after it.
WednesdayCutoff(t) == (t + WIB + 1) % WEEK = 3 * DAY

DefaultIsNextWednesday ==
  asking =>
    LET s == defaultDeliverySchedule(instant)
    IN  /\ WednesdayCutoff(s.closesAt)
        /\ s.closesAt > instant /\ s.closesAt <= instant + WEEK
        /\ s.deliveryDate * DAY = s.closesAt + 1 + WIB + 2 * DAY
        /\ s.opensAt = s.closesAt + 1 - 3 * DAY

\* The code is the ISO week: weeks start on Mondays, and week 1 is the one with
\* the 4th of January, whatever year its days fall into.
FirstMonday(y) == ((YearStart(y) + 3) \div 7) * 7

CodeIsIsoWeek ==
  asking =>
    LET c == weekCode(day)
    IN  /\ (day - FirstMonday(c[1])) \div 7 = c[2] - 1
        /\ FirstMonday(c[1]) <= day /\ day < FirstMonday(c[1] + 1)

\* No two of the weeks that current may try have one code: a group never takes
\* the code of another delivery.
CodesAreDistinct ==
  asking => \A k \in 1..WeeksTried : weekCode(day + 7 * k) # weekCode(day)
=============================================================================
