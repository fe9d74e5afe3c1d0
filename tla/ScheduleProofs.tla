---------------------------- MODULE ScheduleProofs ----------------------------
(***************************************************************************)
(* The schedules and the week codes of every day of the calendar, for any   *)
(* templates.  The while loop of nextDeliverySchedule is a recursive        *)
(* function; that it is the first schedule not passed is shown by the       *)
(* least counterexample.                                                    *)
(***************************************************************************)
EXTENDS Schedule, WellFoundedInduction, TLAPS

-----------------------------------------------------------------------------
(* The clock *)

\* The days are those of the bounds, and the times those of a day.
ClockInv == day \in FirstDay..LastDay /\ time \in Times

THEOREM ClockInvariance == ClockSpec => []ClockInv
<1>1. ClockInit => ClockInv
  BY CalendarAssumption DEF ClockInit, ClockInv
<1>2. ClockInv /\ [ClockNext]_clock => ClockInv'
  BY DEF ClockNext, clock, ClockInv
<1> QED BY <1>1, <1>2, PTL DEF ClockSpec

LEMMA BelowIsNat ==
  ASSUME NEW n \in Int, NEW x \in 0..(n - 1)
  PROVE  x \in Nat
OBVIOUS

LEMMA ClockTypes ==
  ASSUME ClockInv
  PROVE  day \in Nat /\ time \in 0..(DAY - 1)
<1>1. FirstDay \in Nat /\ LastDay \in Nat
  BY CalendarAssumption
<1>2. day \in Nat
  BY <1>1 DEF ClockInv
<1>3. time \in 0..(DAY - 1)
  BY ClockAssumption DEF ClockInv
<1> QED BY <1>2, <1>3

\* The instant alone, without the length of a day.
LEMMA NowIsNat ==
  ASSUME ClockInv
  PROVE  instant \in Nat
<1>1. DAY \in Int /\ DAY \in Nat
  BY DEF DAY
<1>2. time \in Nat
  BY <1>1, ClockTypes, BelowIsNat
<1>3. day \in Nat
  BY ClockTypes
<1>4. day * DAY + time \in Nat
  <2>1. day * 86400 + time \in Nat
    BY <1>2, <1>3
  <2> QED BY <2>1 DEF DAY
<1> QED BY <1>4 DEF instant

-----------------------------------------------------------------------------
(* Rolling forward *)

USE DEF DAY, WEEK, WIB

LEMMA LeastNat ==
  ASSUME NEW S, S \subseteq Nat, S # {}
  PROVE  \E m \in S : \A n \in S : m <= n
<1>1. PICK m \in S : \A n \in S : <<n, m>> \notin OpToRel(<, Nat)
  BY NatLessThanWellFounded, WFMin
<1>2. ASSUME NEW n \in S PROVE m <= n
  <2>1. <<n, m>> \notin OpToRel(<, Nat)
    BY <1>1
  <2>2. n \in Nat /\ m \in Nat
    OBVIOUS
  <2>3. ~(n < m)
    BY <2>1, <2>2 DEF OpToRel
  <2> QED BY <2>2, <2>3
<1> QED BY <1>2

LEMMA ShiftedByNone ==
  ASSUME NEW s \in Schedules
  PROVE  Shifted(s, 0) = s
BY DEF Shifted, Schedules

\* One more turn of the loop is one more week.
LEMMA RolledOnShifts ==
  ASSUME NEW s \in Schedules
  PROVE  /\ RolledOn(s) \in Schedules
         /\ \A n \in Int : Shifted(RolledOn(s), n) = Shifted(s, n + 1)
<1>1. RolledOn(s) \in Schedules
  BY DEF RolledOn, Schedules
<1>2. ASSUME NEW n \in Int
      PROVE  Shifted(RolledOn(s), n) = Shifted(s, n + 1)
  <2>1. /\ (s.opensAt + WEEK) + n * WEEK = s.opensAt + (n + 1) * WEEK
        /\ (s.closesAt + WEEK) + n * WEEK = s.closesAt + (n + 1) * WEEK
        /\ (s.deliveryDate + 7) + 7 * n = s.deliveryDate + 7 * (n + 1)
    BY DEF Schedules
  <2>2. /\ RolledOn(s).opensAt = s.opensAt + WEEK
        /\ RolledOn(s).closesAt = s.closesAt + WEEK
        /\ RolledOn(s).deliveryDate = s.deliveryDate + 7
    BY DEF RolledOn
  <2> QED BY <2>1, <2>2 DEF Shifted
<1> QED BY <1>1, <1>2

\* The loop's condition says that nobody can order any more.
LEMMA PassedIsOver ==
  ASSUME NEW s \in Schedules, NEW t \in Int
  PROVE  HasPassed(s, t) <=> ~CanOrder(s, t)
BY DEF HasPassed, CanOrder, jakartaDate, Schedules

\* n is the number of turns the loop takes.
IsTurns(n, s, t) ==
  /\ n \in Nat
  /\ ~HasPassed(Shifted(s, n), t)
  /\ \A k \in 0..(n - 1) : HasPassed(Shifted(s, k), t)

\* The loop ends: some week ahead has a cutoff and a delivery day ahead.
LEMMA TurnsExist ==
  ASSUME NEW s \in Schedules, NEW t \in Int
  PROVE  \E n \in Nat : IsTurns(n, s, t)
<1> DEFINE S == {n \in Nat : ~HasPassed(Shifted(s, n), t)}
<1>1. S # {}
  <2> DEFINE late == IF t < s.closesAt THEN 0 ELSE t - s.closesAt + 1
             gone == IF jakartaDate(t) < s.deliveryDate THEN 0
                     ELSE jakartaDate(t) - s.deliveryDate
             n == late + gone
  <2>1. late \in Nat /\ gone \in Nat /\ jakartaDate(t) \in Int
    BY DEF Schedules, jakartaDate
  <2>2. /\ s.closesAt + late > t
        /\ s.deliveryDate + gone >= jakartaDate(t)
    BY <2>1 DEF Schedules
  <2> HIDE DEF late, gone
  <2>3. n \in Nat /\ n * WEEK >= late /\ 7 * n >= gone
    BY <2>1
  <2> HIDE DEF n
  <2>4. /\ Shifted(s, n).closesAt = s.closesAt + n * WEEK
        /\ Shifted(s, n).deliveryDate = s.deliveryDate + 7 * n
    BY <2>3 DEF Shifted
  <2>5. ~HasPassed(Shifted(s, n), t)
    BY <2>1, <2>2, <2>3, <2>4 DEF HasPassed, Schedules
  <2> QED BY <2>3, <2>5
<1>2. PICK m \in S : \A n \in S : m <= n
  <2> HIDE DEF S
  <2>1. S \subseteq Nat
    BY DEF S
  <2> QED BY <1>1, <2>1, LeastNat
<1>3. IsTurns(m, s, t)
  <2>1. ASSUME NEW k \in 0..(m - 1) PROVE HasPassed(Shifted(s, k), t)
    BY <1>2
  <2> QED BY <1>2, <2>1 DEF IsTurns
<1> QED BY <1>3 DEF IsTurns

LEMMA TurnsAreUnique ==
  ASSUME NEW s \in Schedules, NEW t \in Int,
         NEW m, IsTurns(m, s, t), NEW n, IsTurns(n, s, t)
  PROVE  m = n
<1>1. m \in Nat /\ n \in Nat
  BY DEF IsTurns
<1>2. ~(m < n) /\ ~(n < m)
  BY <1>1 DEF IsTurns
<1> QED BY <1>1, <1>2

Turns(s, t) == CHOOSE n : IsTurns(n, s, t)

LEMMA TurnsIsTurns ==
  ASSUME NEW s \in Schedules, NEW t \in Int
  PROVE  IsTurns(Turns(s, t), s, t)
BY TurnsExist DEF Turns

\* A turn is taken exactly where the schedule has passed, and leaves one fewer.
LEMMA OneTurn ==
  ASSUME NEW s \in Schedules, NEW t \in Int
  PROVE  /\ Turns(s, t) \in Nat
         /\ ~HasPassed(s, t) => Turns(s, t) = 0
         /\ HasPassed(s, t) =>
              /\ Turns(s, t) > 0
              /\ Turns(RolledOn(s), t) = Turns(s, t) - 1
<1> DEFINE n == Turns(s, t)
           r == RolledOn(s)
<1>1. /\ n \in Nat /\ ~HasPassed(Shifted(s, n), t)
      /\ \A k \in 0..(n - 1) : HasPassed(Shifted(s, k), t)
  BY TurnsIsTurns DEF IsTurns
<1>2. r \in Schedules /\ \A k \in Int : Shifted(r, k) = Shifted(s, k + 1)
  BY RolledOnShifts
<1>3. ASSUME ~HasPassed(s, t) PROVE n = 0
  <2>1. IsTurns(0, s, t)
    BY <1>3, ShiftedByNone DEF IsTurns
  <2> QED BY <2>1, TurnsIsTurns, TurnsAreUnique
<1>4. ASSUME HasPassed(s, t)
      PROVE  n > 0 /\ Turns(r, t) = n - 1
  <2>1. n # 0
    BY <1>1, <1>4, ShiftedByNone
  <2>2. IsTurns(n - 1, r, t)
    <3>1. n - 1 \in Nat
      BY <1>1, <2>1
    <3>2. Shifted(r, n - 1) = Shifted(s, n)
      BY <1>1, <1>2
    <3>3. ASSUME NEW k \in 0..((n - 1) - 1)
          PROVE  HasPassed(Shifted(r, k), t)
      <4>1. k + 1 \in 0..(n - 1) /\ Shifted(r, k) = Shifted(s, k + 1)
        BY <1>1, <1>2
      <4> QED BY <1>1, <4>1
    <3> HIDE DEF r, n
    <3> QED BY <1>1, <3>1, <3>2, <3>3 DEF IsTurns
  <2>3. Turns(r, t) = n - 1
    BY <1>2, <2>2, TurnsIsTurns, TurnsAreUnique
  <2> QED BY <1>1, <2>1, <2>3
<1> QED BY <1>1, <1>3, <1>4

\* What the loop computes: the first week that has not passed.
LEMMA NextIsShifted ==
  ASSUME NEW s \in Schedules, NEW t \in Int
  PROVE  nextDeliverySchedule(s, t) = Shifted(s, Turns(s, t))
<1> DEFINE Loops(f) ==
             f = [r \in Schedules |->
                    IF HasPassed(r, t) THEN f[RolledOn(r)] ELSE r]
           next == CHOOSE f : Loops(f)
           first == [r \in Schedules |-> Shifted(r, Turns(r, t))]
<1>1. nextDeliverySchedule(s, t) = next[s]
  BY DEF nextDeliverySchedule
<1>2. Loops(first)
  <2>1. ASSUME NEW r \in Schedules
        PROVE  first[r] = IF HasPassed(r, t) THEN first[RolledOn(r)] ELSE r
    <3>1. CASE ~HasPassed(r, t)
      BY <3>1, OneTurn, ShiftedByNone
    <3>2. CASE HasPassed(r, t)
      <4>1. /\ Turns(r, t) \in Nat /\ RolledOn(r) \in Schedules
            /\ Turns(RolledOn(r), t) = Turns(r, t) - 1
        BY <3>2, OneTurn, RolledOnShifts
      <4>2. Shifted(RolledOn(r), Turns(r, t) - 1)
              = Shifted(r, (Turns(r, t) - 1) + 1)
        BY <4>1, RolledOnShifts
      <4> QED BY <3>2, <4>1, <4>2
    <3> QED BY <3>1, <3>2
  <2> QED BY <2>1
<1>3. Loops(next)
  <2> HIDE DEF first, Loops
  <2> QED BY <1>2
<1>4. \A r \in Schedules :
        next[r] = IF HasPassed(r, t) THEN next[RolledOn(r)] ELSE r
  <2> HIDE DEF next
  <2> QED BY <1>3
<1> HIDE DEF next
<1> DEFINE Bad == {n \in Nat : \E r \in Schedules :
                     n = Turns(r, t) /\ next[r] # Shifted(r, n)}
<1>5. Bad = {}
  <2> SUFFICES ASSUME Bad # {} PROVE FALSE
    OBVIOUS
  <2>1. PICK n \in Bad : \A k \in Bad : n <= k
    <3> HIDE DEF Bad
    <3>1. Bad \subseteq Nat
      BY DEF Bad
    <3> QED BY <3>1, LeastNat
  <2>2. PICK r \in Schedules : n = Turns(r, t) /\ next[r] # Shifted(r, n)
    BY <2>1
  <2>3. CASE ~HasPassed(r, t)
    BY <1>4, <2>2, <2>3, OneTurn, ShiftedByNone
  <2>4. CASE HasPassed(r, t)
    <3>1. /\ n \in Nat /\ n > 0 /\ RolledOn(r) \in Schedules
          /\ Turns(RolledOn(r), t) = n - 1
      BY <2>2, <2>4, OneTurn, RolledOnShifts
    <3>2. n - 1 \notin Bad /\ n - 1 \in Nat
      BY <2>1, <3>1
    <3>3. next[RolledOn(r)] = Shifted(RolledOn(r), n - 1)
      BY <3>1, <3>2
    <3>4. Shifted(RolledOn(r), n - 1) = Shifted(r, (n - 1) + 1)
      BY <3>1, RolledOnShifts
    <3> QED BY <1>4, <2>2, <2>4, <3>1, <3>3, <3>4
  <2> QED BY <2>3, <2>4
<1>6. Turns(s, t) \in Nat
  BY OneTurn
<1> QED BY <1>1, <1>5, <1>6

\* The schedule that current goes on to can be ordered into, and the ones before
\* it cannot.
LEMMA NextIsFirst ==
  ASSUME NEW s \in Schedules, NEW t \in Int
  PROVE  \E n \in Nat :
           /\ nextDeliverySchedule(s, t) = Shifted(s, n)
           /\ CanOrder(Shifted(s, n), t)
           /\ \A k \in 0..(n - 1) : ~CanOrder(Shifted(s, k), t)
<1> DEFINE n == Turns(s, t)
<1>1. /\ n \in Nat /\ ~HasPassed(Shifted(s, n), t)
      /\ \A k \in 0..(n - 1) : HasPassed(Shifted(s, k), t)
  BY TurnsIsTurns DEF IsTurns
<1>2. \A k \in Int : HasPassed(Shifted(s, k), t) <=> ~CanOrder(Shifted(s, k), t)
  <2>1. \A k \in Int : Shifted(s, k) \in Schedules
    BY DEF Shifted, Schedules
  <2> QED BY <2>1, PassedIsOver
<1>3. nextDeliverySchedule(s, t) = Shifted(s, n)
  BY NextIsShifted
<1> HIDE DEF n
<1> QED BY <1>1, <1>2, <1>3

\* Whatever schedules operators configure, they roll forward by whole weeks, to
\* the nearest week that can still be ordered into.
THEOREM RollsToNearest == ClockSpec => []NextIsNearest
<1>1. ASSUME ClockInv, NEW s \in Templates
      PROVE  LET next == nextDeliverySchedule(s, instant)
                 n == (next.deliveryDate - s.deliveryDate) \div 7
             IN  /\ n \in Nat /\ next = Shifted(s, n)
                 /\ CanOrder(next, instant)
                 /\ \A k \in 0..(n - 1) : ~CanOrder(Shifted(s, k), instant)
  <2>1. s \in Schedules /\ instant \in Int
    <3>1. instant \in Int
      BY <1>1, NowIsNat
    <3>2. s \in Schedules
      BY <1>1, TemplatesAssumption
    <3> QED BY <3>1, <3>2
  <2>2. PICK n \in Nat :
          /\ nextDeliverySchedule(s, instant) = Shifted(s, n)
          /\ CanOrder(Shifted(s, n), instant)
          /\ \A k \in 0..(n - 1) : ~CanOrder(Shifted(s, k), instant)
    BY <2>1, NextIsFirst
  <2>3. (Shifted(s, n).deliveryDate - s.deliveryDate) \div 7 = n
    BY <2>1 DEF Shifted, Schedules
  <2> QED BY <2>2, <2>3
<1>2. ClockInv => NextIsNearest
  BY <1>1 DEF NextIsNearest
<1> QED BY <1>2, ClockInvariance, PTL

-----------------------------------------------------------------------------
(* The default schedule *)

LEMMA MondayOfWeek ==
  ASSUME NEW d \in Int
  PROVE  ThisMonday(d) = 7 * (d \div 7)
BY DEF ThisMonday, UTCDay

\* Without a dated schedule, the cutoff is next Wednesday's and the delivery on
\* the Saturday after it, at every second of the calendar.
THEOREM DefaultIsWednesday == ClockSpec => []DefaultIsNextWednesday
<1>1. ASSUME ClockInv PROVE DefaultIsNextWednesday
  <2> DEFINE d == jakartaDate(instant)
             monday == ThisMonday(d)
             base == [opensAt |-> monday * DAY - WIB,
                      closesAt |-> (monday + 2) * DAY + (DAY - 1) - WIB,
                      deliveryDate |-> monday + 5]
             s == defaultDeliverySchedule(instant)
  <2>1. instant \in Int /\ d = (instant + WIB) \div DAY /\ d \in Int
    <3>1. instant \in Int
      BY <1>1, NowIsNat
    <3>2. d = (instant + WIB) \div DAY
      BY DEF jakartaDate
    <3> QED BY <3>1, <3>2
  <2>2. monday = 7 * (d \div 7) /\ monday \in Int
    BY <2>1, MondayOfWeek
  <2> HIDE DEF d, monday
  <2>3. /\ base \in Schedules
        /\ base.opensAt = monday * DAY - WIB
        /\ base.closesAt = (monday + 3) * DAY - 1 - WIB
        /\ base.deliveryDate = monday + 5
    BY <2>2 DEF Schedules
  <2>4. s = nextDeliverySchedule(base, instant)
    BY DEF defaultDeliverySchedule, d, monday
  <2> HIDE DEF base, s
  <2>5. PICK n \in Nat :
          /\ s = Shifted(base, n)
          /\ CanOrder(Shifted(base, n), instant)
          /\ \A k \in 0..(n - 1) : ~CanOrder(Shifted(base, k), instant)
    BY <2>1, <2>3, <2>4, NextIsFirst
  <2>6. /\ s.opensAt = monday * DAY - WIB + n * WEEK
        /\ s.closesAt = (monday + 3) * DAY - 1 - WIB + n * WEEK
        /\ s.deliveryDate = monday + 5 + 7 * n
    BY <2>3, <2>5 DEF Shifted
  <2>7. s.closesAt > instant
    BY <2>1, <2>2, <2>5, <2>6 DEF CanOrder
  <2>8. s.closesAt <= instant + WEEK
    <3>1. CASE n = 0
      BY <3>1, <2>1, <2>2, <2>6
    <3>2. CASE n # 0
      <4>1. n - 1 \in 0..(n - 1) /\ n - 1 \in Int
        BY <3>2
      <4>2. ~CanOrder(Shifted(base, n - 1), instant)
        BY <2>5, <4>1
      <4>3. /\ Shifted(base, n - 1).closesAt
                 = (monday + 3) * DAY - 1 - WIB + (n - 1) * WEEK
            /\ Shifted(base, n - 1).deliveryDate = monday + 5 + 7 * (n - 1)
        BY <2>3 DEF Shifted
      <4> QED BY <2>1, <2>2, <2>6, <4>2, <4>3 DEF CanOrder
    <3> QED BY <3>1, <3>2
  <2>9. WednesdayCutoff(s.closesAt)
    <3>1. monday * DAY = (d \div 7) * WEEK
      BY <2>1, <2>2
    <3>2. s.closesAt + WIB + 1 = 3 * DAY + ((d \div 7) + n) * WEEK
      BY <2>1, <2>2, <2>6, <3>1
    <3>3. (d \div 7) + n \in Int
      BY <2>1
    <3> QED BY <3>2, <3>3 DEF WednesdayCutoff
  <2>10. /\ s.deliveryDate * DAY = s.closesAt + 1 + WIB + 2 * DAY
         /\ s.opensAt = s.closesAt + 1 - 3 * DAY
    BY <2>2, <2>6
  <2> QED BY <2>7, <2>8, <2>9, <2>10 DEF DefaultIsNextWednesday, s
<1> QED BY <1>1, ClockInvariance, PTL

-----------------------------------------------------------------------------
(* The week code *)

LEMMA ThursdayOfWeek ==
  ASSUME NEW d \in Int
  PROVE  Thursday(d) = 7 * (d \div 7) + 3
BY DEF Thursday, UTCDay

\* Every day of the calendar is of a year: a Julian year has 365.25 days.
LEMMA YearOfDay ==
  ASSUME NEW d \in Nat, d < YearStart(2100)
  PROVE  /\ UTCFullYear(d) \in Years
         /\ YearStart(UTCFullYear(d)) <= d
         /\ d < YearStart(UTCFullYear(d) + 1)
<1> DEFINE y == 2024 + (4 * d) \div 1461
<1>1. d < 27759
  BY DEF YearStart
<1>2. y \in Years
  BY <1>1 DEF Years
<1>3. YearStart(y) <= d /\ d < YearStart(y + 1)
  BY DEF YearStart
<1> QED BY <1>2, <1>3 DEF UTCFullYear

\* The days whose Thursday the calendar has.
CodedDays == {d \in Nat : d + 3 < YearStart(2100)}

\* The code counts the weeks from the Monday of the week with the 4th of January.
LEMMA CodeCountsWeeks ==
  ASSUME NEW d \in CodedDays
  PROVE  LET c == weekCode(d)
         IN  /\ c[1] \in Years /\ c[2] \in Int
             /\ (d - FirstMonday(c[1])) \div 7 = c[2] - 1
             /\ FirstMonday(c[1]) <= d /\ d < FirstMonday(c[1] + 1)
<1> DEFINE th == Thursday(d)
           y == UTCFullYear(th)
           start == YearStart(y)
           end == YearStart(y + 1)
<1>1. d \in Nat /\ th = 7 * (d \div 7) + 3
  <2>1. d \in Nat
    BY DEF CodedDays
  <2>2. th = 7 * (d \div 7) + 3
    BY <2>1, ThursdayOfWeek
  <2> QED BY <2>1, <2>2
<1>2. th \in Nat /\ th < YearStart(2100)
  BY <1>1 DEF CodedDays, YearStart
<1> HIDE DEF th
<1>3. y \in Years /\ start <= th /\ th < end
  BY <1>2, YearOfDay
<1>4. /\ weekCode(d)[1] = y
      /\ weekCode(d)[2] = (th - start + 1 + 6) \div 7
  BY DEF weekCode, CodeYear, DayOfYear, th
<1> HIDE DEF y
<1>5. start \in Int /\ end \in Int
  BY <1>3 DEF Years, YearStart
<1> HIDE DEF start, end
<1>6. /\ FirstMonday(y) = ((start + 3) \div 7) * 7
      /\ FirstMonday(y + 1) = ((end + 3) \div 7) * 7
  BY DEF FirstMonday, start, end
<1>7. /\ (d - FirstMonday(y)) \div 7 = (th - start + 1 + 6) \div 7 - 1
      /\ FirstMonday(y) <= d
      /\ d < FirstMonday(y + 1)
  BY <1>1, <1>3, <1>5, <1>6
<1>8. (th - start + 1 + 6) \div 7 \in Int
  BY <1>2, <1>5
<1> QED BY <1>3, <1>4, <1>7, <1>8

\* One code, one week.
LEMMA CodeTellsWeek ==
  ASSUME NEW d \in CodedDays, NEW e \in CodedDays, weekCode(d) = weekCode(e)
  PROVE  d \div 7 = e \div 7
<1> DEFINE y == weekCode(d)[1]
           w == weekCode(d)[2]
<1>1. /\ y \in Years /\ w \in Int
      /\ (d - FirstMonday(y)) \div 7 = w - 1
      /\ (e - FirstMonday(y)) \div 7 = w - 1
  BY CodeCountsWeeks
<1>2. FirstMonday(y) = 7 * ((YearStart(y) + 3) \div 7)
  BY <1>1 DEF FirstMonday, YearStart, Years
<1>3. (YearStart(y) + 3) \div 7 \in Int /\ d \in Nat /\ e \in Nat
  BY <1>1 DEF YearStart, Years, CodedDays
<1> HIDE DEF y, w
<1> QED BY <1>1, <1>2, <1>3

\* The code is the ISO week, also around New Year.
THEOREM CodeIsIso == ClockSpec => []CodeIsIsoWeek
<1>1. ASSUME ClockInv PROVE CodeIsIsoWeek
  <2>1. day \in CodedDays
    BY <1>1, CalendarAssumption DEF ClockInv, CodedDays, WeeksTried, YearStart
  <2> QED BY <2>1, CodeCountsWeeks DEF CodeIsIsoWeek
<1> QED BY <1>1, ClockInvariance, PTL

\* No two of the weeks one request may try share a code.
THEOREM CodesDiffer == ClockSpec => []CodesAreDistinct
<1>1. ASSUME ClockInv PROVE CodesAreDistinct
  <2> SUFFICES ASSUME NEW k \in 1..WeeksTried,
                      weekCode(day + 7 * k) = weekCode(day)
               PROVE  FALSE
    BY DEF CodesAreDistinct
  <2>1. day \in Nat /\ day <= LastDay /\ k \in 1..104
    BY <1>1, CalendarAssumption DEF ClockInv, WeeksTried
  <2>2. day \in CodedDays /\ day + 7 * k \in CodedDays
    BY <2>1, CalendarAssumption DEF CodedDays, WeeksTried, YearStart
  <2>3. (day + 7 * k) \div 7 = day \div 7
    BY <2>2, CodeTellsWeek
  <2> QED BY <2>1, <2>3
<1> QED BY <1>1, ClockInvariance, PTL
=============================================================================
