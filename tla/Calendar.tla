------------------------------ MODULE Calendar ------------------------------
(***************************************************************************)
(* Business dates and accounting periods (packages/domain periods/dates.ts)*)
(* A date is its number of days since 1970-01-01, a period the number of   *)
(* its month since the year 0; a range holds both its ends.                *)
(***************************************************************************)
EXTENDS Integers

isLeapYear(year) == year % 4 = 0 /\ (year % 100 # 0 \/ year % 400 = 0)

daysInMonth(year, month) ==
  IF month = 2 THEN IF isLeapYear(year) THEN 29 ELSE 28
  ELSE IF month \in {4, 6, 9, 11} THEN 30 ELSE 31

isLocalDate(year, month, day) ==
  month \in 1 .. 12 /\ day \in 1 .. daysInMonth(year, month)

\* Days of the years, then of the months before.
LeapYearsBefore(year) ==
  (year - 1) \div 4 - (year - 1) \div 100 + (year - 1) \div 400
DaysBeforeMonth(year, month) ==
  LET sum[m \in 1 .. 12] == IF m = 1 THEN 0 ELSE sum[m - 1] + daysInMonth(year, m - 1)
  IN sum[month]
toEpochDay(year, month, day) ==
  365 * (year - 1970) + LeapYearsBefore(year) - LeapYearsBefore(1970)
  + DaysBeforeMonth(year, month) + day - 1

YearOf(period) == period \div 12
MonthOf(period) == (period % 12) + 1
formatPeriodKey(year, month) == 12 * year + month - 1
addPeriods(period, count) == period + count

periodDayCount(period) == daysInMonth(YearOf(period), MonthOf(period))
periodStart(period) == toEpochDay(YearOf(period), MonthOf(period), 1)
periodEnd(period) == toEpochDay(YearOf(period), MonthOf(period), periodDayCount(period))

makeRange(start, end) == [start |-> start, end |-> end]
periodRange(period) == makeRange(periodStart(period), periodEnd(period))
rangeLengthDays(range) == range.end - range.start + 1
rangeContains(range, day) == range.start <= day /\ day <= range.end

LaterOf(a, b) == IF a > b THEN a ELSE b
EarlierOf(a, b) == IF a < b THEN a ELSE b
Intersects(a, b) == LaterOf(a.start, b.start) <= EarlierOf(a.end, b.end)
intersectRanges(a, b) == makeRange(LaterOf(a.start, b.start), EarlierOf(a.end, b.end))

\* The day of the month, or the last one it has.
ClampedDay(period, day) == periodStart(period) + EarlierOf(day, periodDayCount(period)) - 1
=============================================================================
