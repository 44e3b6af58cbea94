----------------------------- MODULE Forecasts -----------------------------
(***************************************************************************)
(* What the console reckons from the clock and the ledger: the buckets of  *)
(* the traffic tables, the ranges of the pages, billing periods, what a    *)
(* period will cost and how long a quota will last (src/server/lib/time.ts,*)
(* billing/service.ts, forecast).  Nothing here has state.                 *)
(*                                                                         *)
(* A moment is a number of seconds, all in UTC; bytes and money are whole  *)
(* numbers.  What is rounded in the code is rounded here, to the unit.     *)
(***************************************************************************)
EXTENDS Ledger, Sequences

CONSTANTS
  MonthLengths,  \* the calendar, from the month that begins at moment 0
  FirstWeekday,  \* of that day, Monday being 0
  Unparsable     \* what a date is that cannot be read

ASSUME CalendarAssumption == MonthLengths \in Seq(28 .. 31) /\ FirstWeekday \in 0 .. 6

Hour == 3600
Day == 24 * Hour

\* The first day of a month, counted from day 0.
MonthStart[m \in 1 .. Len(MonthLengths) + 1] ==
  IF m = 1 THEN 0 ELSE MonthStart[m - 1] + MonthLengths[m - 1]

MonthOf(day) == CHOOSE m \in DOMAIN MonthLengths : MonthStart[m] <= day /\ day < MonthStart[m + 1]
DayOfMonth(day) == day - MonthStart[MonthOf(day)] + 1
Weekday(day) == (FirstWeekday + day) % 7

\* setUTCDate and setUTCMonth: what is beyond the end of a month is in the next.
WithDate(t, date) == (MonthStart[MonthOf(t \div Day)] + date - 1) * Day + (t % Day)
AddMonths(t, months) ==
  (MonthStart[MonthOf(t \div Day) + months] + DayOfMonth(t \div Day) - 1) * Day + (t % Day)

-----------------------------------------------------------------------------
(* Buckets and ranges. *)

Midnight(t) == t - (t % Day)

BucketStart(t, granularity) ==
  CASE granularity = "MINUTE" -> t - (t % 60)
    [] granularity = "HOUR" -> t - (t % Hour)
    [] granularity = "DAY" -> Midnight(t)
    [] granularity = "MONTH" -> WithDate(Midnight(t), 1)

BucketEnd(start, granularity) ==
  CASE granularity = "MINUTE" -> start + 60
    [] granularity = "HOUR" -> start + Hour
    [] granularity = "DAY" -> start + Day
    [] granularity = "MONTH" -> AddMonths(start, 1)

Between(start, end) == [start |-> start, end |-> end]

CustomRange(from, to, now) ==
  LET end == IF to = None THEN now ELSE to IN
  IF from \in {None, Unparsable} \/ end = Unparsable THEN None
  ELSE IF end <= from THEN None ELSE Between(from, end)

ResolveRange(preset, from, to, now) ==
  CASE preset = "custom" -> CustomRange(from, to, now)
    [] preset = "today" -> Between(Midnight(now), now)
    [] preset = "7d" -> Between(now - 7 * Day, now)
    [] preset = "30d" -> Between(now - 30 * Day, now)
    [] preset = "month" -> Between(WithDate(Midnight(now), 1), now)
    [] OTHER -> None

In(t, range) == range.start <= t /\ t < range.end

WeeklyPeriod(now) ==
  LET start == Midnight(now) - Weekday(now \div Day) * Day IN Between(start, start + 7 * Day)

\* This month's start, or last month's while this one's is still to come.
MonthlyPeriod(startDay, now) ==
  LET date == IF startDay > 28 THEN 28 ELSE IF startDay < 1 THEN 1 ELSE startDay
      here == WithDate(Midnight(now), date)
      start == IF here > now THEN AddMonths(here, -1) ELSE here IN
  Between(start, AddMonths(start, 1))

BillingPeriod(period, startDay, now) ==
  IF period = "WEEKLY" THEN WeeklyPeriod(now) ELSE MonthlyPeriod(startDay, now)

Elapsed(range, now) == Floor((IF now < range.end THEN now ELSE range.end) - range.start)
RangeLength(range) == Floor(range.end - range.start)

-----------------------------------------------------------------------------
(* What a period will cost. *)

\* Math.round(a / b).
Round(a, b) == (2 * a + b) \div (2 * b)

\* None as long as there is nothing to extrapolate from.
Project(cost, elapsed, total, minimum, hasTraffic) ==
  IF ~hasTraffic \/ elapsed < minimum \/ total <= 0 THEN None ELSE Round(cost * total, elapsed)

\* What the overview says of a period, its traffic being measured as MeasurePeriod does.
BillingOverview(measured, pricing, range, minimum, now) ==
  LET cost == ComputeCost(measured, pricing) IN
  [available |-> measured.raw > 0,
   cost |-> cost,
   projected |-> Project(cost, Elapsed(range, now), RangeLength(range), minimum, measured.raw > 0)]

\* The traffic of today is costed as if it were all there is, less what no traffic costs.
CostToday(today, pricing) ==
  Floor(ComputeCost(today, pricing) - ComputeCost([raw |-> 0, optimized |-> 0], pricing))

CostForecast(overview, today, pricing) ==
  LET Given(value) == IF overview.available THEN value ELSE None IN
  [current |-> Given(overview.cost),
   today |-> IF today.raw > 0 THEN CostToday(today, pricing) ELSE Given(CostToday(today, pricing)),
   projected |-> Given(overview.projected)]

-----------------------------------------------------------------------------
(* How long a quota will last.  The rows are those of its dimension in      *)
(* traffic_aggregate, of hours and of days.                                 *)

MinHistory == 2 * Hour
MinPoints == 2

Confidence(elapsed, points) ==
  IF elapsed >= 24 * Hour /\ points >= 24 THEN "HIGH"
  ELSE IF elapsed >= 6 * Hour /\ points >= 6 THEN "MEDIUM" ELSE "LOW"

\* Why there is no forecast is left out.  The time that is left is the quotient of bytes and
\* bytes per hour.
ForecastQuota(quota, rows, now) ==
  LET elapsed == now - quota.periodStart
      counted == {r \in rows : In(r.start, Between(quota.periodStart, now))}
      total == MapThenSumSet(LAMBDA r : r.bytes, counted) IN
  IF ~quota.enabled \/ quota.limit <= 0 \/ quota.used >= quota.limit
     \/ elapsed < MinHistory \/ Cardinality(counted) < MinPoints \/ total <= 0
  THEN None
  ELSE [rate |-> Round(total * Hour, elapsed),
        eta |-> Round((quota.limit - quota.used) * elapsed, total * Hour),
        confidence |-> Confidence(elapsed, Cardinality(counted))]

\* Days, hours and minutes that are shown; minutes only below two days, and nothing below one.
FormatEta(seconds) ==
  LET minutes == seconds \div 60
      hours == minutes \div 60 IN
  IF hours < 48 THEN <<0, hours, minutes % 60>> ELSE <<hours \div 24, hours % 24, 0>>
=============================================================================
