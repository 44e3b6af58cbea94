---------------------------- MODULE MCForecasts ----------------------------
(* Forecasts' operators, against what the code says of them, on small inputs. *)
EXTENDS Forecasts

LeapYear == <<31, 29, 31, 30, 31>>

\* The edges of each day of a leap February and of the months beside it.
Moments == {day * Day + second : day \in 28 .. 94, second \in {0, 1, 7 * Hour, Day - 1}}
StartDays == {0, 1, 2, 15, 28, 31}
BillingPeriods == {"WEEKLY", "MONTHLY", "CUSTOM"}

\* Buckets of a granularity lie side by side, and each moment is in one of them.
ASSUME BucketsTile ==
  \A t \in Moments, g \in {"MINUTE", "HOUR", "DAY", "MONTH"} :
    LET start == BucketStart(t, g) IN
    /\ In(t, Between(start, BucketEnd(start, g)))
    /\ BucketStart(BucketEnd(start, g), g) = BucketEnd(start, g)
    /\ BucketStart(BucketEnd(start, g) - 1, g) = start

\* So do billing periods, whatever day they start on and however long the month is.
ASSUME PeriodsTile ==
  \A t \in Moments, period \in BillingPeriods, startDay \in StartDays :
    LET range == BillingPeriod(period, startDay, t) IN
    /\ In(t, range)
    /\ BillingPeriod(period, startDay, range.start) = range
    /\ BillingPeriod(period, startDay, range.end - 1) = range
    /\ BillingPeriod(period, startDay, range.end).start = range.end

\* "If those two ever disagreed, an invoice would silently bill the wrong window": a bucket
\* that the aggregator writes belongs to one billing period as a whole.
ASSUME BucketsAreBilledWhole ==
  \A t \in Moments, period \in BillingPeriods, startDay \in StartDays, g \in Granularities :
    LET start == BucketStart(t, g) IN
    BillingPeriod(period, startDay, start) = BillingPeriod(period, startDay, BucketEnd(start, g) - 1)

\* A range ends when the page is opened, or where it was asked to end, and is never inverted.
ASSUME RangesAreForward ==
  \A now \in Moments, to \in {None, Unparsable, 5 * Day}, from \in {None, Unparsable, 4 * Day, 5 * Day},
     preset \in {"today", "7d", "30d", "month", "custom", "year"} :
    LET range == ResolveRange(preset, from, to, now) IN
    range # None => /\ range.end = IF preset = "custom" /\ to # None THEN to ELSE now
                    /\ range.start <= range.end
                    /\ preset = "custom" => range.start = from

MarchPeriod == BillingPeriod("MONTHLY", 1, 60 * Day)
Tariff == [currency |-> "VND", price |-> 3, base |-> 2, free |-> 4]
Volumes == {[raw |-> raw, optimized |-> optimized] : raw \in {0, 3, 9}, optimized \in {None, 2, 7}}

\* A projection appears with the days it needs, falls with time while nothing is used, never
\* below what has been spent, and ends at it.
ASSUME ProjectionSettles ==
  \A measured \in Volumes, minimum \in {1, 5} :
    LET At(day) == BillingOverview(measured, Tariff, MarchPeriod, minimum * Day, MarchPeriod.start + day * Day) IN
    \A day \in 0 .. 31 :
      IF measured.raw = 0 \/ day < minimum THEN At(day).projected = None
      ELSE /\ At(day).projected >= At(day).cost
           /\ day < 31 => At(day).projected >= At(day + 1).projected
           /\ day = 31 => At(day).projected = At(day).cost

\* Today never costs more than the period that contains it, as the base is not charged again;
\* but the free quota is deducted again, so a day within it is free in a period beyond it.
ASSUME TodayIsMarginal ==
  \A period, today \in Volumes : \A overview \in {BillingOverview(period, Tariff, MarchPeriod, Day, 70 * Day)} :
    period.raw >= today.raw /\ Carried(period) >= Carried(today) =>
      LET forecast == CostForecast(overview, today, Tariff) IN
      /\ forecast.current = None => period.raw = 0
      /\ forecast.current # None /\ forecast.today # None => forecast.today <= forecast.current - Tariff.base
      /\ Carried(today) <= Tariff.free => forecast.today \in {None, 0}

Hourly(hours, bytes) == {[start |-> h * Hour, granularity |-> "HOUR", bytes |-> bytes] : h \in hours}
Daily(days, bytes) == {[start |-> d * Day, granularity |-> "DAY", bytes |-> bytes] : d \in days}
SampleQuotas == {[enabled |-> enabled, limit |-> limit, used |-> used, periodStart |-> start] :
                 enabled \in BOOLEAN, limit \in {0, 10, 600}, used \in {0, 9, 10}, start \in {0, 12 * Hour}}
SampleRows == {{}, Hourly({13}, 3), Hourly({3, 13}, 0), Hourly(12 .. 35, 2), Hourly(0 .. 47, 2) \cup Daily({0, 1}, 48)}
SampleNows == {1 * Hour, 14 * Hour, 48 * Hour}

\* A forecast is made of a limit that is not reached and of traffic that was recorded, and is
\* taken for sure only with a day of history.  Its time is a number of hours, the quotient of
\* what is left and what an hour took, though the field is named for seconds (quota.ts:184).
ASSUME ForecastIsGrounded ==
  \A quota \in SampleQuotas, rows \in SampleRows, now \in SampleNows :
    LET forecast == ForecastQuota(quota, rows, now) IN
    forecast # None =>
      /\ quota.enabled /\ quota.used < quota.limit /\ rows # {} /\ now - quota.periodStart >= MinHistory
      /\ forecast.confidence = "HIGH" => now - quota.periodStart >= Day
      /\ \A other \in rows : ForecastQuota(quota, rows \ {other}, now) # None =>
           ForecastQuota(quota, rows \ {other}, now).eta >= forecast.eta

\* A quota that began with a day has each byte of the day counted twice, as hours and as the
\* day, so that the time it is said to have left is half of what it has (quota.ts:147).
ASSUME ForecastCountsTwice ==
  LET quota == [enabled |-> TRUE, limit |-> 600, used |-> 96, periodStart |-> 0]
      hours == Hourly(0 .. 47, 2) IN
  /\ ForecastQuota(quota, hours, 48 * Hour).eta = 252
  /\ ForecastQuota(quota, hours \cup Daily({0, 1}, 48), 48 * Hour).eta = 126

\* What is shown of the time that is left is less than an hour short, and a minute below two days.
ASSUME EtaIsShown ==
  \A seconds \in {0, 59, 60, 3599, 3600, 48 * Hour - 1, 48 * Hour, 50 * Hour + 1800} :
    LET shown == FormatEta(seconds)
        value == (shown[1] * 24 + shown[2]) * Hour + shown[3] * 60 IN
    /\ value <= seconds
    /\ seconds - value < IF seconds < 48 * Hour THEN 60 ELSE Hour
=============================================================================
