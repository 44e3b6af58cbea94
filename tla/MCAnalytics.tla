---------------------------- MODULE MCAnalytics ----------------------------
(* Analytics' operators, on what the rollup makes of small sets of samples. *)
EXTENDS Analytics, MCForecasts

Sampled(t, direction, source, bytes, optimized, device, node, user) ==
  [t |-> t, direction |-> direction, source |-> source, bytes |-> bytes, optimized |-> optimized,
   device |-> device, node |-> node, user |-> user, config |-> None, category |-> None]

\* Two days of two devices, one of them measured; the last sample may be a simulated one.
At(day, hour) == day * Day + hour * Hour + 600
Traffic(source) ==
  {Sampled(At(0, 0), "UPLOAD", "REAL", 3, 1, "a", "n", "u"),
   Sampled(At(0, 5), "DOWNLOAD", "REAL", 4, 6, "a", "n", "u"),
   Sampled(At(0, 5), "DOWNLOAD", "REAL", 2, None, "b", "m", "u"),
   Sampled(At(1, 3), "UPLOAD", "REAL", 8, None, "b", "n", None),
   Sampled(At(1, 9), "DOWNLOAD", "REAL", 5, 5, "a", "m", None),
   Sampled(At(1, 23), "UPLOAD", source, 1, None, "b", "m", "u")}
Feeds == {{}} \cup {{s} : s \in Traffic("REAL")} \cup
         {Traffic("REAL"), Traffic("MOCK"), {s \in Traffic("REAL") : s.t < Day}}
TwoDays == Between(0, 2 * Day)
Ranges == {TwoDays, Between(0, Day), Between(2 * Hour, 2 * Day), Between(0, 10 * Day)}
Unfiltered == [kind \in Kinds |-> None]
Happened(samples, range) == BytesOf({s \in samples : In(s.t, range)})
TotalOf(f) == MapThenSumSet(LAMBDA x : f[x], DOMAIN f)

\* "Peak and average are derived from the same bytes the chart draws" (traffic.ts:301): by the
\* hour and by the day the traffic page shows what happened, once.  Its breakdowns show it twice,
\* as they add the hours to the days.
ASSUME PageShowsTraffic ==
  \A samples \in Feeds, range \in {TwoDays, Between(0, 10 * Day)} :
    LET page == QueryTraffic(Rollup(samples), Unfiltered, None, None, range) IN
    /\ page.summary.volume.total = Happened(samples, range)
    /\ page.summary.volume.total = TotalOf([t \in DOMAIN page.series |-> page.series[t].total])
    /\ page.summary.volume.total = page.summary.volume.upload + page.summary.volume.download
    /\ \A kind \in {"node", "device"} :
         TotalOf([h \in DOMAIN page.breakdown[kind] |-> page.breakdown[kind][h].total]) = 2 * Happened(samples, range)

\* Buckets are taken to fill the time from the first to the last, and the peak is no slower than
\* the average unless the last one reaches beyond the range.
ASSUME PeakIsAPeak ==
  \A samples \in Feeds \ {{}}, range \in {TwoDays, Between(0, 10 * Day)} :
    LET page == QueryTraffic(Rollup(samples), Unfiltered, None, None, range)
        starts == DOMAIN page.series IN
    /\ MapThenSumSet(LAMBDA t : BucketSeconds(starts, t, range), starts \ {Max(starts)}) = Max(starts) - Min(starts)
    /\ MapThenSumSet(LAMBDA t : BucketSeconds(starts, t, range), starts) <= range.end - range.start =>
      ~Faster(page.summary.average, page.summary.peak)

\* A second filter changes nothing but the list of those that were ignored.
ASSUME OneFilterApplies ==
  \A user \in {None, "u"}, node \in {None, "n", "m"} :
    LET filters == [Unfiltered EXCEPT !["device"] = "a", !["user"] = user, !["node"] = node]
        rows == Rollup(Traffic("REAL"))
        Page(given) == QueryTraffic(rows, given, None, "REAL", TwoDays)
        only == [Unfiltered EXCEPT !["device"] = "a"] IN
    /\ Page(filters) = [Page(only) EXCEPT !.ignored = {k \in {"user", "node"} : filters[k] # None}]
    /\ Page(only).summary.volume.total = Happened({s \in Traffic("REAL") : s.device = "a"}, TwoDays)

\* The consumers of a dimension have all of it between them, but for what rounding takes.
ASSUME SharesAddUp ==
  \A samples \in Feeds, kind \in {"device", "node", "user"}, source \in {None, "REAL"} :
    LET consumers == QueryConsumers(Rollup(samples), kind, source, TwoDays)
        error == TotalOf([h \in DOMAIN consumers |-> consumers[h].share]) - 1000 IN
    consumers # <<>> =>
      /\ -Cardinality(DOMAIN consumers) <= error /\ error <= Cardinality(DOMAIN consumers)
      /\ \A h, other \in DOMAIN consumers :
           consumers[h].bytes <= consumers[other].bytes => consumers[h].share <= consumers[other].share

\* "A heatmap that colourises no data as low is a lie": a cell is there when a row is; the
\* least of the cells are low, more is never a lower level, and a peak takes five cells.
ASSUME LevelsAreOrdered ==
  \A n \in 1 .. 6 : \A cells \in [1 .. n -> {1, 2, 5}] :
    LET Rank(level) == CHOOSE i \in 1 .. 4 : <<"low", "medium", "high", "peak">>[i] = level
        Of(c) == Rank(LevelOf(cells[c], cells)) IN
    /\ \A c, d \in 1 .. n : cells[c] <= cells[d] => Of(c) <= Of(d)
    /\ \E c \in 1 .. n : Of(c) = 1
    /\ n < 5 => \A c \in 1 .. n : Of(c) < 4

\* The rows of a day are not kept from a map of hours: midnight has the whole day besides what
\* happened in its hour, and the map has twice the traffic (heatmap.ts:74, 80).
ASSUME MidnightHoldsTheDay ==
  \A samples \in Feeds :
    LET map == TrafficHeatmap(Rollup(samples), "hour", None, None, TwoDays)
        Of(from, length) == Happened(samples, Between(from, from + length)) IN
    /\ map.total = 2 * Happened(samples, TwoDays)
    /\ \A cell \in DOMAIN map.cells :
         map.cells[cell] = Of(cell[1] + cell[2] * Hour, Hour) + IF cell[2] = 0 THEN Of(cell[1], Day) ELSE 0

\* A click on a cell of the clock opens what the cell shows, unless the range begins within it.
ASSUME CellOpens ==
  \A samples \in Feeds, range \in Ranges, dim \in {"hour", "day"} :
    LET rows == Rollup(samples)
        map == TrafficHeatmap(rows, dim, None, None, range) IN
    \A cell \in DOMAIN map.cells :
      LET opened == HeatmapCell(rows, dim, cell, range) IN
      \/ dim = "day" /\ cell[2] < range.start
      \/ /\ opened.total = map.cells[cell]
         /\ TotalOf(opened.devices) = opened.total /\ TotalOf(opened.nodes) = opened.total

\* The total of the insights counts a sample once for each of its hubs, twice; so no device is
\* ever said to have half of it.  "All figures come from REAL data" is said of simulated ones as
\* well, once a real row is there (insights.ts:115, 222).
ASSUME InsightsCountHubs ==
  \A samples \in Feeds :
    LET rows == Rollup(samples)
        said == TrafficInsights(rows, None, None, TwoDays)
        HubCount(s) == 1 + Cardinality({k \in Kinds : s[k] # None}) IN
    /\ said = None <=> Happened(samples, TwoDays) = 0
    /\ said # None =>
         /\ said.total = 2 * MapThenSumSet(LAMBDA s : s.bytes * HubCount(s), samples)
         /\ 2 * BytesOf(OfHub(rows, said.topDevice)) < said.total
         /\ said.realOnly <=> \E s \in samples : s.source = "REAL"
         /\ said.peak \in {HourOf(s.t) : s \in samples}
         /\ said.total = ReportTraffic(rows, TwoDays).volume.total

Record(start, kind, original, optimized, device, category) ==
  [start |-> start, source |-> "REAL", kind |-> kind, original |-> original, optimized |-> optimized,
   device |-> device, category |-> category]
Measured == {Record(0, "MEASURED", 10, 4, "a", "web"), Record(Hour, "MEASURED", 10, 9, "a", None),
             Record(Hour, "MEASURED", 5, 6, "b", "video")}
Estimated == {Record(0, "ESTIMATED", 20, 5, "b", "web"), Record(Hour, "ESTIMATED", 0, 0, "a", "video")}

\* An estimate never passes for a measurement, nor is it mixed with one; what is shown by group
\* and by time adds up to the summary, and no percentage is shown of too little.
ASSUME SavingsAreHonest ==
  \A records \in SUBSET (Measured \cup Estimated), groupBy \in {"device", "category"}, minSample \in {0, 12} :
    LET page == OptimizationAnalytics(records, groupBy, minSample, "REAL", TwoDays)
        Sum(groups) == TotalOf([g \in DOMAIN groups |-> groups[g].saved]) IN
    /\ page.kind = "MEASURED" => page.totals = TotalsOf(records \cap Measured)
    /\ page.kind = "ESTIMATED" => records \cap Measured = {}
    /\ page.percent # None => page.totals.original >= minSample /\ page.kind # "INSUFFICIENT_DATA"
    /\ Sum(page.breakdown) = page.totals.saved /\ Sum(page.series) = page.totals.saved
    /\ \A c \in DOMAIN page.bands : page.bands[c] \in {"HIGH", "MODERATE", "LOW"} =>
         \E r \in records : r.category = c /\ r.optimized < r.original

ProfileOf == [d \in {"a", "b", "c"} |-> IF d = "a" THEN "GAMING" ELSE None]
Sessions == {[device |-> "b", start |-> 5], [device |-> "c", start |-> 3 * Day]}

\* Which of two profiles saves does not depend on the order they are asked for.  A device that
\* is asked for is both sides of its own comparison (benchmark.ts:67).
ASSUME ComparisonIsFair ==
  \A samples \in Feeds, device \in {None, "a", "b"}, a, b \in {"GAMING", "BALANCED", None} :
    LET Compare(x, y) == CompareOptimizationProfiles(Rollup(samples), Sessions, ProfileOf, x, y, device, TwoDays)
        there == Compare(a, b)
        back == Compare(b, a) IN
    /\ there.data = None <=> back.data = None
    /\ there.data # None => (there.data > 0 => back.data <= 0) /\ (there.data < 0 => back.data >= 0)
    /\ device # None \/ a = b => there.data \in {None, 0}
    /\ "BALANCED" \in {a, b} /\ device = None => there.data = None

\* A report's saving is a part of what was carried, even where the page shows a loss; and its
\* coverage is a share of what was expected.
ASSUME ReportsAreBounded ==
  /\ \A samples \in Feeds :
       LET report == ReportOptimization(Rollup(samples), TwoDays) IN
       report # None /\ report.reduction # None => report.reduction \in 0 .. 10000
  /\ \A samples \in 0 .. 100 :
       LET Coverage(count) == HeartbeatCoverage(count, Between(0, Day)) IN
       Coverage(samples) <= Coverage(samples + 1) /\ (Coverage(samples) = 1000 <=> samples >= 96)
=============================================================================
