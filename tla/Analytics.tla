------------------------------ MODULE Analytics ------------------------------
(***************************************************************************)
(* What the console's pages read out of traffic_aggregate and              *)
(* optimization_records: the traffic page, consumers, heatmap, insights,   *)
(* the optimization page, the comparison of profiles and the reports       *)
(* (src/server/analytics, optimization, reports).  Nothing here has state. *)
(*                                                                         *)
(* A row is [hub, granularity, start, direction, source, bytes, optimized] *)
(* and bytes are counted in GB.  Labels, limits on the number of rows and  *)
(* the order of lists are left out.                                        *)
(***************************************************************************)
EXTENDS Forecasts, TLC

Hub(kind, id) == [kind |-> kind, id |-> id]
SystemHub == Hub("system", None)

BytesOf(rows) == MapThenSumSet(LAMBDA r : r.bytes, rows)
OptimizedOf(rows) ==
  LET reported == {r \in rows : r.optimized # None} IN
  IF reported = {} THEN None ELSE MapThenSumSet(LAMBDA r : r.optimized, reported)

\* The rows of a range; a source that is None is all of them.
Within(rows, range, source) == {r \in rows : In(r.start, range) /\ source \in {None, r.source}}

HubsOf(rows, kind) == {r.hub : r \in {s \in rows : s.hub.kind = kind}}
OfHub(rows, hub) == {r \in rows : r.hub = hub}
Going(rows, direction) == {r \in rows : r.direction = direction}

Kinds == {"node", "device", "user", "config", "category"}

\* What the rollup of samples writes: a row for each hub of a sample (the system, its device,
\* its node, ...), direction and source, by the hour as well as by the day.
Rollup(samples) ==
  LET HubsOfSample(s) == {SystemHub} \cup {Hub(k, s[k]) : k \in {kind \in Kinds : s[kind] # None}}
      KeysOfSample(s) ==
        {[hub |-> h, granularity |-> g, start |-> BucketStart(s.t, g), direction |-> s.direction, source |-> s.source] :
         h \in HubsOfSample(s), g \in Granularities}
      Members(key) == {s \in samples : key \in KeysOfSample(s)} IN
  {key @@ [bytes |-> BytesOf(Members(key)), optimized |-> OptimizedOf(Members(key))] :
   key \in UNION {KeysOfSample(s) : s \in samples}}

\* In tenths of a percent; of nothing, nothing was saved that could be told.
ApplySavingFormula(original, optimized) ==
  [saved |-> original - optimized,
   tenths |-> IF original > 0 THEN Round((original - optimized) * 1000, original) ELSE None]

-----------------------------------------------------------------------------
(* The traffic page. *)

Precedence == <<"device", "config", "user", "node", "category">>

\* The first filter that is given is applied, the others are named as ignored.
ResolvePrimaryDimension(filters) ==
  LET present == SelectSeq(Precedence, LAMBDA kind : filters[kind] # None) IN
  IF present = <<>> THEN [hub |-> SystemHub, ignored |-> {}]
  ELSE [hub |-> Hub(Head(present), filters[Head(present)]),
        ignored |-> {present[i] : i \in 2 .. Len(present)}]

GranularityFor(range) == IF range.end - range.start <= 72 * Hour THEN "HOUR" ELSE "DAY"

Volume(rows) ==
  [upload |-> BytesOf(Going(rows, "UPLOAD")), download |-> BytesOf(Going(rows, "DOWNLOAD")),
   total |-> BytesOf(rows), optimized |-> OptimizedOf(rows)]

FoldBuckets(rows) == [t \in {r.start : r \in rows} |-> Volume({r \in rows : r.start = t})]

\* How long a bucket is taken to last: until the next one, or as long as the one before it did.
BucketSeconds(starts, t, range) ==
  LET later == {s \in starts : s > t}
      earlier == {s \in starts : s < t} IN
  IF later # {} THEN Min(later) - t
  ELSE IF earlier # {} THEN t - Max(earlier)
  ELSE Max({1, range.end - Max({range.start, t})})

\* Rates are [bytes, seconds], and compared as quotients.
Faster(a, b) == a.bytes * b.seconds > b.bytes * a.seconds

PeakRate(series, range) ==
  LET rates == {[bytes |-> series[t].total, seconds |-> BucketSeconds(DOMAIN series, t, range)] : t \in DOMAIN series} IN
  IF rates = {} THEN None ELSE CHOOSE r \in rates : \A s \in rates : ~Faster(s, r)

Summarise(rows, series, range) ==
  LET volume == Volume(rows) IN
  [volume |-> volume,
   saving |-> IF volume.optimized = None THEN None ELSE ApplySavingFormula(volume.total, volume.optimized),
   peak |-> PeakRate(series, range),
   average |-> [bytes |-> volume.total, seconds |-> Max({1, range.end - range.start})]]

\* Unlike the series, the sums of the hubs are of every granularity and both directions.
ChannelBreakdown(rows, kind) ==
  LET sums == [hub \in HubsOf(rows, kind) |-> Volume(OfHub(rows, hub))] IN
  [hub \in {h \in DOMAIN sums : sums[h].total > 0 \/ sums[h].optimized # None} |-> sums[hub]]

QueryTraffic(rows, filters, direction, source, range) ==
  LET primary == ResolvePrimaryDimension(filters)
      found == Within(rows, range, source)
      shown == {r \in OfHub(found, primary.hub) :
                  r.granularity = GranularityFor(range) /\ direction \in {None, r.direction}}
      series == FoldBuckets(shown) IN
  [ignored |-> primary.ignored,
   series |-> series,
   summary |-> Summarise(shown, series, range),
   breakdown |-> [kind \in {"node", "device", "user", "category"} |-> ChannelBreakdown(found, kind)]]

-----------------------------------------------------------------------------
(* Consumers of a dimension, with the tenths of a percent each has of it. *)

Share(bytes, total) == IF total = 0 THEN None ELSE Round(bytes * 1000, total)

QueryConsumers(rows, kind, source, range) ==
  LET found == Within(rows, range, source)
      total == BytesOf({r \in found : r.hub.kind = kind}) IN
  [hub \in {h \in HubsOf(found, kind) : BytesOf(OfHub(found, h)) > 0} |->
     LET volume == Volume(OfHub(found, hub)) IN
     [bytes |-> volume.total,
      share |-> Share(volume.total, total),
      saving |-> IF volume.optimized = None THEN None ELSE ApplySavingFormula(volume.total, volume.optimized)]]

-----------------------------------------------------------------------------
(* The heatmap.  A cell is <<row, column>>. *)

HourOf(t) == t - (t % Hour)

CellOf(r, dim) ==
  CASE dim = "hour" -> <<Midnight(r.start), (r.start % Day) \div Hour>>
    [] dim = "day" -> <<Weekday(r.start \div Day), Midnight(r.start)>>
    [] OTHER -> <<r.hub.id, HourOf(r.start)>>

\* A level is relative to the cells that are shown.
Quantile(values, quarter) ==  \* values: what the cells hold, as a sequence in ascending order
  LET index == (quarter * Len(values)) \div 4 + 1 IN
  values[IF index > Len(values) THEN Len(values) ELSE index]

Ascending(cells) ==
  [i \in 1 .. Cardinality(DOMAIN cells) |->
     CHOOSE v \in {cells[c] : c \in DOMAIN cells} :
       /\ Cardinality({c \in DOMAIN cells : cells[c] < v}) < i
       /\ Cardinality({c \in DOMAIN cells : cells[c] <= v}) >= i]

LevelOf(value, cells) ==
  LET values == Ascending(cells) IN
  IF value <= Quantile(values, 1) THEN "low"
  ELSE IF value <= Quantile(values, 2) THEN "medium"
  ELSE IF value <= Quantile(values, 3) THEN "high"
  ELSE "peak"

\* Cells by the clock are of the hub that is asked for, or of the system's; the others are of
\* their own kind.  Rows of an hour and of a day meet in the cell of midnight.
TrafficHeatmap(rows, dim, hub, source, range) ==
  LET byClock == dim \in {"hour", "day"}
      found == {r \in Within(rows, range, source) :
                  /\ hub # None => r.hub = hub
                  /\ IF byClock THEN hub = None => r.hub = SystemHub ELSE r.hub.kind = dim}
      cells == [cell \in {CellOf(r, dim) : r \in found} |-> BytesOf({r \in found : CellOf(r, dim) = cell})] IN
  [cells |-> cells,
   levels |-> [cell \in DOMAIN cells |-> LevelOf(cells[cell], cells)],
   total |-> BytesOf(found)]

\* A click on a cell.  A cell that does not begin in the range, or that is of an entity, is
\* the whole range.
HeatmapCell(rows, dim, cell, range) ==
  LET start == CASE dim = "hour" -> cell[1] + cell[2] * Hour [] dim = "day" -> cell[2] [] OTHER -> range.start
      length == CASE dim = "hour" -> Hour [] dim = "day" -> Day [] OTHER -> range.end - range.start
      window == IF start < range.start \/ start > range.end THEN range ELSE Between(start, start + length)
      found == Within(rows, window, None)
      system == BytesOf(OfHub(found, SystemHub))
      Of(kind) == [h \in HubsOf(found, kind) |-> BytesOf(OfHub(found, h))] IN
  [total |-> IF system # 0 THEN system ELSE BytesOf({r \in found : r.hub.kind = "device"}),
   devices |-> Of("device"), nodes |-> Of("node"), users |-> Of("user")]

-----------------------------------------------------------------------------
(* The sentences of the insights. *)

Greatest(rows, kind) ==
  LET hubs == HubsOf(rows, kind) IN
  IF hubs = {} THEN None
  ELSE CHOOSE h \in hubs : \A other \in hubs : BytesOf(OfHub(rows, other)) <= BytesOf(OfHub(rows, h))

\* With a filter, the split of directions and the peak are of its hub and of every source; the
\* nodes are of all traffic.  The total is of every hub and granularity there is.
TrafficInsights(rows, hub, source, range) ==
  LET found == Within(rows, range, source)
      split == IF hub = None THEN found ELSE OfHub(Within(rows, range, None), hub)
      hours == {r \in IF hub = None THEN OfHub(found, SystemHub) ELSE split : r.granularity = "HOUR"}
      At(t) == BytesOf({r \in hours : r.start = t})
      busy == {t \in {r.start : r \in hours} : At(t) > 0}
      upload == BytesOf(Going(split, "UPLOAD")) IN
  IF BytesOf(split) = 0 THEN None
  ELSE [total |-> BytesOf(split),
        topDevice |-> IF hub = None THEN Greatest(found, "device")
                      ELSE IF OfHub(found, hub) = {} THEN None ELSE hub,
        topNode |-> Greatest(found, "node"),
        peak |-> IF busy = {} THEN None ELSE CHOOSE t \in busy : \A other \in busy : At(other) <= At(t),
        uploadHeavy |-> upload * 100 >= 60 * BytesOf(split),
        realOnly |-> source # "MOCK" /\ Within(rows, range, "REAL") # {}]

-----------------------------------------------------------------------------
(* The optimization page.  A record is [start, source, kind, original,      *)
(* optimized] and has a value, or None, for each thing to group by.         *)

TotalsOf(records) ==
  LET original == MapThenSumSet(LAMBDA r : r.original, records)
      optimized == MapThenSumSet(LAMBDA r : r.optimized, records) IN
  [original |-> original, optimized |-> optimized, saved |-> original - optimized,
   tenths |-> ApplySavingFormula(original, optimized).tenths]

Band(tenths) ==
  IF tenths = None THEN "UNKNOWN"
  ELSE IF tenths >= 300 THEN "HIGH" ELSE IF tenths >= 150 THEN "MODERATE"
  ELSE IF tenths > 0 THEN "LOW" ELSE "NONE"

Grouped(records, groupBy) ==
  [key \in {r[groupBy] : r \in records} |-> TotalsOf({r \in records : r[groupBy] = key})]

\* Estimates are shown as long as nothing at all was measured in the range.
OptimizationAnalytics(records, groupBy, minSample, source, range) ==
  LET rows == IF range = None THEN {} ELSE Within(records, range, source)
      measured == {r \in rows : r.kind = "MEASURED"}
      chosen == IF measured # {} THEN measured ELSE rows
      totals == TotalsOf(chosen)
      kind == IF chosen = {} \/ totals.original < minSample THEN "INSUFFICIENT_DATA"
              ELSE IF measured # {} THEN "MEASURED" ELSE "ESTIMATED" IN
  [kind |-> kind,
   totals |-> totals,
   percent |-> IF kind = "INSUFFICIENT_DATA" THEN None ELSE totals.tenths,
   series |-> Grouped(chosen, "start"),
   breakdown |-> Grouped(chosen, groupBy),
   bands |-> [c \in DOMAIN Grouped(chosen, "category") |-> Band(Grouped(chosen, "category")[c].tenths)]]

-----------------------------------------------------------------------------
(* The comparison of two profiles, by the devices that have them now.       *)

\* How long its sessions took is left out.
ProfileWindow(rows, sessions, devices, range) ==
  LET bytes == BytesOf({r \in Within(rows, range, None) : r.hub \in {Hub("device", d) : d \in devices}})
      begun == {s \in sessions : s.device \in devices /\ In(s.start, range)} IN
  IF devices = {} \/ (bytes = 0 /\ begun = {}) THEN None
  ELSE [bytes |-> bytes, sessions |-> Cardinality(begun)]

\* In tenths of a percent of a; the profile that is None is that of devices without one.
CompareOptimizationProfiles(rows, sessions, profileOf, a, b, device, range) ==
  LET Devices(profile) == IF device # None THEN {device}
                          ELSE {d \in DOMAIN profileOf : profileOf[d] = profile}
      Side(profile) == ProfileWindow(rows, sessions, Devices(profile), range)
      measurable == None \notin {Side(a), Side(b)} /\ Side(a).bytes > 0 /\ Side(b).bytes > 0 IN
  [a |-> Side(a), b |-> Side(b),
   data |-> IF measurable THEN Round((Side(b).bytes - Side(a).bytes) * 1000, Side(a).bytes) ELSE None]

-----------------------------------------------------------------------------
(* What a report says of traffic: all rows there are, whatever their hub.   *)

ReportTraffic(rows, range) ==
  LET found == Within(rows, range, None) IN
  IF found = {} THEN None ELSE [volume |-> Volume(found), mock |-> \E r \in found : r.source = "MOCK"]

\* What is saved is not below nothing, and rounded down, in hundredths of a percent.
ReportOptimization(rows, range) ==
  LET real == Within(rows, range, "REAL")
      raw == BytesOf(real)
      optimized == OptimizedOf(real) IN
  IF raw = 0 THEN None
  ELSE [raw |-> raw, optimized |-> optimized,
        reduction |-> IF optimized = None THEN None ELSE (Floor(raw - optimized) * 10000) \div raw]

\* Heartbeats that were kept, of the four an hour that are expected, in tenths of a percent.
HeartbeatCoverage(samples, range) ==
  LET expected == 4 * Max({Hour, range.end - range.start}) IN
  IF samples * Hour >= expected THEN 1000 ELSE Round(samples * 1000 * Hour, expected)
=============================================================================
