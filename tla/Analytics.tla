------------------------------ MODULE Analytics ------------------------------
(***************************************************************************)
(* What the viewer asks of the usage tables (db.rs, query_...).  Every     *)
(* query reads and changes nothing: each is an operator over the state of  *)
(* UsageStore, and the properties compare what two of them say of the same *)
(* time, or one of them with the slots that were really used.              *)
(*                                                                         *)
(* Polls belong to the system's own app, what the helper sends to the app  *)
(* of the others; both speak of the one interface.                         *)
(***************************************************************************)
EXTENDS UsageStore, Sequences

CONSTANTS
  LongRange,     \* the 72 hours beyond which a range is read from usage_hourly
  BaselineHours, \* the 30 days an hour is compared with
  MinReported    \* the megabyte an anomaly must exceed

ASSUME AnalyticsAssumption == {LongRange, BaselineHours, MinReported} \subseteq Nat

\* The two tables a query may read, an hour at its first slot.
RawRows == {[ts |-> r.ts, source |-> r.source, bytes |-> Bytes(r)] : r \in rows}

HourRows ==
  {[ts |-> o.hour * HourSlots, source |-> o.source, bytes |-> o.bytes] : o \in hourly}

Between(table, start, end, sources) ==
  {r \in table : start <= r.ts /\ r.ts < end /\ r.source \in sources}

Total(selected) == SumFunction([r \in selected |-> r.bytes])

Attributed == {"import", "helper"}

(***************************************************************************)
(* Overviews.                                                              *)
(***************************************************************************)
TableFor(start, end) == IF end - start > LongRange THEN HourRows ELSE RawRows

\* query_usage_summary, a total for every bucket that has rows.
UsageSummary(bucket, start, end) ==
  LET selected == Between(IF bucket >= HourSlots THEN HourRows ELSE RawRows,
                          start, end, Attributed)
      BucketOf(r) == (r.ts \div bucket) * bucket
  IN  [b \in {BucketOf(r) : r \in selected} |-> Total({r \in selected : BucketOf(r) = b})]

AppBreakdown(start, end) == Total(Between(TableFor(start, end), start, end, Attributed))

\* A mutant of InterfaceBreakdown: every source is added up.
InterfaceBreakdownOfAll(start, end) ==
  Total(Between(TableFor(start, end), start, end, Attributed \cup {"interface_poll"}))

InterfaceBreakdown(start, end) ==
  Total(Between(TableFor(start, end), start, end, {"interface_poll"}))

(***************************************************************************)
(* The heatmap.  rusqlite refuses a parameter that the statement does not  *)
(* name, and the statement names only the filters that were asked for,     *)
(* while all three are bound: there is an answer when all are given.       *)
(***************************************************************************)
Failed == {"failed"}

\* A mutant of HelperCutover: the latest row of the helper takes precedence.
HelperCutoverAtLast ==
  IF Rows("helper") = {} THEN {} ELSE {Max({r.ts : r \in Rows("helper")})}

HelperCutover ==
  IF Rows("helper") = {} THEN {} ELSE {Min({r.ts : r \in Rows("helper")})}

\* A mutant of HeatmapCell: the import has no cutover.
HeatmapCellUncut(o) == o.source \in Attributed

HeatmapCell(o) ==
  \/ o.source = "helper"
  \/ o.source = "import" /\ \A c \in HelperCutover : o.ts < c

Heatmap(filters, start, end) ==
  IF filters # {"app", "interface", "type"}
  THEN Failed
  ELSE {o \in Between(HourRows, start, end, Attributed) : HeatmapCell(o)}

(***************************************************************************)
(* The AFK audit of a window: the rows whose end lies in it.               *)
(***************************************************************************)
AuditRows(start, end) ==
  {r \in rows : /\ start <= r.ts /\ r.ts < end + 1
                /\ \/ r.source = "helper"
                   \/ r.source = "import" /\ \A c \in HelperCutover : r.ts < c}

(***************************************************************************)
(* The forecast: a line through the days that have usage, numbered without *)
(* the days that have none, is followed one day further for every day that *)
(* remains.  Both filters must be given, as for the heatmap.               *)
(***************************************************************************)
\* A mutant of Fit: the line starts at the mean, not below it.
FitThroughMean(data) ==
  LET n == Len(data)
      y == SumFunction(data)
      xy == SumFunction([i \in 1 .. n |-> (i - 1) * data[i]])
  IN  [slope |-> n * xy - y, start |-> y, unit |-> n]

\* Slope and start of the line, both in parts of unit.
Fit(data) ==
  LET n == Len(data)
      x == SumFunction([i \in 1 .. n |-> i - 1])
      y == SumFunction(data)
      xx == SumFunction([i \in 1 .. n |-> (i - 1) * (i - 1)])
      xy == SumFunction([i \in 1 .. n |-> (i - 1) * data[i]])
      denominator == n * xx - x * x
      m == n * xy - x * y
  IN  IF denominator = 0
      THEN [slope |-> 0, start |-> y, unit |-> n]
      ELSE [slope |-> n * m, start |-> y * denominator - m * x, unit |-> n * denominator]

\* A mutant of Projected: a falling line takes back what was used.
ProjectedBelowZero(data, soFar, daysRemaining) ==
  LET line == Fit(data)
  IN  soFar + ((line.slope * Len(data) + line.start) * daysRemaining) \div line.unit

Projected(data, soFar, daysRemaining) ==
  LET line == Fit(data)
      trended == line.slope * Len(data) + line.start
  IN  soFar + (Max({trended, 0}) * daysRemaining) \div line.unit

(***************************************************************************)
(* Anomalies: hours of an app beyond three sigma of its baseline, all in   *)
(* parts of the number of its rows.                                        *)
(***************************************************************************)
AppSources(app) == IF app = "system" THEN {"interface_poll"} ELSE Attributed

Baseline(app, start) ==
  Between(HourRows, start - BaselineHours * HourSlots, start, AppSources(app))

\* A mutant of Exceeds: a deviation counts on either side.
ExceedsEitherSide(total, baseline) ==
  LET n == Cardinality(baseline)
      sum == Total(baseline)
      squares == SumFunction([r \in baseline |-> r.bytes * r.bytes])
  IN  /\ n > 0
      /\ (n * total - sum) * (n * total - sum) > 9 * (n * squares - sum * sum)

Exceeds(total, baseline) ==
  LET n == Cardinality(baseline)
      sum == Total(baseline)
      squares == SumFunction([r \in baseline |-> r.bytes * r.bytes])
  IN  /\ n > 0
      /\ (n * total - sum) * (n * total - sum) > 9 * (n * squares - sum * sum)
      /\ n * total > sum
      /\ total > MinReported

Anomalies(app, start, end) ==
  LET data == Between(HourRows, start, end, AppSources(app))
      HourTotal(ts) == Total({r \in data : r.ts = ts})
  IN  {ts \in {r.ts : r \in data} : Exceeds(HourTotal(ts), Baseline(app, start))}

-----------------------------------------------------------------------------
Hours == Hour(Installed - Span) .. Hour(MaxTime)

Ranges ==
  {r \in {<<h * HourSlots, (k + 1) * HourSlots>> : h \in Hours, k \in Hours} : r[1] < r[2]}

\* Ranges of which nothing was deleted.
WholeRanges == {r \in Ranges : purged <= r[1]}

(***************************************************************************)
(* implementation-status.md, pre-aggregation of long ranges: once its      *)
(* hours are summed, a range read from the archive shows of each interface *)
(* what its hours show one by one, read from the rows.                     *)
(***************************************************************************)
BreakdownsAddUp ==
  \A range \in WholeRanges :
    range[2] <= (watermark + 1) * HourSlots =>
      InterfaceBreakdown(range[1], range[2]) =
        SumFunction([h \in {k \in Hours : range[1] <= k * HourSlots
                                             /\ k * HourSlots < range[2]} |->
                       InterfaceBreakdown(h * HourSlots, (h + 1) * HourSlots)])

(***************************************************************************)
(* The same range, drawn in coarse buckets or listed by app from the       *)
(* archive, never shows more than in the finest buckets: late rows are     *)
(* missing in the archive, but nothing is in it twice.                     *)
(***************************************************************************)
ArchiveShowsNoMore ==
  \A start \in {h * HourSlots : h \in Hours} :
    purged <= start =>
      LET coarse == UsageSummary(HourSlots, start, MaxTime + 1)
          fine == UsageSummary(1, start, MaxTime + 1)
          FineTotal(from, to) ==
            SumFunctionOnSet(fine, {b \in DOMAIN fine : from <= b /\ b < to})
      IN  /\ AppBreakdown(start, MaxTime + 1) <= FineTotal(start, MaxTime + 1)
          /\ \A b \in DOMAIN coarse : coarse[b] <= FineTotal(b, b + HourSlots)

(***************************************************************************)
(* README.md, source cutover: in the heatmap no hour of an import is added *)
(* to the same hour of the helper, but for the hour of the helper's first  *)
(* row, and hours whose rows retention deleted, which the cutover then     *)
(* forgets.                                                                *)
(***************************************************************************)
HeatmapCountsOnce ==
  \A o, q \in Heatmap({"app", "interface", "type"}, 0, MaxTime + 1) :
    o.source = "import" /\ q.source = "helper" /\ o.ts = q.ts =>
      o.ts < purged \/ \A c \in HelperCutover : Hour(c) = Hour(o.ts)

(***************************************************************************)
(* README.md, source cutover: the first row the helper pushes takes over   *)
(* from every import that does not end before it, and from then on the     *)
(* audit keeps to the source it has reported a time from.  An import it    *)
(* adds up stays, whatever is pushed late or again; one it leaves out comes*)
(* in only when retention has deleted every row of the helper that had     *)
(* ended by then, and never because of new rows.                           *)
(***************************************************************************)
Audited == AuditRows(0, MaxTime)

EarlierGone(r) ==
  \A h \in Rows("helper") : h.ts <= r.ts => h \notin rows' /\ h.ts < purged'

KeepsItsSource(r) ==
  IF Rows("helper") = {}
  THEN r \in Audited' <=> \A h \in Rows("helper")' : r.ts < h.ts
  ELSE IF r \in Audited THEN r \in Audited' ELSE r \in Audited' => EarlierGone(r)

AuditKeepsItsSources ==
  [][\A r \in Rows("import") : r \in rows' => KeepsItsSource(r)]_rows

(***************************************************************************)
(* What the audit's sources rest on: the loop pushes what it has collected *)
(* before it collects again, so that nothing it pushes ends before a row   *)
(* it has pushed.                                                          *)
(***************************************************************************)
PushesInTurn == helper # 0 => \A h \in Rows("helper") : h.ts <= helper

(***************************************************************************)
(* PRD, 3 sigma over a rolling baseline: an hour that is reported used     *)
(* more than every row of the baseline, as long as that has no more than   *)
(* ten rows.                                                               *)
(***************************************************************************)
AnomaliesStandOut ==
  \A app \in {"system", "other"}, start \in {h * HourSlots : h \in Hours} :
    LET baseline == Baseline(app, start)
    IN  Cardinality(baseline) <= 10 =>
          \A ts \in Anomalies(app, start, MaxTime + 1), b \in baseline :
            b.bytes < Total({o \in HourRows : o.ts = ts /\ o.source \in AppSources(app)})

-----------------------------------------------------------------------------
(***************************************************************************)
(* The forecast's arithmetic is compared with its definition for all short *)
(* samples.  No state enters it: TLC does so in the initial states only.   *)
(***************************************************************************)
Samples == UNION {[1 .. n -> 0 .. 3] : n \in 1 .. 3}

(***************************************************************************)
(* PRD US-09, linear regression: no line through whole points fits the     *)
(* days better than the one that is used.                                  *)
(***************************************************************************)
SquaredError(data, slope, start, unit) ==
  LET residual(i) == unit * data[i] - slope * (i - 1) - start
  IN  SumFunction([i \in DOMAIN data |-> residual(i) * residual(i)])

TrendIsLeastSquares ==
  Init =>
    \A data \in Samples, slope \in -3 .. 3, start \in -3 .. 6 :
      LET line == Fit(data)
      IN  SquaredError(data, line.slope, line.start, line.unit)
            <= SquaredError(data, line.unit * slope, line.unit * start, line.unit)

(***************************************************************************)
(* PRD US-09: use that grows or shrinks by the same amount every day is    *)
(* projected to go on so for the days that remain, and never to be given   *)
(* back.                                                                   *)
(***************************************************************************)
SteadyUseGoesOn ==
  Init =>
    \A n \in 2 .. 4, first \in 0 .. 6, step \in -2 .. 3, soFar \in {0, 5}, remaining \in 0 .. 3 :
      first + (n - 1) * step >= 0 =>
        Projected([i \in 1 .. n |-> first + (i - 1) * step], soFar, remaining)
          = soFar + remaining * Max({0, first + n * step})
=============================================================================
