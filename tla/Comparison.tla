------------------------------- MODULE Comparison -------------------------------
(***************************************************************************)
(* Comparing two overviews (internal/report/compare).  An overview has     *)
(* totals and sections, a section is a list of rows, and a row has a key,  *)
(* a count of events, their total duration and its 95th percentile, all of *)
(* them natural numbers.  Sections have the names the overview gives them. *)
(*                                                                         *)
(* Percentages are float64.  As long as a measure times a threshold stays  *)
(* below 2^49, rounding cannot carry one over a threshold it is not equal  *)
(* to; but one that is exactly the threshold may come out just below it.   *)
(***************************************************************************)
EXTENDS Rankings

CONSTANT RoundedDown   \* pairs <<delta, base>>: delta / base * 100 is rounded below its value

ASSUME RoundingAssumption == RoundedDown \subseteq Nat \X (Nat \ {0})

Sections == {"event_types", "users", "databases", "processes", "sql_rows",
             "scall_by_call", "web_requests", "session_by_event", "proc_by_process",
             "scom_by_operation", "licenses", "error_context_groups", "file_db_by_func"}

(* The sections the HTTP interface shows. *)
ApiSections == {"event_types", "time_buckets", "top_events", "traces", "sql_rows",
                "users", "databases", "processes", "contexts", "locks"}

DefaultThresholdPercent == 5

Aggregate(count, total, p95) == [count |-> count, total |-> total, p95 |-> p95]
NoAggregate == Aggregate(0, 0, 0)

IsMeasured(row) == row.count \in Nat /\ row.total \in Nat /\ row.p95 \in Nat
IsOverview(result) ==
  /\ IsMeasured(result.totals)
  /\ \A s \in Sections \cup ApiSections : result.rows[s] \in Seq(ToSet(result.rows[s]))
  /\ \A s \in Sections : \A row \in ToSet(result.rows[s]) : row.key \in Int /\ IsMeasured(row)

(* Options: regression and improvement thresholds of the total, of p95 and  *)
(* of the count, and the least change of the total that matters.            *)
Thresholds == {"regression", "improvement", "p95Regression", "p95Improvement",
               "countRegression", "countImprovement"}

(* What a request may set; 0 stands for what it leaves to the defaults. *)
OptionsWith(percent, minAbsolute) ==
  [regression |-> percent, improvement |-> percent, p95Regression |-> 0, p95Improvement |-> 0,
   countRegression |-> 0, countImprovement |-> 0, minAbsolute |-> minAbsolute]

ValidateOptions(o) == o.minAbsolute >= 0 /\ \A t \in Thresholds : o[t] >= 0

OrElse(percent, default) == IF percent = 0 THEN default ELSE percent

NormalizeOptions(o) ==
  LET up == OrElse(o.regression, DefaultThresholdPercent)
      down == OrElse(o.improvement, DefaultThresholdPercent)
  IN  [regression |-> up, improvement |-> down,
       p95Regression |-> OrElse(o.p95Regression, up),
       p95Improvement |-> OrElse(o.p95Improvement, down),
       countRegression |-> OrElse(o.countRegression, up),
       countImprovement |-> OrElse(o.countImprovement, down),
       minAbsolute |-> o.minAbsolute]

(* Invalid options are replaced by the defaults. *)
Effective(o) == NormalizeOptions(IF ValidateOptions(o) THEN o ELSE OptionsWith(0, 0))

-------------------------------------------------------------------------------
(* aggregateFrom..., errorGroupMap and sessionEventMap: error groups bring  *)
(* only their count, sessions no percentile.                                *)
AggregateOfTimed(section, row) == Aggregate(row.count, row.total, row.p95)

AggregateOf(section, row) ==
  CASE section = "error_context_groups" -> Aggregate(row.count, 0, 0)
    [] section = "session_by_event" -> Aggregate(row.count, row.total, 0)
    [] OTHER -> Aggregate(row.count, row.total, row.p95)

(* The map of a section: the last row of a key stays. *)
MapOf(section, rows) ==
  [key \in {rows[i].key : i \in DOMAIN rows} |->
     AggregateOf(section, rows[SelectLastInSeq(rows, LAMBDA row : row.key = key)])]

Reaches(delta, base, percent) ==
  \/ delta * 100 > percent * base
  \/ delta * 100 = percent * base /\ <<delta, base>> \notin RoundedDown

ClassifyMetric(base, current, regression, improvement, minAbsolute) ==
  LET size == IF current < base THEN base - current ELSE current - base
  IN  CASE size < minAbsolute \/ size = 0 -> "unchanged"
        [] size >= minAbsolute /\ size # 0 /\ base = 0 -> "regressed"
        [] size >= minAbsolute /\ base > 0 /\ current > base ->
             IF Reaches(size, base, regression) THEN "regressed" ELSE "unchanged"
        [] size >= minAbsolute /\ base > 0 /\ current < base ->
             IF Reaches(size, base, improvement) THEN "improved" ELSE "unchanged"

PerformanceClassification(duration, p95) ==
  CASE "regressed" \in {duration, p95} -> "regressed"
    [] "regressed" \notin {duration, p95} /\ "improved" \in {duration, p95} -> "improved"
    [] OTHER -> "unchanged"

AppendReason(reasons, reason) ==
  IF reason.class = "unchanged" THEN reasons ELSE Append(reasons, reason)

Reasons(classes) == FoldLeft(AppendReason, <<>>, classes)

CompareAggregate(key, base, current, o) ==
  LET total == ClassifyMetric(base.total, current.total, o.regression, o.improvement, o.minAbsolute)
      p95 == ClassifyMetric(base.p95, current.p95, o.p95Regression, o.p95Improvement, 0)
      count == ClassifyMetric(base.count, current.count, o.countRegression, o.countImprovement, 0)
      Change(class, reasons) ==
        [key |-> key, base |-> base, current |-> current, class |-> class, reasons |-> reasons]
      Row(class) == Change(class, <<[metric |-> "row", class |-> class]>>)
  IN  CASE base.count = 0 /\ current.count > 0 -> Row("new")
        [] base.count > 0 /\ current.count = 0 -> Row("removed")
        [] (base.count = 0) = (current.count = 0) ->
             Change(PerformanceClassification(total, p95),
                    Reasons(<<[metric |-> "duration_total", class |-> total],
                              [metric |-> "p95", class |-> p95],
                              [metric |-> "count", class |-> count]>>))

-------------------------------------------------------------------------------
ClassificationRank(class) ==
  CASE class = "new" -> 0
    [] class = "regressed" -> 1
    [] class = "removed" -> 2
    [] class = "improved" -> 3
    [] class = "unchanged" -> 4

Magnitude(change) ==
  LET delta == change.current.total - change.base.total
  IN  IF delta < 0 THEN -delta ELSE delta

ChangeBefore(a, b) ==
  LET ra == ClassificationRank(a.class)
      rb == ClassificationRank(b.class)
  IN  \/ ra < rb
      \/ ra = rb /\ Magnitude(a) > Magnitude(b)
      \/ ra = rb /\ Magnitude(a) = Magnitude(b) /\ a.key < b.key

CompareMaps(base, current, o) ==
  LET keys == DOMAIN base \cup DOMAIN current
      Of(map, key) == IF key \in DOMAIN map THEN map[key] ELSE NoAggregate
      ChangeOf(key) == CompareAggregate(key, Of(base, key), Of(current, key), o)
      Nth(i) == CHOOSE key \in keys : Cardinality({k \in keys : k < key}) = i - 1
  IN  StableSort([i \in 1..Cardinality(keys) |-> ChangeOf(Nth(i))], ChangeBefore)

Compare(base, current, options) ==
  LET o == Effective(options)
  IN  [totals |-> CompareAggregate("total", base.totals, current.totals, o),
       sections |-> [s \in Sections |->
          CompareMaps(MapOf(s, base.rows[s]), MapOf(s, current.rows[s]), o)]]
===============================================================================
