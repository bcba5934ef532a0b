------------------------------- MODULE Rankings -------------------------------
(***************************************************************************)
(* What the analyzers and internal/stats do with the values they collect:  *)
(* groups of values, lists cut at a limit, percentiles and time buckets.   *)
(***************************************************************************)
EXTENDS Integers, Sequences, FiniteSets, SequencesExt, TLC

SumOf(values) == FoldSeq(+, 0, values)

Cut(list, limit) == IF Len(list) > limit THEN SubSeq(list, 1, limit) ELSE list

-------------------------------------------------------------------------------
(* Sorting by a comparison: a value comes after those that precede it, and   *)
(* of two that compare equal the earlier one precedes, as sort.SliceStable   *)
(* has it.  sort.Slice leaves their order open; this is one it may choose.   *)
StableSort(list, Before(_, _)) ==
  LET n == Len(list)
      Precedes(i, j) == Before(list[i], list[j]) \/ (~Before(list[j], list[i]) /\ i < j)
      Place(i) == 1 + Cardinality({j \in 1..n : Precedes(j, i)})
      placed == {<<Place(i), list[i]>> : i \in 1..n}
  IN  [m \in 1..n |-> (CHOOSE p \in placed : p[1] = m)[2]]

-------------------------------------------------------------------------------
(* addGrouped, bucket.add, aggregate.add: an entry is a dimension, a key of  *)
(* it and the value to add; a group keeps every value, as the analyzers do.  *)

ValueOf(entries, g) == (CHOOSE x \in entries : <<x[1], x[2]>> = g)[3]

Added(groups, entries) ==
  LET new == {<<x[1], x[2]>> : x \in entries}
  IN  [g \in DOMAIN groups \cup new |->
         (IF g \in DOMAIN groups THEN groups[g] ELSE <<>>)
           \o (IF g \in new THEN <<ValueOf(entries, g)>> ELSE <<>>)]

(* The rows of a dimension: how many values they hold, and their sum.       *)
GroupsIn(groups, dim) == {g \in DOMAIN groups : g[1] = dim}
CountOf(groups, dim) == SumFunction([g \in GroupsIn(groups, dim) |-> Len(groups[g])])
TotalOf(groups, dim) == SumFunction([g \in GroupsIn(groups, dim) |-> SumOf(groups[g])])

-------------------------------------------------------------------------------
(* Percentiles of a nonempty sequence: the nearest rank, in the analyzers, ... *)
CeilDiv(a, b) == (a + b - 1) \div b

RankTooLow(percent, n) == (percent * n) \div 100 - 1
Rank(percent, n) == CeilDiv(percent * n, 100) - 1

NearestRank(values, percent) ==
  LET sorted == StableSort(values, <)
      n == Len(values)
      i == Rank(percent, n)
  IN  sorted[CASE i < 0 -> 1 [] i >= n -> n [] i \in 0..(n - 1) -> i + 1]

(* ... and in NumericStats the linear interpolation between two ranks, here *)
(* in hundredths.                                                           *)
Interpolated(values, percent) ==
  LET sorted == StableSort(values, <)
      rank == percent * (Len(values) - 1)
      lo == rank \div 100
      part == rank % 100
  IN  IF part = 0 THEN 100 * sorted[lo + 1]
      ELSE 100 * sorted[lo + 1] + part * (sorted[lo + 2] - sorted[lo + 1])

(* A row of the results, in hundredths for the percentiles of NumericStats. *)
Summary(values, interpolate) ==
  LET P(percent) == IF interpolate THEN Interpolated(values, percent)
                    ELSE NearestRank(values, percent)
      all == {values[i] : i \in DOMAIN values}
  IN  [count |-> Len(values),
       sum |-> SumOf(values),
       min |-> CHOOSE v \in all : \A w \in all : v <= w,
       max |-> CHOOSE v \in all : \A w \in all : v >= w,
       p50 |-> P(50), p95 |-> P(95), p99 |-> P(99)]

-------------------------------------------------------------------------------
(* Bucketer.Start, with the remainder of Go, which has the sign of nanos. *)
Remainder(nanos, step) == IF nanos >= 0 THEN nanos % step ELSE -((-nanos) % step)

BucketStart(nanos, step) ==
  LET start == nanos - Remainder(nanos, step)
  IN  IF nanos < 0 /\ Remainder(nanos, step) # 0 THEN start - step ELSE start
===============================================================================
