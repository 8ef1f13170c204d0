---------------------------- MODULE VSphereMetrics ----------------------------
(***************************************************************************)
(* The sample aggregation of the vsphere input                             *)
(* (src/plugins/inputs/vsphere/vsphere.go): min, max, sum and average over *)
(* a PerfMetricIntSeries, where vSphere marks a missing sample with -1,   *)
(* and the choice SetAcc makes by the rollup suffix of the metric name.   *)
(***************************************************************************)
EXTENDS Integers, Sequences, SequencesExt

CONSTANT NaNInt64   \* int64(math.Floor(NaN)) on the build's architecture

(* The rollup suffixes fmt.Sprint(perf.RollupType) can give.              *)
Rollups == {"average", "maximum", "minimum", "latest", "summation", "none"}

(* min: the least non-negative sample, -1 when there is none.              *)
MinSamples(n) ==
    FoldLeft(LAMBDA m, i : IF i >= 0 /\ (m = -1 \/ i < m) THEN i ELSE m, -1, n)

(* max: the greatest non-negative sample, -1 when there is none.           *)
MaxSamples(n) ==
    FoldLeft(LAMBDA m, i : IF i >= 0 /\ (m = -1 \/ i > m) THEN i ELSE m, -1, n)

(* sum: the total of the positive samples.                                 *)
SumSamples(n) == FoldLeft(LAMBDA t, i : IF i > 0 THEN t + i ELSE t, 0, n)

(* Mutant: the mean rounded down instead of to the nearest.               *)
AverageSamplesFloor(n) ==
    LET total == FoldLeft(LAMBDA t, i : IF i >= 0 THEN t + i ELSE t, 0, n)
        count == FoldLeft(LAMBDA c, i : IF i >= 0 THEN c + 1 ELSE c, 0, n)
    IN IF count = 0 THEN NaNInt64 ELSE total \div count

(***************************************************************************)
(* average: total and count of the non-negative samples, then             *)
(* int64(math.Floor(float64(total)/float64(count) + .5)).  The samples    *)
(* are small, so the float64 division is exact and the rounding is that   *)
(* of the integers; with no sample the division is 0/0 = NaN and its      *)
(* conversion is the architecture's.                                       *)
(***************************************************************************)
AverageSamples(n) ==
    LET total == FoldLeft(LAMBDA t, i : IF i >= 0 THEN t + i ELSE t, 0, n)
        count == FoldLeft(LAMBDA c, i : IF i >= 0 THEN c + 1 ELSE c, 0, n)
    IN IF count = 0 THEN NaNInt64 ELSE (2 * total + count) \div (2 * count)

(* The value SetAcc computes for a series, by the suffix of its metric.   *)
SeriesValue(rollup, n) ==
    CASE rollup = "average"   -> AverageSamples(n)
      [] rollup = "maximum"   -> MaxSamples(n)
      [] rollup = "minimum"   -> MinSamples(n)
      [] rollup = "latest"    -> n[Len(n)]
      [] rollup = "summation" -> SumSamples(n)
      [] OTHER                -> n[Len(n)]

-----------------------------------------------------------------------------
(***************************************************************************)
(* The reference: what each rollup means over the valid samples (the      *)
(* non-negative ones), stated without loops: the least and greatest      *)
(* valid sample (-1 without one), the total, the mean rounded half up,    *)
(* and the last sample.                                                    *)
(***************************************************************************)
Valid(n) == {k \in 1..Len(n) : n[k] >= 0}

RefValue(rollup, n) ==
    LET V == {n[k] : k \in Valid(n)}
        total == FoldFunction(+, 0, [k \in Valid(n) |-> n[k]])
        count == Cardinality(Valid(n))
    IN CASE rollup = "minimum"   -> IF V = {} THEN -1 ELSE Min(V)
         [] rollup = "maximum"   -> IF V = {} THEN -1 ELSE Max(V)
         [] rollup = "summation" -> total
         [] rollup = "average"   -> CHOOSE k \in 0..total :
                                      /\ 2 * count * k <= 2 * total + count
                                      /\ 2 * total + count < 2 * count * (k + 1)
         [] OTHER                -> Last(n)

=============================================================================
