------------------------------- MODULE Stats -------------------------------
(***************************************************************************)
(* The statistics of include/benchmark.h: sums kept sample by sample, and  *)
(* mean, deviation and extremes computed from them, in doubles.            *)
(***************************************************************************)
EXTENDS Doubles

CONSTANTS Values,        \* the measured times
          MaxCount,      \* bound: number of samples
          Normal,        \* the least double with a full significand
          Least, Most,   \* samples that are not 0 lie between these
          Huge           \* 1e300

\* The number of samples is small beside the precision, and the samples and
\* their squares are neither so small nor so large as to leave the range.
ASSUME StatsAssumption ==
  /\ {MaxCount, Normal, Least, Most, Huge} \subseteq Nat \ {0}
  /\ 8 * (MaxCount + 1) * (MaxCount + 1) <= U
  /\ Values \subseteq Floats \cap ({0} \cup (Least..Most))
  /\ 2 * MaxCount * Normal <= Least
  /\ 2 * MaxCount * MaxCount * One * Normal <= Least * Least
  /\ 2 * MaxCount * Most <= Limit /\ 4 * MaxCount * Most * Most <= One * Limit
  /\ Most < Huge

\* Quotients by a count, and squares are rounded accurately; the sum of f and
\* x is rounded to a double no further off than f, which is one.
ASSUME RoundingAssumption ==
  /\ \A f \in Floats, d \in 1..MaxCount : f = 0 \/ d * Normal <= f => Accurate(f, d)
  /\ \A f \in Floats \cap (0..(2 * Most)) :
       f = 0 \/ (One * Normal <= f * f /\ f * f <= One * Limit) => Accurate(f * f, One)
  /\ \A f \in Floats, x \in Values \cup {Rounded(y * y, One) : y \in Values} :
       f + x <= Limit => Abs(Rounded(f + x, 1) - (f + x)) <= x

VARIABLES s,       \* the stats_t
          seen,    \* history: the samples added,
          total,   \* their exact sum,
          squares  \* and the exact sum of their squares, in units^2

statsVars == <<s, seen, total, squares>>

Plus(x, y) == Rounded(x + y, 1)
Times(x, y) == Rounded(x * y, One)

stats_init == /\ s = [sum |-> 0, sum_sq |-> 0, count |-> 0, min |-> Huge, max |-> -Huge]
              /\ seen = {} /\ total = 0 /\ squares = 0

\* Mutant of Squared: the sample itself is added up.
SquaredForgotten(x) == x

Squared(x) == Times(x, x)

\* Mutant of NewMax: "else if" instead of "if".
NewMaxElse(x) == IF x < s.min THEN s.max ELSE IF x > s.max THEN x ELSE s.max

NewMax(x) == IF x > s.max THEN x ELSE s.max

stats_add(x) == /\ s.count < MaxCount
                /\ s' = [sum    |-> Plus(s.sum, x),
                         sum_sq |-> Plus(s.sum_sq, Squared(x)),
                         count  |-> s.count + 1,
                         min    |-> IF x < s.min THEN x ELSE s.min,
                         max    |-> NewMax(x)]
                /\ seen' = seen \cup {x}
                /\ total' = total + x /\ squares' = squares + x * x

AllMeasured == s.count = MaxCount /\ UNCHANGED statsVars

StatsNext == (\E x \in Values : stats_add(x)) \/ AllMeasured

StatsSpec == stats_init /\ [][StatsNext]_statsVars

\* Mutant of stats_mean: divides by one less.
MeanOffByOne == IF s.count > 1 THEN Rounded(s.sum, s.count - 1) ELSE s.sum

stats_mean == IF s.count > 0 THEN Rounded(s.sum, s.count) ELSE 0

\* stats_stddev, before the square root is taken: the variance, or 0 when it
\* comes out negative or there are less than two samples.
Variance == LET ofSquares == Rounded(s.sum_sq, s.count)
                ofMean == Times(stats_mean, stats_mean)
            IN  IF s.count >= 2 /\ ofSquares > ofMean THEN Plus(ofSquares, -ofMean) ELSE 0
-----------------------------------------------------------------------------
\* min and max are those of the samples from the first one on, which has the
\* start values of stats_init to replace.
ExtremesExact == s.count > 0 =>
  /\ {s.min, s.max} \subseteq seen
  /\ \A x \in seen : s.min <= x /\ x <= s.max

\* The mean is off by no more than one rounding per sample: n/U of the exact
\* mean, and the rounding of that.
MeanAccurate ==
  Abs(s.count * stats_mean - total) * U * U <= s.count * (U + 1) * total

\* The variance is off by a share of the mean square, not of itself: that of
\* 3n + 4 roundings for n samples.  Samples that lie close together may come
\* out with no deviation at all, but never with the root of a negative number.
VarianceAccurate ==
  LET n == s.count
      exact == n * squares - total * total
  IN  /\ Variance >= 0
      /\ Abs(n * n * One * Variance - exact) * U <= (3 * n + 4) * n * squares
=============================================================================
