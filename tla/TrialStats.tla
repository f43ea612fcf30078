------------------------------ MODULE TrialStats ------------------------------
(* The statistics of repeated trials (results/trials.go, regression.go).  xs   *)
(* gives each trial its duration; in what order they ran plays no part.  What  *)
(* the code computes in floating point is rational here, with the denominators *)
(* multiplied out, so that its epsilon for representation errors has no        *)
(* counterpart.                                                                *)
EXTENDS Integers, FiniteSets, Functions

Count(xs) == Cardinality(DOMAIN xs)

(* The k-th smallest: sorted[k - 1]. *)
Smallest(xs, k) ==
  CHOOSE x \in Range(xs) :
    /\ Cardinality({i \in DOMAIN xs : xs[i] < x}) < k
    /\ k <= Cardinality({i \in DOMAIN xs : xs[i] <= x})

(* median, doubled: of an even number the two in the middle. *)
MedianTwice(xs) == Smallest(xs, (Count(xs) + 1) \div 2) + Smallest(xs, Count(xs) \div 2 + 1)

(* The sample's standard deviation is more than percent of its mean. *)
Unstable(xs, percent) ==
  LET n       == Count(xs)
      total   == SumFunction(xs)
      squares == SumFunction([i \in DOMAIN xs |-> xs[i] * xs[i]])
  IN  n > 1 /\ n * (n * squares - total * total) * 10000 > percent * percent * (n - 1) * total * total

(* P(X <= i) <= 0.025 for X of Binomial(n, 1/2): of the 2^n ways in which n    *)
(* trials may fall on either side, those with at most i on the one.            *)
Ways(n, i) == Cardinality({below \in SUBSET (1..n) : Cardinality(below) <= i})
Unlikely(n, i) == 40 * Ways(n, i) <= 2 ^ n

(* Mutant: the rank, counted from 1, is taken for an index counted from 0. *)
MutantRank(n) ==
  LET ranks == {k \in 1..n : \A j \in 1..k : Unlikely(n, j - 1)}
  IN  IF n < 6 \/ ranks = {} THEN 0 ELSE 1 + CHOOSE k \in ranks : \A j \in ranks : j <= k

(* medianCIBounds: the interval is from the Rank-th smallest to the Rank-th    *)
(* largest; 0 if no rank will do.                                              *)
Rank(n) ==
  LET ranks == {k \in 1..n : \A j \in 1..k : Unlikely(n, j - 1)}
  IN  IF n < 6 \/ ranks = {} THEN 0 ELSE CHOOSE k \in ranks : \A j \in ranks : j <= k

IntervalLow(xs)  == Smallest(xs, Rank(Count(xs)))
IntervalHigh(xs) == Smallest(xs, Count(xs) + 1 - Rank(Count(xs)))

(* A difference is beyond a percentage of a (doubled) median. *)
Beyond(delta, percent, medianTwice) == 200 * delta > percent * medianTwice

(* EvaluateRegression, of the paired differences and the baseline's median. *)
RegressionVerdict(deltas, percent, medianTwice) ==
  IF percent <= 0 \/ medianTwice = 0 \/ Rank(Count(deltas)) = 0 THEN "not_assessed"
  ELSE IF Beyond(IntervalLow(deltas), percent, medianTwice) THEN "regression"
  ELSE IF ~Beyond(IntervalHigh(deltas), percent, medianTwice) THEN "pass"
  ELSE "inconclusive"
=============================================================================
