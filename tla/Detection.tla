------------------------------- MODULE Detection -------------------------------
(***************************************************************************)
(* What DetectionService makes of the stored events of one service: the    *)
(* newest events of the analysis window are counted in buckets, the last   *)
(* of which is the current one, and three detectors compare it with the    *)
(* baseline before it.                                                     *)
(*                                                                         *)
(* A table of events is a sequence in the order of their ids.  Ratios and  *)
(* the standard deviation are compared in exact integer arithmetic where   *)
(* the code computes floats: n is the number of baseline buckets, and both *)
(* sides are multiplied by n, or squared.                                  *)
(***************************************************************************)
EXTENDS Integers, Sequences, FiniteSets, Functions

CONSTANTS BucketSeconds,   \* detection_bucket_seconds
          BaselineBuckets, \* min_baseline_samples
          EventLimit,      \* limit of the query (100000)
          ZThreshold,      \* z_score_threshold
          EwmaThreshold,   \* ewma_drift_threshold
          EwmaTenths,      \* ewma_alpha, in tenths
          Multiplier,      \* signature_burst_multiplier
          Floor,           \* signature_burst_floor
          None

ASSUME DetectionAssumption ==
  /\ BucketSeconds \in Nat \ {0} /\ BaselineBuckets \in Nat \ {0}
  /\ EventLimit \in Nat \ {0} /\ Floor \in Nat \ {0}
  /\ Multiplier \in Nat /\ ZThreshold \in Nat /\ EwmaThreshold \in Nat
  /\ EwmaTenths \in 1..9

Current == BaselineBuckets + 1
Buckets == 1..Current
Window == Current * BucketSeconds
ErrorLevels == {"ERROR", "CRITICAL"}

(***************************************************************************)
(* EventRepository.list: the rows since an instant, newest first.          *)
(***************************************************************************)
Newer(events, m, n) ==
  \/ events[m].timestamp > events[n].timestamp
  \/ events[m].timestamp = events[n].timestamp /\ m > n

Since(events, instant) == {n \in DOMAIN events : events[n].timestamp >= instant}

\* Mutant: oldest first.
OldestSelected(events, now) ==
  LET rows == Since(events, now - Window)
  IN {n \in rows : Cardinality({m \in rows : Newer(events, n, m)}) < EventLimit}

Selected(events, now) ==
  LET rows == Since(events, now - Window)
  IN {n \in rows : Cardinality({m \in rows : Newer(events, m, n)}) < EventLimit}

(***************************************************************************)
(* _bucketize.  Events of the future count as current.                     *)
(***************************************************************************)
\* Mutant: an event one bucket old is current.
InclusiveBucket(timestamp, now) ==
  IF timestamp >= now THEN Current ELSE Current - ((now - timestamp - 1) \div BucketSeconds)

Bucket(timestamp, now) ==
  IF timestamp > now THEN Current ELSE Current - ((now - timestamp) \div BucketSeconds)

Series(events, rows, now) ==
  [b \in Buckets |-> Cardinality({n \in rows : Bucket(events[n].timestamp, now) = b})]

(***************************************************************************)
(* The detectors, over a series of counts.                                 *)
(***************************************************************************)
Baseline(series) == [b \in 1..BaselineBuckets |-> series[b]]
Sum(values) == SumFunction(values)
\* n * n * variance
Spread(values) ==
  BaselineBuckets * Sum([b \in DOMAIN values |-> values[b] * values[b]]) - Sum(values) * Sum(values)

\* Mutant: a drop is an anomaly as well.
TwoSidedZScore(series) ==
  LET values == Baseline(series)
      lead == BaselineBuckets * series[Current] - Sum(values)
  IN Spread(values) # 0 /\ lead * lead >= ZThreshold * ZThreshold * Spread(values)

\* (current - mean) / std >= threshold
ZScore(series) ==
  LET values == Baseline(series)
      lead == BaselineBuckets * series[Current] - Sum(values)
  IN /\ Spread(values) # 0
     /\ lead >= 0
     /\ lead * lead >= ZThreshold * ZThreshold * Spread(values)

\* The weighted mean of the values, a fraction: with every value the scale grows tenfold.
WeightedMean(values) ==
  LET mean[k \in 1..BaselineBuckets] ==
        IF k = 1 THEN [value |-> values[1], scale |-> 1]
        ELSE [value |-> EwmaTenths * values[k] * mean[k - 1].scale
                          + (10 - EwmaTenths) * mean[k - 1].value,
              scale |-> 10 * mean[k - 1].scale]
  IN mean[BaselineBuckets]

\* (current - ewma) / std >= threshold
Ewma(series) ==
  LET values == Baseline(series)
      mean == WeightedMean(values)
      lead == BaselineBuckets * (series[Current] * mean.scale - mean.value)
  IN /\ Spread(values) # 0
     /\ lead >= 0
     /\ lead * lead >= EwmaThreshold * EwmaThreshold * Spread(values) * mean.scale * mean.scale

\* Mutant: the multiple of the baseline alone.
BurstWithoutFloor(series) ==
  BaselineBuckets * series[Current] >= Multiplier * Sum(Baseline(series))

\* current >= max(multiplier * mean, floor)
SignatureBurst(series) ==
  /\ series[Current] >= Floor
  /\ BaselineBuckets * series[Current] >= Multiplier * Sum(Baseline(series))

(***************************************************************************)
(* analyze_service, before it looks for duplicates.                        *)
(***************************************************************************)
Errors(events, rows) == {n \in rows : events[n].level \in ErrorLevels}
WithSignature(events, rows, k) == {n \in rows : events[n].signature = k}

Signal(strategy, signature) == [strategy |-> strategy, signature |-> signature]

RateSignals(series) ==
  (IF ZScore(series) THEN {Signal("z_score", None)} ELSE {})
    \cup (IF Ewma(series) THEN {Signal("ewma", None)} ELSE {})

Detected(events, now) ==
  LET rows == Selected(events, now)
      bursts == {k \in {events[n].signature : n \in rows} :
                   SignatureBurst(Series(events, WithSignature(events, rows, k), now))}
  IN RateSignals(Series(events, Errors(events, rows), now))
       \cup {Signal("signature_frequency", k) : k \in bursts}
=============================================================================
