------------------------------ MODULE SynthProofs ------------------------------
(* Theorems about Synth, and so about Ingestion, which it is composed with. *)
EXTENDS Synth, Counting

(***************************************************************************)
(* What the query selects.                                                 *)
(***************************************************************************)
Table(t) == IsSequence(t) /\ \A n \in DOMAIN t : t[n].timestamp \in Int

NewerFirst(t) == {p \in (DOMAIN t) \X (DOMAIN t) : Newer(t, p[1], p[2])}

LEMMA RowsAreFinite ==
  ASSUME NEW t, Table(t), NEW rows \in SUBSET DOMAIN t
  PROVE  IsFiniteSet(rows) /\ Cardinality(rows) \in Nat /\ Cardinality(rows) <= Len(t)
  <1>1. Len(t) \in Nat /\ DOMAIN t = 1..Len(t)
    BY Shape DEF Table
  <1>2. IsFiniteSet(1..Len(t)) /\ Cardinality(1..Len(t)) = Len(t)
    BY <1>1, FS_Interval
  <1> QED
    BY <1>1, <1>2, FS_Subset, FS_CardinalityType

LEMMA NewerPairs ==
  ASSUME NEW t, NEW m \in DOMAIN t, NEW n \in DOMAIN t
  PROVE  <<m, n>> \in NewerFirst(t) <=> Newer(t, m, n)
  BY DEF NewerFirst

LEMMA NewerOrders ==
  ASSUME NEW t, Table(t), NEW rows \in SUBSET DOMAIN t
  PROVE  Orders(NewerFirst(t), rows)
  <1>1. DOMAIN t \subseteq Nat
    BY Shape DEF Table
  <1>2. \A m, n \in DOMAIN t : <<m, n>> \in NewerFirst(t) <=> Newer(t, m, n)
    BY NewerPairs
  <1>3. \A n \in DOMAIN t : ~ Newer(t, n, n)
    BY <1>1 DEF Table, Newer
  <1>4. \A m, n \in DOMAIN t : m = n \/ Newer(t, m, n) \/ Newer(t, n, m)
    BY <1>1 DEF Table, Newer
  <1>5. \A l, m, n \in DOMAIN t : Newer(t, l, m) /\ Newer(t, m, n) => Newer(t, l, n)
    BY <1>1 DEF Table, Newer
  <1>6. \A n \in rows : <<n, n>> \notin NewerFirst(t)
    BY <1>2, <1>3
  <1>7. \A m, n \in rows : m = n \/ <<m, n>> \in NewerFirst(t) \/ <<n, m>> \in NewerFirst(t)
    BY <1>2, <1>4
  <1>8. \A l, m, n \in rows :
          <<l, m>> \in NewerFirst(t) /\ <<m, n>> \in NewerFirst(t) => <<l, n>> \in NewerFirst(t)
    BY <1>2, <1>5
  <1> QED
    BY <1>6, <1>7, <1>8 DEF Orders

LEMMA SelectedIsFirst ==
  ASSUME NEW t, Table(t), NEW at \in Int
  PROVE  /\ Since(t, at - Window) \in SUBSET DOMAIN t
         /\ Selected(t, at) = FirstOf(NewerFirst(t), Since(t, at - Window), EventLimit)
         /\ Selected(t, at) \in SUBSET Since(t, at - Window)
  <1> DEFINE rows == Since(t, at - Window)
  <1>1. rows \in SUBSET DOMAIN t
    BY DEF Since
  <1>2. ASSUME NEW n \in rows
        PROVE  {m \in rows : Newer(t, m, n)} = Before(NewerFirst(t), rows, n)
    BY <1>1, NewerPairs DEF Before
  <1>3. Selected(t, at)
          = {n \in rows : Cardinality({m \in rows : Newer(t, m, n)}) < EventLimit}
    BY DEF Selected
  <1> HIDE DEF rows
  <1>4. \A n \in rows : Cardinality({m \in rows : Newer(t, m, n)})
                       = Cardinality(Before(NewerFirst(t), rows, n))
    BY <1>2
  <1>5. Selected(t, at) = FirstOf(NewerFirst(t), rows, EventLimit)
    BY <1>3, <1>4 DEF FirstOf
  <1> QED
    BY <1>1, <1>3, <1>5 DEF rows

\* Short of the limit nothing is cut.
LEMMA AllSelected ==
  ASSUME NEW t, Table(t), NEW at \in Int, Len(t) <= EventLimit
  PROVE  Selected(t, at) = Since(t, at - Window)
  <1> DEFINE rows == Since(t, at - Window)
             first == FirstOf(NewerFirst(t), rows, EventLimit)
  <1>1. rows \in SUBSET DOMAIN t /\ Selected(t, at) = first /\ first \in SUBSET rows
    BY SelectedIsFirst
  <1>2. IsFiniteSet(rows) /\ Cardinality(rows) \in Nat /\ Cardinality(rows) <= Len(t)
        /\ Cardinality(first) \in Nat /\ Len(t) \in Nat
    BY <1>1, RowsAreFinite, Shape DEF Table
  <1>3. Orders(NewerFirst(t), rows)
    BY <1>1, NewerOrders
  <1> HIDE DEF rows
  <1>4. Cardinality(first) = EventLimit \/ first = rows
    BY <1>2, <1>3, FirstOnes, DetectionAssumption
  <1> HIDE DEF first
  <1>5. Cardinality(first) <= Cardinality(rows)
    BY <1>1, <1>2, FS_Subset
  <1>6. first = rows
    <2>1. CASE Cardinality(first) = EventLimit
      <3>1. Cardinality(first) = Cardinality(rows)
        BY <1>2, <1>5, <2>1, DetectionAssumption
      <3> QED
        BY <1>1, <1>2, <3>1, FS_Subset
    <2> QED
      BY <1>4, <2>1
  <1> QED
    BY <1>1, <1>6 DEF rows

LEMMA CutsThePast ==
  ASSUME NEW t, Table(t), NEW at \in Int, NEW n \in Since(t, at - Window),
         n \notin Selected(t, at)
  PROVE  Cardinality({m \in Selected(t, at) : t[m].timestamp >= t[n].timestamp}) = EventLimit
  <1> DEFINE rows == Since(t, at - Window)
             first == FirstOf(NewerFirst(t), rows, EventLimit)
  <1>1. rows \in SUBSET DOMAIN t /\ Selected(t, at) = first /\ first \in SUBSET rows
    BY SelectedIsFirst
  <1>2. IsFiniteSet(rows) /\ Orders(NewerFirst(t), rows) /\ EventLimit \in Nat
    BY <1>1, RowsAreFinite, NewerOrders, DetectionAssumption
  <1>3. n \in rows /\ n \notin first
    BY <1>1
  <1> HIDE DEF rows
  <1>4. Cardinality(first) = EventLimit
    BY <1>2, <1>3, FirstOnes
  <1>5. \A m \in first : Newer(t, m, n)
    <2>1. \A m \in first : <<m, n>> \in NewerFirst(t)
      BY <1>2, <1>3, FirstBeforeRest
    <2> QED
      BY <2>1 DEF NewerFirst
  <1>6. \A m \in first : t[m].timestamp >= t[n].timestamp
    BY <1>1, <1>3, <1>5 DEF Newer, Table
  <1> HIDE DEF first
  <1>7. {m \in first : t[m].timestamp >= t[n].timestamp} = first
    BY <1>6
  <1> QED
    BY <1>1, <1>4, <1>7

(***************************************************************************)
(* The series.                                                             *)
(***************************************************************************)
Counts == [Buckets -> Nat]

LEMMA BucketTypes ==
  /\ Current \in Nat \ {0} /\ BaselineBuckets \in Nat \ {0} /\ Current = BaselineBuckets + 1
  /\ Buckets = 1..Current /\ 1..BaselineBuckets \subseteq Buckets
  /\ Window \in Nat /\ Window >= BucketSeconds
  <1>1. BaselineBuckets \in Nat \ {0} /\ BucketSeconds \in Nat \ {0}
    BY DetectionAssumption
  <1>2. Current \in Nat \ {0} /\ Current = BaselineBuckets + 1
    BY <1>1 DEF Current
  <1>3. Current * BucketSeconds = BaselineBuckets * BucketSeconds + BucketSeconds
        /\ BaselineBuckets * BucketSeconds \in Nat
    BY <1>1, <1>2
  <1> QED
    BY <1>1, <1>2, <1>3 DEF Buckets, Window

LEMMA CurrentBucket ==
  ASSUME NEW ts \in Int, NEW at \in Int
  PROVE  Bucket(ts, at) = Current <=> ts > at - BucketSeconds
  <1>1. BucketSeconds \in Nat \ {0} /\ Current \in Nat
    BY DetectionAssumption, BucketTypes
  <1>2. CASE ts > at
    BY <1>1, <1>2 DEF Bucket
  <1>3. CASE ~ (ts > at)
    <2> DEFINE age == at - ts
               q == age \div BucketSeconds
    <2>1. age \in Nat /\ q \in Int /\ Bucket(ts, at) = Current - q
      BY <1>1, <1>3 DEF Bucket
    <2>2. q * BucketSeconds <= age /\ age < (q + 1) * BucketSeconds
      BY <1>1, <2>1
    <2>3. age < BucketSeconds <=> ts > at - BucketSeconds
      BY <1>1
    <2> HIDE DEF age, q
    <2>4. ASSUME q = 0 PROVE age < BucketSeconds
      BY <1>1, <2>2, <2>4
    <2>5. ASSUME age < BucketSeconds PROVE q = 0
      <3>1. q * BucketSeconds < BucketSeconds /\ 0 < (q + 1) * BucketSeconds
        BY <1>1, <2>1, <2>2, <2>5
      <3>2. ~ (q >= 1)
        <4>1. q >= 1 => q * BucketSeconds >= BucketSeconds
          BY <1>1, <2>1
        <4> QED
          BY <1>1, <2>1, <3>1, <4>1
      <3>3. ~ (q + 1 <= 0)
        <4>1. q + 1 <= 0 => (q + 1) * BucketSeconds <= 0
          BY <1>1, <2>1
        <4> QED
          BY <1>1, <2>1, <3>1, <4>1
      <3> QED
        BY <2>1, <3>2, <3>3
    <2> QED
      BY <1>1, <2>1, <2>3, <2>4, <2>5
  <1> QED
    BY <1>2, <1>3

LEMMA SeriesType ==
  ASSUME NEW t, Table(t), NEW rows \in SUBSET DOMAIN t, NEW at \in Int
  PROVE  Series(t, rows, at) \in Counts
  <1>1. \A b \in Buckets :
          Cardinality({n \in rows : Bucket(t[n].timestamp, at) = b}) \in Nat
    <2> TAKE b \in Buckets
    <2>1. {n \in rows : Bucket(t[n].timestamp, at) = b} \in SUBSET DOMAIN t
      OBVIOUS
    <2> QED
      BY <2>1, RowsAreFinite
  <1> QED
    BY <1>1 DEF Series, Counts

\* What is counted as current is younger than one bucket.
LEMMA CurrentCount ==
  ASSUME NEW t, Table(t), NEW rows \in SUBSET DOMAIN t, NEW at \in Int
  PROVE  Series(t, rows, at)[Current]
           = Cardinality({n \in rows : t[n].timestamp > at - BucketSeconds})
  <1>1. {n \in rows : Bucket(t[n].timestamp, at) = Current}
          = {n \in rows : t[n].timestamp > at - BucketSeconds}
    BY CurrentBucket DEF Table
  <1>2. Current \in Buckets
    BY BucketTypes
  <1> QED
    BY <1>1, <1>2 DEF Series

(***************************************************************************)
(* The detectors.                                                          *)
(***************************************************************************)
LEMMA BaselineType ==
  ASSUME NEW series \in Counts
  PROVE  /\ Baseline(series) \in [1..BaselineBuckets -> Nat]
         /\ DOMAIN Baseline(series) = 1..BaselineBuckets
         /\ IsFiniteSet(1..BaselineBuckets)
         /\ series[Current] \in Nat
         /\ Sum(Baseline(series)) = SumFunctionOnSet(Baseline(series), 1..BaselineBuckets)
         /\ Sum(Baseline(series)) \in Nat
  <1> DEFINE values == Baseline(series)
  <1>1. values \in [1..BaselineBuckets -> Nat] /\ series[Current] \in Nat
    BY BucketTypes DEF Baseline, Counts
  <1> HIDE DEF values
  <1>2. IsFiniteSet(1..BaselineBuckets)
    BY BucketTypes, FS_Interval
  <1>3. Sum(values) = SumFunctionOnSet(values, 1..BaselineBuckets)
    BY <1>1 DEF Sum, SumFunction
  <1>4. \A b \in 1..BaselineBuckets : values[b] \in Nat /\ values[b] <= values[b]
    BY <1>1
  <1>5. Sum(values) \in Nat
    BY <1>2, <1>3, <1>4, SumsGrow
  <1> QED
    BY <1>1, <1>2, <1>3, <1>5 DEF values

LEMMA SpreadType ==
  ASSUME NEW values \in [1..BaselineBuckets -> Nat]
  PROVE  /\ Spread(values) \in Int
         /\ (\A b \in 1..BaselineBuckets : values[b] = 0) => Spread(values) = 0
  <1> DEFINE squares == [b \in 1..BaselineBuckets |-> values[b] * values[b]]
             total == SumFunctionOnSet(values, 1..BaselineBuckets)
             squared == SumFunctionOnSet(squares, 1..BaselineBuckets)
  <1>1. IsFiniteSet(1..BaselineBuckets) /\ BaselineBuckets \in Nat
    BY BucketTypes, FS_Interval
  <1>2. \A b \in 1..BaselineBuckets : values[b] \in Nat /\ squares[b] \in Nat
    OBVIOUS
  <1>3. Spread(values) = BaselineBuckets * squared - total * total
    BY DEF Spread, Sum, SumFunction
  <1>4. (\A b \in 1..BaselineBuckets : values[b] = 0)
          => \A b \in 1..BaselineBuckets : squares[b] = 0
    OBVIOUS
  <1>5. total \in Int /\ squared \in Int
    <2>1. \A b \in 1..BaselineBuckets : values[b] \in Int /\ squares[b] \in Int
      BY <1>2
    <2> HIDE DEF squares
    <2> QED
      BY <1>1, <2>1, SumSplits
  <1>6. (\A b \in 1..BaselineBuckets : values[b] = 0) => total = 0 /\ squared = 0
    <2> HIDE DEF squares
    <2> QED
      BY <1>1, <1>2, <1>4, SumIsZero
  <1> HIDE DEF total, squared
  <1> QED
    BY <1>1, <1>3, <1>5, <1>6

\* The equation that defines the weighted means of the first values.
Means(values, n, f) ==
  [k \in 1..n |->
     IF k = 1 THEN [value |-> values[1], scale |-> 1]
     ELSE [value |-> EwmaTenths * values[k] * f[k - 1].scale
                       + (10 - EwmaTenths) * f[k - 1].value,
           scale |-> 10 * f[k - 1].scale]]

LEMMA MeansExist ==
  ASSUME NEW values
  PROVE  \E f : f = Means(values, BaselineBuckets, f)
                /\ WeightedMean(values) = f[BaselineBuckets]
  <1> DEFINE T == {n \in Nat : \E f : f = Means(values, n, f)}
  <1>1. 0 \in T
    <2> DEFINE f == [k \in 1..0 |-> 0]
    <2>1. f = Means(values, 0, f)
      BY DEF Means
    <2> QED
      BY <2>1
  <1>2. ASSUME NEW n \in T PROVE n + 1 \in T
    <2>1. n \in Nat /\ \E f : f = Means(values, n, f)
      BY <1>2
    <2>2. PICK f : f = Means(values, n, f)
      BY <2>1
    <2> DEFINE g == Means(values, n + 1, f)
    <2>3. ASSUME NEW k \in 1..(n + 1), k # 1 PROVE g[k - 1] = f[k - 1]
      <3>1. k - 1 \in 1..n /\ k - 1 \in 1..(n + 1)
        BY <2>1, <2>3
      <3> DEFINE j == k - 1
      <3> HIDE DEF j
      <3>2. j \in 1..n /\ j \in 1..(n + 1)
        BY <3>1 DEF j
      <3>3. f[j] = Means(values, n, f)[j]
        BY <2>2
      <3>4. Means(values, n, f)[j] = g[j]
        BY <3>2 DEF Means
      <3> QED
        BY <3>3, <3>4 DEF j
    <2>4. g = Means(values, n + 1, g)
      BY <2>3 DEF Means
    <2> QED
      BY <2>1, <2>4
  <1> HIDE DEF T
  <1>3. BaselineBuckets \in T
    BY <1>1, <1>2, Climb, DetectionAssumption
  <1> DEFINE chosen == CHOOSE f : f = Means(values, BaselineBuckets, f)
  <1>4. chosen = Means(values, BaselineBuckets, chosen)
    BY <1>3 DEF T
  <1>5. WeightedMean(values) = chosen[BaselineBuckets]
    BY DEF WeightedMean, Means
  <1> QED
    BY <1>4, <1>5

\* A weighted mean of natural numbers is zero only when all of them are.
LEMMA MeanIsZero ==
  ASSUME NEW values \in [1..BaselineBuckets -> Nat]
  PROVE  /\ WeightedMean(values).value \in Nat
         /\ WeightedMean(values).scale \in Nat \ {0}
         /\ WeightedMean(values).value = 0 => \A b \in 1..BaselineBuckets : values[b] = 0
  <1>1. PICK f : /\ f = Means(values, BaselineBuckets, f)
                 /\ WeightedMean(values) = f[BaselineBuckets]
    BY MeansExist
  <1> DEFINE Fine(k) == /\ f[k].value \in Nat /\ f[k].scale \in Nat \ {0}
                        /\ f[k].value = 0 => \A b \in 1..k : values[b] = 0
             T == {n \in Nat : n \in 1..BaselineBuckets => Fine(n)}
  <1>2. 0 \in T
    OBVIOUS
  <1>3. ASSUME NEW n \in T PROVE n + 1 \in T
    <2>1. n \in Nat /\ (n \in 1..BaselineBuckets => Fine(n))
      BY <1>3
    <2>2. ASSUME n + 1 \in 1..BaselineBuckets PROVE Fine(n + 1)
      <3> DEFINE k == n + 1
      <3>0. k \in 1..BaselineBuckets /\ k - 1 = n /\ k \in Nat
        BY <2>1, <2>2
      <3> HIDE DEF k
      <3>1. f[k] = Means(values, BaselineBuckets, f)[k]
        BY <1>1
      <3>2. f[k] = IF k = 1 THEN [value |-> values[1], scale |-> 1]
                   ELSE [value |-> EwmaTenths * values[k] * f[n].scale
                                     + (10 - EwmaTenths) * f[n].value,
                         scale |-> 10 * f[n].scale]
        BY <3>0, <3>1 DEF Means
      <3>3. CASE k = 1
        <4>1. f[k].value = values[1] /\ f[k].scale = 1 /\ values[1] \in Nat
          BY <3>0, <3>2, <3>3
        <4>2. \A b \in 1..k : b = 1
          BY <3>3
        <4> QED
          BY <4>1, <4>2 DEF k
      <3>4. CASE k # 1
        <4>1. n \in 1..BaselineBuckets /\ Fine(n)
          BY <2>1, <3>0, <3>4, BucketTypes
        <4> DEFINE a == values[k]
                   v == f[n].value
                   s == f[n].scale
        <4>2. a \in Nat /\ v \in Nat /\ s \in Nat \ {0} /\ EwmaTenths \in 1..9
          BY <3>0, <4>1, DetectionAssumption
        <4>3. f[k].value = EwmaTenths * a * s + (10 - EwmaTenths) * v /\ f[k].scale = 10 * s
          BY <3>2, <3>4
        <4>4. v = 0 => \A b \in 1..n : values[b] = 0
          BY <4>1
        <4> DEFINE w == f[k].value
                   x == EwmaTenths * a * s
                   y == (10 - EwmaTenths) * v
        <4> HIDE DEF a, v, s
        <4>5. x \in Nat /\ x >= a /\ y \in Nat /\ y >= v
          <5>1. a * s \in Nat /\ a * s >= a
            BY <4>2
          <5>2. EwmaTenths * (a * s) >= a * s /\ EwmaTenths * (a * s) \in Nat
            BY <4>2, <5>1
          <5>3. EwmaTenths * a * s = EwmaTenths * (a * s)
            BY <4>2
          <5>4. y \in Nat /\ y >= v
            BY <4>2
          <5> QED
            BY <4>2, <5>1, <5>2, <5>3, <5>4
        <4>6. w = x + y /\ f[k].scale = 10 * s
          BY <4>3
        <4> HIDE DEF x, y, w
        <4>7. w \in Nat /\ f[k].scale \in Nat \ {0} /\ (w = 0 => a = 0 /\ v = 0)
          BY <4>2, <4>5, <4>6
        <4>8. w = 0 => \A b \in 1..k : values[b] = 0
          <5>1. \A b \in 1..k : b \in 1..n \/ b = k
            BY <3>0, <2>1
          <5> QED
            BY <4>4, <4>7, <5>1 DEF a
        <4> QED
          BY <4>7, <4>8 DEF w, k
      <3> QED
        BY <3>3, <3>4
    <2> QED
      BY <2>1, <2>2
  <1> HIDE DEF T
  <1>4. BaselineBuckets \in T
    BY <1>2, <1>3, Climb, DetectionAssumption
  <1>5. Fine(BaselineBuckets)
    BY <1>4, BucketTypes DEF T
  <1> QED
    BY <1>1, <1>5

\* Without an error in the current bucket no rate is anomalous.
LEMMA RateNeedsErrors ==
  ASSUME NEW series \in Counts, ZScore(series) \/ Ewma(series)
  PROVE  series[Current] > 0
  <1> SUFFICES ASSUME series[Current] = 0 PROVE FALSE
    BY BaselineType
  <1> DEFINE values == Baseline(series)
             total == Sum(values)
             mean == WeightedMean(values)
  <1>1. /\ values \in [1..BaselineBuckets -> Nat] /\ IsFiniteSet(1..BaselineBuckets)
        /\ total = SumFunctionOnSet(values, 1..BaselineBuckets) /\ total \in Nat
        /\ BaselineBuckets \in Nat \ {0}
    BY BaselineType, BucketTypes
  <1>2. Spread(values) # 0
    BY DEF ZScore, Ewma
  <1>3. CASE ZScore(series)
    <2>1. BaselineBuckets * 0 - total >= 0
      BY <1>3 DEF ZScore
    <2> HIDE DEF total, values
    <2>2. total = 0
      BY <1>1, <2>1
    <2>3. \A b \in 1..BaselineBuckets : values[b] = 0
      BY <1>1, <2>2, SumIsZero
    <2> QED
      BY <1>1, <1>2, <2>3, SpreadType
  <1>4. CASE Ewma(series)
    <2>1. BaselineBuckets * (0 * mean.scale - mean.value) >= 0
      BY <1>4 DEF Ewma
    <2> DEFINE v == mean.value
               s == mean.scale
    <2>2. v \in Nat /\ s \in Nat /\ (v = 0 => \A b \in 1..BaselineBuckets : values[b] = 0)
      BY <1>1, MeanIsZero
    <2>3. BaselineBuckets * (0 * s - v) >= 0
      BY <2>1
    <2> HIDE DEF v, s
    <2>4. 0 * s - v = 0 - v
      BY <2>2
    <2>5. v = 0
      BY <1>1, <2>2, <2>3, <2>4
    <2>6. \A b \in 1..BaselineBuckets : values[b] = 0
      BY <2>2, <2>5
    <2> QED
      BY <1>1, <1>2, <2>6, SpreadType
  <1> QED
    BY <1>3, <1>4

LEMMA SquaresGrow ==
  ASSUME NEW a \in Int, NEW b \in Int, 0 <= a, a <= b
  PROVE  a * a <= b * b
  <1>1. a * a <= a * b /\ a * b <= b * b
    OBVIOUS
  <1> QED
    BY <1>1

\* More in the current bucket alone keeps a detector firing.
LEMMA DetectorsKeepFiring ==
  ASSUME NEW series \in Counts, NEW more \in Counts,
         \A b \in 1..BaselineBuckets : more[b] = series[b], series[Current] <= more[Current]
  PROVE  /\ ZScore(series) => ZScore(more)
         /\ Ewma(series) => Ewma(more)
         /\ SignatureBurst(series) => SignatureBurst(more)
  <1> DEFINE values == Baseline(series)
             total == Sum(values)
             spread == Spread(values)
             mean == WeightedMean(values)
             old == series[Current]
             new == more[Current]
  <1>1. Baseline(more) = values
    BY DEF Baseline
  <1>2. /\ BaselineBuckets \in Nat \ {0} /\ old \in Nat /\ new \in Nat /\ old <= new
        /\ total \in Nat /\ spread \in Int
    BY BaselineType, SpreadType, BucketTypes
  <1>3. mean.value \in Nat /\ mean.scale \in Nat
    BY BaselineType, MeanIsZero
  <1>4. ASSUME NEW s \in Nat, NEW x \in Int
        PROVE  BaselineBuckets * (old * s) - x <= BaselineBuckets * (new * s) - x
    <2> HIDE DEF old, new
    <2>1. old * s <= new * s /\ old * s \in Nat /\ new * s \in Nat
      BY <1>2
    <2> DEFINE p == old * s
               q == new * s
    <2> HIDE DEF p, q
    <2>2. BaselineBuckets * p <= BaselineBuckets * q
      BY <1>2, <2>1 DEF p, q
    <2>3. BaselineBuckets * p \in Int /\ BaselineBuckets * q \in Int
      BY <1>2, <2>1 DEF p, q
    <2> QED
      BY <2>2, <2>3 DEF p, q
  <1>5. ASSUME ZScore(series) PROVE ZScore(more)
    <2> DEFINE a == BaselineBuckets * old - total
               b == BaselineBuckets * new - total
               bound == ZThreshold * ZThreshold * spread
    <2>1. spread # 0 /\ a >= 0 /\ a * a >= bound
      BY <1>5 DEF ZScore
    <2>2. a \in Int /\ b \in Int /\ bound \in Int /\ a <= b
      <3> HIDE DEF old, new, total, spread
      <3>1. BaselineBuckets * (old * 1) - total <= BaselineBuckets * (new * 1) - total
        BY <1>2, <1>4
      <3>2. old * 1 = old /\ new * 1 = new
        BY <1>2
      <3> QED
        BY <1>2, <3>1, <3>2, DetectionAssumption
    <2>3. b * b >= bound
      <3> HIDE DEF a, b, bound
      <3>1. a * a <= b * b
        BY <2>1, <2>2, SquaresGrow
      <3> QED
        BY <2>1, <2>2, <3>1
    <2>4. b >= 0
      <3> HIDE DEF a, b
      <3> QED
        BY <2>1, <2>2
    <2> QED
      BY <1>1, <2>1, <2>3, <2>4 DEF ZScore
  <1>6. ASSUME Ewma(series) PROVE Ewma(more)
    <2> DEFINE a == BaselineBuckets * (old * mean.scale - mean.value)
               b == BaselineBuckets * (new * mean.scale - mean.value)
               bound == EwmaThreshold * EwmaThreshold * spread * mean.scale * mean.scale
    <2>1. spread # 0 /\ a >= 0 /\ a * a >= bound
      BY <1>6 DEF Ewma
    <2> DEFINE s == mean.scale
               v == mean.value
    <2>2. s \in Nat /\ v \in Nat
      BY <1>3
    <2>3. a \in Int /\ b \in Int /\ bound \in Int /\ a <= b
      <3>1. a = BaselineBuckets * (old * s - v) /\ b = BaselineBuckets * (new * s - v)
            /\ bound = EwmaThreshold * EwmaThreshold * spread * s * s
        OBVIOUS
      <3> HIDE DEF a, b, bound, s, v, old, new, spread
      <3>2. old * s <= new * s /\ old * s \in Nat /\ new * s \in Nat
        BY <1>2, <2>2
      <3> DEFINE x == old * s - v
                 y == new * s - v
      <3>3. x \in Int /\ y \in Int /\ x <= y
        BY <2>2, <3>2
      <3> HIDE DEF x, y
      <3>4. BaselineBuckets * x <= BaselineBuckets * y
        BY <1>2, <3>3
      <3> QED
        BY <1>2, <2>2, <3>1, <3>3, <3>4, DetectionAssumption DEF x, y
    <2>4. b * b >= bound /\ b >= 0
      <3> HIDE DEF a, b, bound
      <3>1. a * a <= b * b
        BY <2>1, <2>3, SquaresGrow
      <3> QED
        BY <2>1, <2>3, <3>1
    <2> QED
      BY <1>1, <2>1, <2>4 DEF Ewma
  <1>7. ASSUME SignatureBurst(series) PROVE SignatureBurst(more)
    <2>1. old >= Floor /\ BaselineBuckets * old >= Multiplier * total
      BY <1>7 DEF SignatureBurst
    <2>2. Floor \in Nat /\ Multiplier \in Nat
      BY DetectionAssumption
    <2>3. new >= Floor /\ BaselineBuckets * new >= Multiplier * total
      <3> HIDE DEF old, new, total
      <3>1. BaselineBuckets * old <= BaselineBuckets * new
        BY <1>2
      <3> QED
        BY <1>2, <2>1, <2>2, <3>1
    <2> QED
      BY <1>1, <2>3 DEF SignatureBurst
  <1> QED
    BY <1>5, <1>6, <1>7

\* Enough events and nothing before them are a burst.
LEMMA FreshBurst ==
  ASSUME NEW series \in Counts, series[Current] >= Floor,
         \A b \in 1..BaselineBuckets : series[b] = 0
  PROVE  SignatureBurst(series)
  <1> DEFINE values == Baseline(series)
  <1>1. Sum(values) = 0
    <2>1. \A b \in 1..BaselineBuckets : values[b] = 0 /\ values[b] \in Nat
      BY DEF Baseline
    <2>2. /\ IsFiniteSet(1..BaselineBuckets)
          /\ Sum(values) = SumFunctionOnSet(values, 1..BaselineBuckets)
      BY BaselineType
    <2> HIDE DEF values
    <2> QED
      BY <2>1, <2>2, SumIsZero
  <1>2. BaselineBuckets * series[Current] \in Nat /\ Multiplier * 0 = 0
    BY BaselineType, BucketTypes, DetectionAssumption
  <1> QED
    BY <1>1, <1>2 DEF SignatureBurst

(***************************************************************************)
(* What is detected.                                                       *)
(***************************************************************************)
ErrorSeries(t, at) == Series(t, Errors(t, Selected(t, at)), at)
SignatureSeries(t, k, at) == Series(t, WithSignature(t, Selected(t, at), k), at)

LEMMA Detection ==
  ASSUME NEW t, NEW at
  PROVE  /\ \A s \in RateSignals(ErrorSeries(t, at)) : s \in Detected(t, at)
         /\ \A n \in Selected(t, at) :
              SignatureBurst(SignatureSeries(t, t[n].signature, at))
                => Signal("signature_frequency", t[n].signature) \in Detected(t, at)
         /\ \A s \in Detected(t, at) :
              \/ s \in RateSignals(ErrorSeries(t, at))
              \/ \E n \in Selected(t, at) :
                   /\ s = Signal("signature_frequency", t[n].signature)
                   /\ SignatureBurst(SignatureSeries(t, t[n].signature, at))
  BY DEF Detected, ErrorSeries, SignatureSeries

LEMMA SeriesTypes ==
  ASSUME NEW t, Table(t), NEW at \in Int
  PROVE  /\ Selected(t, at) \in SUBSET DOMAIN t
         /\ Errors(t, Selected(t, at)) \in SUBSET DOMAIN t
         /\ ErrorSeries(t, at) \in Counts
         /\ \A k : WithSignature(t, Selected(t, at), k) \in SUBSET DOMAIN t
         /\ \A k : SignatureSeries(t, k, at) \in Counts
  <1>1. Selected(t, at) \in SUBSET DOMAIN t
    BY SelectedIsFirst
  <1>2. Errors(t, Selected(t, at)) \in SUBSET DOMAIN t
        /\ \A k : WithSignature(t, Selected(t, at), k) \in SUBSET DOMAIN t
    BY <1>1 DEF Errors, WithSignature
  <1> QED
    BY <1>1, <1>2, SeriesType DEF ErrorSeries, SignatureSeries

Recent(t, instant) == {n \in DOMAIN t : t[n].timestamp > instant - BucketSeconds}

Evidence(t, signal, instant) ==
  IF signal.strategy = "signature_frequency"
  THEN Cardinality(WithSignature(t, Recent(t, instant), signal.signature)) >= Floor
  ELSE Errors(t, Recent(t, instant)) # {}

LEMMA DetectedHasEvidence ==
  ASSUME NEW t, Table(t), NEW at \in Int, NEW signal \in Detected(t, at)
  PROVE  Evidence(t, signal, at)
  <1>1. CASE signal \in RateSignals(ErrorSeries(t, at))
    <2> DEFINE rows == Errors(t, Selected(t, at))
               young == {n \in rows : t[n].timestamp > at - BucketSeconds}
    <2>1. signal.strategy \in {"z_score", "ewma"}
          /\ (ZScore(ErrorSeries(t, at)) \/ Ewma(ErrorSeries(t, at)))
      BY <1>1 DEF RateSignals, Signal
    <2>2. rows \in SUBSET DOMAIN t /\ Series(t, rows, at) \in Counts
      BY SeriesTypes DEF ErrorSeries
    <2>3. Series(t, rows, at)[Current] > 0
      BY <2>1, <2>2, RateNeedsErrors DEF ErrorSeries
    <2>4. Cardinality(young) > 0
      <3> HIDE DEF rows
      <3> QED
        BY <2>2, <2>3, CurrentCount
    <2>5. young # {}
      <3> HIDE DEF young
      <3> QED
        BY <2>4, FS_EmptySet
    <2>6. young \subseteq Errors(t, Recent(t, at))
      BY <2>2 DEF Errors, Recent
    <2> QED
      BY <2>1, <2>5, <2>6 DEF Evidence
  <1>2. ASSUME NEW k, signal = Signal("signature_frequency", k),
               SignatureBurst(SignatureSeries(t, k, at))
        PROVE  Evidence(t, signal, at)
    <2> DEFINE rows == WithSignature(t, Selected(t, at), k)
               young == {n \in rows : t[n].timestamp > at - BucketSeconds}
               all == WithSignature(t, Recent(t, at), k)
    <2>1. rows \in SUBSET DOMAIN t /\ all \in SUBSET DOMAIN t
      BY SeriesTypes DEF WithSignature, Recent
    <2>2. Series(t, rows, at)[Current] >= Floor
      BY <1>2 DEF SignatureBurst, SignatureSeries
    <2>3. young \in SUBSET all
      BY <2>1 DEF WithSignature, Recent
    <2> HIDE DEF rows, all
    <2>4. Cardinality(young) >= Floor
      BY <2>1, <2>2, CurrentCount
    <2>5. IsFiniteSet(all) /\ Cardinality(all) \in Nat /\ Cardinality(young) <= Cardinality(all)
          /\ Cardinality(young) \in Nat
      BY <2>1, <2>3, RowsAreFinite, FS_Subset, FS_CardinalityType
    <2>6. Cardinality(all) >= Floor
      BY <2>4, <2>5, DetectionAssumption
    <2> QED
      BY <1>2, <2>6 DEF Evidence, Signal, all
  <1> QED
    BY <1>1, <1>2, Detection

\* A table only grows, and evidence stays.
LEMMA EvidenceStays ==
  ASSUME NEW t, Table(t), NEW u, Table(u), DOMAIN t \subseteq DOMAIN u,
         \A n \in DOMAIN t : u[n] = t[n],
         NEW signal, NEW instant, Evidence(t, signal, instant)
  PROVE  Evidence(u, signal, instant)
  <1>1. Recent(t, instant) \subseteq Recent(u, instant) /\ Recent(t, instant) \subseteq DOMAIN t
    BY DEF Recent
  <1>2. CASE signal.strategy = "signature_frequency"
    <2> DEFINE old == WithSignature(t, Recent(t, instant), signal.signature)
               new == WithSignature(u, Recent(u, instant), signal.signature)
    <2>1. old \in SUBSET new /\ new \in SUBSET DOMAIN u
      BY <1>1 DEF WithSignature, Recent
    <2>2. Cardinality(old) >= Floor
      BY <1>2 DEF Evidence
    <2> HIDE DEF old, new
    <2>3. Cardinality(old) <= Cardinality(new) /\ Cardinality(new) \in Nat
          /\ Cardinality(old) \in Nat
      BY <2>1, RowsAreFinite, FS_Subset, FS_CardinalityType
    <2>4. Cardinality(new) >= Floor
      BY <2>2, <2>3, DetectionAssumption
    <2> QED
      BY <1>2, <2>4 DEF Evidence, new
  <1>3. CASE signal.strategy # "signature_frequency"
    BY <1>1, <1>3 DEF Evidence, Errors
  <1> QED
    BY <1>2, <1>3

\* Enough events of a signature, all recent, are detected as a burst.
LEMMA DetectsBurst ==
  ASSUME NEW t, Table(t), NEW at \in Int, NEW k, Len(t) <= EventLimit,
         Cardinality(WithSignature(t, DOMAIN t, k)) >= Floor,
         \A n \in WithSignature(t, DOMAIN t, k) : t[n].timestamp > at - BucketSeconds
  PROVE  Signal("signature_frequency", k) \in Detected(t, at)
  <1> DEFINE rows == WithSignature(t, DOMAIN t, k)
             mine == WithSignature(t, Selected(t, at), k)
             series == Series(t, mine, at)
  <1>1. Selected(t, at) = Since(t, at - Window)
    BY AllSelected
  <1>2. \A n \in rows : n \in DOMAIN t /\ t[n].timestamp \in Int /\ t[n].signature = k
                        /\ t[n].timestamp > at - BucketSeconds
    BY DEF WithSignature, Table
  <1>3. \A n \in rows : t[n].timestamp >= at - Window
    BY <1>2, BucketTypes, DetectionAssumption
  <1>4. mine = rows
    BY <1>1, <1>2, <1>3 DEF WithSignature, Since
  <1>5. rows \in SUBSET DOMAIN t
    BY DEF WithSignature
  <1>6. series \in Counts /\ series[Current] = Cardinality({n \in rows : t[n].timestamp > at - BucketSeconds})
    BY <1>4, <1>5, SeriesType, CurrentCount
  <1>7. {n \in rows : t[n].timestamp > at - BucketSeconds} = rows
    BY <1>2
  <1>8. \A b \in 1..BaselineBuckets : series[b] = 0
    <2> TAKE b \in 1..BaselineBuckets
    <2>1. b \in Buckets /\ b # Current
      BY BucketTypes
    <2> DEFINE there == {n \in rows : Bucket(t[n].timestamp, at) = b}
    <2>2. there = {}
      BY <1>2, <2>1, CurrentBucket
    <2>3. series[b] = Cardinality(there)
      BY <1>4, <2>1 DEF Series
    <2> HIDE DEF there, series
    <2> QED
      BY <2>2, <2>3, FS_EmptySet
  <1>9. SignatureBurst(series)
    BY <1>6, <1>7, <1>8, FreshBurst
  <1>10. \E n \in Selected(t, at) : t[n].signature = k
    <2>1. Cardinality(rows) >= Floor
      OBVIOUS
    <2>2. rows # {}
      <3> HIDE DEF rows
      <3>1. Floor \in Nat /\ ~ (0 >= Floor)
        BY DetectionAssumption
      <3> QED
        BY <2>1, <3>1, FS_EmptySet
    <2> QED
      BY <1>4, <2>2 DEF WithSignature
  <1> QED
    BY <1>9, <1>10, Detection DEF SignatureSeries

\* Rows that are added to the current bucket keep a detector firing.
LEMMA KeepsFiring ==
  ASSUME NEW t, Table(t), NEW u, Table(u), DOMAIN t \subseteq DOMAIN u,
         \A n \in DOMAIN t : u[n] = t[n], NEW at \in Int,
         NEW rows \in SUBSET DOMAIN t, NEW more \in SUBSET DOMAIN u, rows \subseteq more,
         \A n \in more \ rows : u[n].timestamp > at - BucketSeconds
  PROVE  /\ ZScore(Series(t, rows, at)) => ZScore(Series(u, more, at))
         /\ Ewma(Series(t, rows, at)) => Ewma(Series(u, more, at))
         /\ SignatureBurst(Series(t, rows, at)) => SignatureBurst(Series(u, more, at))
  <1> DEFINE old == Series(t, rows, at)
             new == Series(u, more, at)
             In(b) == {n \in rows : Bucket(t[n].timestamp, at) = b}
             After(b) == {n \in more : Bucket(u[n].timestamp, at) = b}
  <1>1. old \in Counts /\ new \in Counts
    BY SeriesType
  <1>2. \A b \in Buckets : old[b] = Cardinality(In(b)) /\ new[b] = Cardinality(After(b))
    BY DEF Series
  <1>3. \A n \in more \ rows : Bucket(u[n].timestamp, at) = Current
    BY CurrentBucket DEF Table
  <1>4. \A b \in 1..BaselineBuckets : new[b] = old[b]
    <2> TAKE b \in 1..BaselineBuckets
    <2>1. b \in Buckets /\ b # Current
      BY BucketTypes
    <2>2. In(b) = After(b)
      BY <1>3, <2>1
    <2> HIDE DEF In, After
    <2> QED
      BY <1>2, <2>1, <2>2
  <1>5. old[Current] <= new[Current]
    <2>1. In(Current) \in SUBSET After(Current) /\ After(Current) \in SUBSET DOMAIN u
      OBVIOUS
    <2>2. IsFiniteSet(After(Current))
      <3> HIDE DEF In, After
      <3> QED
        BY <2>1, RowsAreFinite
    <2>3. Cardinality(In(Current)) <= Cardinality(After(Current))
      <3> HIDE DEF In, After
      <3> QED
        BY <2>1, <2>2, FS_Subset
    <2>4. Current \in Buckets
      BY BucketTypes
    <2> HIDE DEF In, After
    <2> QED
      BY <1>2, <2>3, <2>4
  <1> HIDE DEF old, new
  <1>6. /\ ZScore(old) => ZScore(new)
        /\ Ewma(old) => Ewma(new)
        /\ SignatureBurst(old) => SignatureBurst(new)
    BY <1>1, <1>4, <1>5, DetectorsKeepFiring
  <1> QED
    BY <1>6 DEF old, new

\* One more error, just now and short of the limit, hides nothing.
LEMMA OneMoreError ==
  ASSUME NEW t, Table(t), NEW at \in Int, Len(t) < EventLimit,
         NEW e, e.level = "ERROR", e.timestamp = at
  PROVE  Detected(t, at) \subseteq Detected(Append(t, e), at)
  <1> DEFINE L == Len(t)
             u == Append(t, e)
  <1>1. L \in Nat /\ DOMAIN t = 1..L /\ t \in Seq(Range(t))
    BY Shape DEF Table, IsSequence
  <1>2. IsSequence(u)
    BY Appended DEF Table
  <1>3. DOMAIN u = 1..(L + 1) /\ Len(u) = L + 1 /\ u[L + 1] = e /\ \A n \in 1..L : u[n] = t[n]
    <2>1. t \in Seq(Range(t) \cup {e}) /\ e \in Range(t) \cup {e}
      BY <1>1, SeqMonotonic
    <2> QED
      BY <2>1, <1>1, AppendProperties
  <1> HIDE DEF L, u
  <1>4. Table(u) /\ DOMAIN t \subseteq DOMAIN u /\ \A n \in DOMAIN t : u[n] = t[n]
    BY <1>1, <1>2, <1>3 DEF Table
  <1>5. Len(u) <= EventLimit /\ L < EventLimit /\ L <= EventLimit
    BY <1>1, <1>3, DetectionAssumption DEF L
  <1>6. /\ Selected(t, at) = Since(t, at - Window)
        /\ Selected(u, at) = Since(u, at - Window)
    BY <1>4, <1>5, AllSelected DEF L
  <1>7. Selected(u, at) = Selected(t, at) \cup {L + 1}
    BY <1>1, <1>3, <1>6, BucketTypes DEF Since
  <1>8. Selected(t, at) \in SUBSET DOMAIN t /\ Selected(u, at) \in SUBSET DOMAIN u
    BY <1>4, SeriesTypes
  <1>9. at > at - BucketSeconds
    BY DetectionAssumption
  <1>10. RateSignals(ErrorSeries(t, at)) \subseteq RateSignals(ErrorSeries(u, at))
    <2> DEFINE rows == Errors(t, Selected(t, at))
               more == Errors(u, Selected(u, at))
    <2>1. rows \in SUBSET DOMAIN t /\ more \in SUBSET DOMAIN u
      BY <1>8 DEF Errors
    <2>2. rows \subseteq more /\ \A n \in more \ rows : u[n].timestamp > at - BucketSeconds
      BY <1>3, <1>4, <1>7, <1>8, <1>9 DEF Errors
    <2> HIDE DEF rows, more
    <2>3. /\ ZScore(Series(t, rows, at)) => ZScore(Series(u, more, at))
          /\ Ewma(Series(t, rows, at)) => Ewma(Series(u, more, at))
      BY <1>4, <2>1, <2>2, KeepsFiring
    <2> QED
      BY <2>3 DEF RateSignals, ErrorSeries, rows, more
  <1>11. ASSUME NEW k, SignatureBurst(SignatureSeries(t, k, at))
         PROVE  SignatureBurst(SignatureSeries(u, k, at))
    <2> DEFINE rows == WithSignature(t, Selected(t, at), k)
               more == WithSignature(u, Selected(u, at), k)
    <2>1. rows \in SUBSET DOMAIN t /\ more \in SUBSET DOMAIN u
      BY <1>8 DEF WithSignature
    <2>2. rows \subseteq more /\ \A n \in more \ rows : u[n].timestamp > at - BucketSeconds
      BY <1>3, <1>4, <1>7, <1>8, <1>9 DEF WithSignature
    <2> HIDE DEF rows, more
    <2>3. SignatureBurst(Series(t, rows, at)) => SignatureBurst(Series(u, more, at))
      BY <1>4, <2>1, <2>2, KeepsFiring
    <2> QED
      BY <1>11, <2>3 DEF SignatureSeries, rows, more
  <1>12. ASSUME NEW signal \in Detected(t, at) PROVE signal \in Detected(u, at)
    <2>1. CASE signal \in RateSignals(ErrorSeries(t, at))
      BY <1>10, <2>1, Detection
    <2>2. ASSUME NEW n \in Selected(t, at),
                 signal = Signal("signature_frequency", t[n].signature),
                 SignatureBurst(SignatureSeries(t, t[n].signature, at))
          PROVE  signal \in Detected(u, at)
      <3>1. n \in Selected(u, at) /\ u[n].signature = t[n].signature
        BY <1>4, <1>7, <1>8
      <3>2. SignatureBurst(SignatureSeries(u, u[n].signature, at))
        BY <1>11, <2>2, <3>1
      <3> QED
        BY <2>2, <3>1, <3>2, Detection
    <2> QED
      BY <2>1, <2>2, Detection
  <1> QED
    BY <1>12 DEF u

(***************************************************************************)
(* The batches of a script.                                                *)
(***************************************************************************)
\* A slice begins no later than one past the end.
LEMMA SliceBounds ==
  ASSUME NEW L \in Nat, NEW B \in Nat \ {0}, NEW C \in Int, C = (L + B - 1) \div B
  PROVE  C \in Nat /\ \A k \in 1..C : (k - 1) * B \in 0..(L - 1)
  <1>1. C * B <= L + B - 1 /\ L + B - 1 < (C + 1) * B
    OBVIOUS
  <1>2. C >= 0
    BY <1>1
  <1>3. ASSUME NEW k \in 1..C PROVE (k - 1) * B <= L - 1 /\ (k - 1) * B >= 0
    <2>1. k * B <= C * B
      BY <1>2
    <2>2. (k - 1) * B = k * B - B /\ (k - 1) * B \in Nat
      OBVIOUS
    <2>3. k * B \in Nat /\ C * B \in Int
      OBVIOUS
    <2> QED
      BY <1>1, <2>1, <2>2, <2>3
  <1> QED
    BY <1>2, <1>3

LEMMA ChunkCount ==
  ASSUME NEW items, IsSequence(items)
  PROVE  Len(chunked(items, BatchSize)) \in Nat
  <1> DEFINE C == (Len(items) + BatchSize - 1) \div BatchSize
  <1>1. Len(items) \in Nat /\ C \in Int
    BY Shape, BatchAssumption
  <1>2. C \in Nat
    BY <1>1, BatchAssumption, SliceBounds
  <1>3. Len(chunked(items, BatchSize)) = C
    BY <1>2 DEF chunked
  <1> QED
    BY <1>2, <1>3

LEMMA Chunks ==
  ASSUME NEW items, IsSequence(items), NEW k \in 1..Len(chunked(items, BatchSize))
  PROVE  /\ IsSequence(chunked(items, BatchSize)[k])
         /\ Range(chunked(items, BatchSize)[k]) \subseteq Range(items)
  <1> DEFINE L == Len(items)
             C == (L + BatchSize - 1) \div BatchSize
             first == (k - 1) * BatchSize
             last == IF k * BatchSize < L THEN k * BatchSize ELSE L
  <1>1. L \in Nat
    BY Shape
  <1>2. C \in Int
    BY <1>1, BatchAssumption
  <1>3. C \in Nat /\ \A j \in 1..C : (j - 1) * BatchSize \in 0..(L - 1)
    BY <1>1, <1>2, BatchAssumption, SliceBounds
  <1>4. Len(chunked(items, BatchSize)) = C
    BY <1>3 DEF chunked
  <1>5. chunked(items, BatchSize)[k] = SubSeq(items, first + 1, last)
    BY <1>4 DEF chunked
  <1>6. first \in 0..(L - 1)
    BY <1>3, <1>4
  <1>7. k * BatchSize = first + BatchSize
    BY <1>4, <1>3, BatchAssumption
  <1>8. first + 1 \in 1..(L + 1) /\ last \in first..L
    BY <1>1, <1>6, <1>7, BatchAssumption
  <1> HIDE DEF L, C, first, last
  <1>9. SubSeq(items, first + 1, last) \in Seq(Range(items))
    BY <1>8, SubSeqProperties DEF L, IsSequence
  <1> DEFINE u == SubSeq(items, first + 1, last)
  <1>10. DOMAIN u = 1..Len(u) /\ Len(u) \in Nat /\ u = [n \in 1..Len(u) |-> u[n]]
    BY <1>9, LenProperties
  <1> HIDE DEF u
  <1>11. IsSequence(u)
    BY <1>10, Mapped
  <1>12. Range(u) \subseteq Range(items)
    <2>1. \A n \in DOMAIN u : u[n] \in Range(items)
      BY <1>9, <1>10, ElementOfSeq DEF u
    <2> QED
      BY <2>1 DEF Range
  <1> QED
    BY <1>5, <1>11, <1>12 DEF u

\* Each batch is the next stretch of the script, and all but the last are full.
LEMMA ChunkParts ==
  ASSUME NEW items, IsSequence(items), NEW C, C = Len(chunked(items, BatchSize)),
         NEW k \in 1..C, NEW part, part = chunked(items, BatchSize)[k]
  PROVE  /\ Len(part) \in 0..BatchSize /\ DOMAIN part = 1..Len(part)
         /\ k < C => Len(part) = BatchSize
         /\ \A j \in DOMAIN part : /\ (k - 1) * BatchSize + j \in DOMAIN items
                                   /\ part[j] = items[(k - 1) * BatchSize + j]
  <1> DEFINE L == Len(items)
             D == (L + BatchSize - 1) \div BatchSize
             first == (k - 1) * BatchSize
             last == IF k * BatchSize < L THEN k * BatchSize ELSE L
  <1>1. L \in Nat /\ DOMAIN items = 1..L /\ BatchSize \in Nat \ {0}
    BY Shape, BatchAssumption
  <1>2. D \in Int
    BY <1>1
  <1>3. D \in Nat /\ \A j \in 1..D : (j - 1) * BatchSize \in 0..(L - 1)
    BY <1>1, <1>2, SliceBounds
  <1>4. C = D
    BY <1>3 DEF chunked
  <1>5. part = SubSeq(items, first + 1, last)
    BY <1>4 DEF chunked
  <1>6. first \in 0..(L - 1)
    BY <1>3, <1>4
  <1>7. k * BatchSize = first + BatchSize
    BY <1>4, <1>3, <1>1
  <1>8. first + 1 \in 1..(L + 1) /\ last \in first..L /\ last <= first + BatchSize
    BY <1>1, <1>6, <1>7
  <1>9. ASSUME k < C PROVE last = first + BatchSize
    <2>1. k + 1 \in 1..D /\ (k + 1) - 1 = k
      BY <1>3, <1>4, <1>9
    <2>2. k * BatchSize \in 0..(L - 1)
      <3>1. ((k + 1) - 1) * BatchSize \in 0..(L - 1)
        BY <1>3, <2>1
      <3> QED
        BY <2>1, <3>1
    <2> QED
      BY <1>1, <1>7, <2>2
  <1> HIDE DEF L, D, first, last
  <1>10. /\ part \in Seq(Range(items)) /\ Len(part) = last - first
         /\ \A j \in 1..(last - first) : part[j] = items[first + j]
    <2>1. /\ part \in Seq(Range(items))
          /\ Len(part) = IF first + 1 <= last THEN last - (first + 1) + 1 ELSE 0
          /\ \A j \in 1..(last - (first + 1) + 1) : part[j] = items[(first + 1) + j - 1]
      <3>1. first + 1 \in Int /\ last \in Int
        BY <1>1, <1>6, <1>8
      <3>2. \A i \in (first + 1)..last : items[i] \in Range(items)
        <4>1. (first + 1)..last \subseteq DOMAIN items
          BY <1>1, <1>6, <1>8
        <4> QED
          BY <4>1 DEF Range
      <3> QED
        BY <1>5, <3>1, <3>2, SubSeqProperties
    <2>2. first \in Int /\ last \in Int
      BY <1>6, <1>8
    <2>3. Len(part) = last - first /\ last - (first + 1) + 1 = last - first
      BY <1>8, <2>1, <2>2
    <2>4. \A j \in 1..(last - first) : (first + 1) + j - 1 = first + j
      BY <2>2
    <2> QED
      BY <2>1, <2>3, <2>4
  <1>11. DOMAIN part = 1..Len(part)
    BY <1>10, LenProperties
  <1>12. \A j \in 1..(last - first) : first + j \in 1..L
    BY <1>1, <1>6, <1>8
  <1>13. Len(part) \in 0..BatchSize /\ (k < C => Len(part) = BatchSize)
    BY <1>1, <1>6, <1>8, <1>9, <1>10
  <1> QED
    BY <1>1, <1>10, <1>11, <1>12, <1>13 DEF first

(***************************************************************************)
(* The inductive invariant.  What a call stored is one stretch of the      *)
(* table, as long as its batch, and the stages of its request, the status  *)
(* of the answer and what the caller knows agree with whether it is there. *)
(***************************************************************************)
Stretch(c) ==
  \E first \in Nat \ {0} : StoredBy(c) = first..(first + Len(batch[c]) - 1)

HasStored(c) == StoredBy(c) # {} /\ Stretch(c)

Typed ==
  /\ IsSequence(events)
  /\ client \in [Calls -> {"idle", "waiting", "created", "rejected", "error", "timeout"}]
  /\ server \in [Calls -> {"none", "stored", "analyse", "save", "analysed", "answered", "dead"}]
  /\ reply \in [Calls -> {201, 422, 500, None}]
  /\ DOMAIN batch = Calls
  /\ \A c \in Calls : IsSequence(batch[c])
  /\ IsSequence(script) /\ IsSequence(sending)

Agrees(c) ==
  /\ StoredBy(c) = {} \/ Stretch(c)
  /\ client[c] = "idle" => server[c] = "none"
  /\ server[c] = "none" => StoredBy(c) = {} /\ client[c] \in {"idle", "waiting", "timeout"}
  /\ server[c] \in {"stored", "analyse", "save", "analysed", "dead"} => StoredBy(c) # {}
  /\ server[c] = "analysed" => reply[c] = 201
  /\ server[c] = "answered" =>
       /\ reply[c] # None
       /\ reply[c] = 201 => StoredBy(c) # {}
       /\ reply[c] = 422 => StoredBy(c) = {}
  /\ client[c] = "created" => StoredBy(c) # {}
  /\ client[c] = "rejected" => StoredBy(c) = {}

SynthInv == Typed /\ \A c \in Calls : Agrees(c)

LEMMA InitSynth == ASSUME SynthInit PROVE SynthInv
  <1>1. IsSequence(<<>>)
    BY EmptySeq DEF IsSequence
  <1>2. Typed
    BY <1>1, ScriptAssumption DEF SynthInit, Init, Typed, IsSequence
  <1>3. ASSUME NEW c \in Calls PROVE Agrees(c)
    BY DEF SynthInit, Init, Agrees, StoredBy
  <1> QED
    BY <1>2, <1>3 DEF SynthInv

(***************************************************************************)
(* Steps that store nothing.                                               *)
(***************************************************************************)
LEMMA PostKeeps ==
  ASSUME SynthInv, NEW c \in Calls, NEW payload, IsSequence(payload), Post(c, payload),
         script' = script, IsSequence(sending')
  PROVE  SynthInv'
  <1> DEFINE sentNow == batch'[c]
  <1>1. sentNow = [n \in 1..Len(payload) |-> sentNow[n]] /\ Len(payload) \in Nat
    BY Shape DEF Post, SynthInv, Typed
  <1> HIDE DEF sentNow
  <1>2. IsSequence(sentNow)
    BY <1>1, Mapped
  <1>3. /\ batch' = [batch EXCEPT ![c] = batch'[c]] /\ IsSequence(batch'[c])
        /\ client[c] = "idle" /\ client' = [client EXCEPT ![c] = "waiting"]
        /\ UNCHANGED <<events, server, reply>>
    BY <1>2 DEF Post, SynthInv, Typed, requests, sentNow
  <1>4. Typed'
    BY <1>3 DEF SynthInv, Typed
  <1>5. ASSUME NEW d \in Calls PROVE Agrees(d)'
    <2>1. StoredBy(d)' = StoredBy(d)
      BY <1>3 DEF StoredBy
    <2>2. CASE d = c
      <3>1. StoredBy(c) = {} /\ server[c] = "none"
        BY <1>3 DEF SynthInv, Agrees
      <3> QED
        BY <1>3, <2>1, <2>2, <3>1 DEF SynthInv, Typed, Agrees
    <2>3. CASE d # c
      <3>1. /\ batch'[d] = batch[d] /\ client'[d] = client[d]
            /\ server'[d] = server[d] /\ reply'[d] = reply[d]
        BY <1>3, <2>3 DEF SynthInv, Typed
      <3>2. Stretch(d) => Stretch(d)'
        BY <2>1, <3>1 DEF Stretch
      <3> QED
        BY <2>1, <3>1, <3>2 DEF SynthInv, Agrees
    <2> QED
      BY <2>2, <2>3
  <1> QED
    BY <1>4, <1>5 DEF SynthInv

LEMMA QuietKeeps ==
  ASSUME SynthInv, events' = events, batch' = batch, Typed',
         \A c \in Calls : Agrees(c)' \/ UNCHANGED <<client[c], server[c], reply[c]>>
  PROVE  SynthInv'
  <1>1. ASSUME NEW c \in Calls, UNCHANGED <<client[c], server[c], reply[c]>> PROVE Agrees(c)'
    BY <1>1 DEF SynthInv, Agrees, StoredBy, Stretch
  <1> QED
    BY <1>1 DEF SynthInv

LEMMA AnswersAreStatuses ==
  ASSUME SynthInv, NEW c \in Calls, server[c] \in {"analysed", "answered"}
  PROVE  /\ Outcome(reply[c]) \in {"created", "rejected", "error"}
         /\ Outcome(reply[c]) = "created" => StoredBy(c) # {}
         /\ Outcome(reply[c]) = "rejected" => StoredBy(c) = {}
  <1>1. reply[c] \in {201, 422, 500}
    BY DEF SynthInv, Typed, Agrees
  <1>2. CASE reply[c] = 201
    BY <1>2 DEF Outcome, SynthInv, Agrees
  <1>3. CASE reply[c] = 422
    BY <1>3 DEF Outcome, SynthInv, Agrees
  <1>4. CASE reply[c] = 500
    BY <1>4 DEF Outcome
  <1> QED
    BY <1>1, <1>2, <1>3, <1>4

LEMMA DeliverKeeps ==
  ASSUME SynthInv, NEW c \in Calls, Deliver(c), UNCHANGED synth
  PROVE  SynthInv'
  <1>1. /\ client' = [client EXCEPT ![c] = client'[c]] /\ client'[c] = Outcome(reply[c])
        /\ client[c] = "waiting" /\ server[c] \in {"analysed", "answered"}
        /\ UNCHANGED <<events, batch, server, reply, script, sending>>
    BY DEF Deliver, SynthInv, Typed, requests, synth
  <1>2. /\ client'[c] \in {"created", "rejected", "error"}
        /\ client'[c] = "created" => StoredBy(c) # {}
        /\ client'[c] = "rejected" => StoredBy(c) = {}
    BY <1>1, AnswersAreStatuses
  <1>3. Typed'
    BY <1>1, <1>2 DEF SynthInv, Typed
  <1>4. Agrees(c)'
    BY <1>1, <1>2 DEF SynthInv, Agrees, StoredBy, Stretch
  <1>5. \A d \in Calls \ {c} : UNCHANGED <<client[d], server[d], reply[d]>>
    BY <1>1 DEF SynthInv, Typed
  <1> QED
    BY <1>1, <1>3, <1>4, <1>5, QuietKeeps

\* What the server, and a caller who gives up, may do to a call.
ServerMoves(c) ==
  \/ server[c] = "none" /\ server'[c] = "answered" /\ reply'[c] \in {422, 500}
  \/ server[c] = "stored" /\ server'[c] = "answered" /\ reply'[c] = 500
  \/ server[c] = "stored" /\ server'[c] = "analyse" /\ reply'[c] = reply[c]
  \/ server[c] = "analyse" /\ server'[c] = "save" /\ reply'[c] = reply[c]
  \/ server[c] \in {"analyse", "save"} /\ server'[c] \in {"analysed", "answered"} /\ reply'[c] = 201
  \/ server[c] \in {"stored", "analyse", "save"} /\ server'[c] = "dead" /\ reply'[c] = reply[c]

LEMMA ServerKeeps ==
  ASSUME SynthInv, NEW c \in Calls, ServerMoves(c), server[c] = "none" => client[c] # "idle",
         server' = [server EXCEPT ![c] = server'[c]], reply' = [reply EXCEPT ![c] = reply'[c]],
         UNCHANGED <<events, batch, client, script, sending>>
  PROVE  SynthInv'
  <1>1. Typed'
    BY NoneIsNoStatus DEF ServerMoves, SynthInv, Typed
  <1>2. Agrees(c)'
    <2>1. UNCHANGED <<StoredBy(c), Stretch(c), client[c]>>
      BY DEF StoredBy, Stretch
    <2>2. Agrees(c)
      BY DEF SynthInv
    <2>3. reply'[c] \in {201, 422, 500, None}
      BY <1>1 DEF Typed
    <2> QED
      BY <2>1, <2>2, <2>3, NoneIsNoStatus DEF ServerMoves, Agrees
  <1>3. \A d \in Calls \ {c} : UNCHANGED <<client[d], server[d], reply[d]>>
    BY DEF SynthInv, Typed
  <1> QED
    BY <1>1, <1>2, <1>3, QuietKeeps

LEMMA GiveUpKeeps ==
  ASSUME SynthInv, NEW c \in Calls, GiveUp(c), UNCHANGED synth
  PROVE  SynthInv'
  <1>1. /\ client' = [client EXCEPT ![c] = "timeout"] /\ client[c] = "waiting"
        /\ UNCHANGED <<events, batch, server, reply, script, sending>>
    BY DEF GiveUp, requests, synth
  <1>2. Typed'
    BY <1>1 DEF SynthInv, Typed
  <1>3. Agrees(c)'
    BY <1>1 DEF SynthInv, Typed, Agrees, StoredBy, Stretch
  <1>4. \A d \in Calls \ {c} : UNCHANGED <<client[d], server[d], reply[d]>>
    BY <1>1 DEF SynthInv, Typed
  <1> QED
    BY <1>1, <1>2, <1>3, <1>4, QuietKeeps

(***************************************************************************)
(* The step that stores: the table grows by the rows of one call.          *)
(***************************************************************************)
LEMMA StoreKeeps ==
  ASSUME SynthInv, NEW c \in Calls, Store(c), UNCHANGED synth
  PROVE  SynthInv'
  <1> DEFINE rows == Rows(c)
             m == Len(events)
             k == Len(batch[c])
  <1>1. /\ events' = events \o rows /\ server' = [server EXCEPT ![c] = "stored"]
        /\ server[c] = "none" /\ client[c] # "idle"
        /\ UNCHANGED <<batch, client, reply, script, sending>>
    BY DEF Store, Arrived, synth
  <1>2. m \in Nat /\ k \in Nat /\ k >= 1 /\ DOMAIN batch[c] = 1..k /\ DOMAIN events = 1..m
    BY Shape DEF Store, Acceptable, SynthInv, Typed
  <1>3. rows = [n \in 1..k |-> rows[n]] /\ \A n \in 1..k : rows[n].call = c
    BY <1>2 DEF Rows
  <1>4. IsSequence(rows) /\ Len(rows) = k /\ IsSequence(events)
    BY <1>2, <1>3, Mapped DEF SynthInv, Typed
  <1> HIDE DEF rows, m, k
  <1>5. /\ IsSequence(events') /\ DOMAIN events' = 1..(m + k)
        /\ \A n \in 1..m : events'[n] = events[n]
        /\ \A n \in (m + 1)..(m + k) : events'[n].call = c
    <2>1. /\ IsSequence(events') /\ DOMAIN events' = 1..(m + k)
          /\ \A n \in 1..m : events'[n] = events[n]
          /\ \A n \in (m + 1)..(m + k) : events'[n] = rows[n - m]
      BY <1>1, <1>4, Joined DEF m
    <2>2. \A n \in (m + 1)..(m + k) : n - m \in 1..k
      BY <1>2
    <2> QED
      BY <1>3, <2>1, <2>2
  <1>6. StoredBy(c)' = (m + 1)..(m + k)
    <2>1. StoredBy(c) = {}
      BY <1>1 DEF SynthInv, Agrees
    <2> QED
      BY <1>2, <1>5, <2>1 DEF StoredBy
  <1>7. \A d \in Calls \ {c} : StoredBy(d)' = StoredBy(d)
    BY <1>2, <1>5 DEF StoredBy
  <1>8. Typed'
    BY <1>1, <1>5 DEF SynthInv, Typed
  <1>9. Agrees(c)'
    <2>1. Stretch(c)'
      <3>1. batch'[c] = batch[c]
        BY <1>1
      <3>2. m + 1 \in Nat \ {0} /\ m + k = (m + 1) + k - 1
        BY <1>2
      <3> QED
        BY <1>6, <3>1, <3>2 DEF Stretch, k
    <2>2. StoredBy(c)' # {}
      BY <1>2, <1>6
    <2>3. server'[c] = "stored" /\ client'[c] = client[c] /\ client[c] \notin {"idle", "rejected"}
      BY <1>1 DEF SynthInv, Typed, Agrees
    <2> QED
      BY <2>1, <2>2, <2>3 DEF Agrees
  <1>10. ASSUME NEW d \in Calls \ {c} PROVE Agrees(d)'
    <2>1. /\ batch'[d] = batch[d] /\ client'[d] = client[d]
          /\ server'[d] = server[d] /\ reply'[d] = reply[d]
      BY <1>1 DEF SynthInv, Typed
    <2>2. StoredBy(d)' = StoredBy(d)
      BY <1>7
    <2>3. Stretch(d) => Stretch(d)'
      BY <2>1, <2>2 DEF Stretch
    <2> QED
      BY <2>1, <2>2, <2>3 DEF SynthInv, Agrees
  <1> QED
    BY <1>8, <1>9, <1>10 DEF SynthInv

LEMMA StepSynth == SynthInv /\ [SynthNext]_<<vars, synth>> => SynthInv'
  <1> SUFFICES ASSUME SynthInv, [SynthNext]_<<vars, synth>> PROVE SynthInv'
    OBVIOUS
  <1>1. CASE UNCHANGED <<vars, synth>>
    BY <1>1, QuietKeeps DEF vars, requests, synth, SynthInv, Typed
  <1>2. ASSUME NEW c \in Calls, SendBatch(c) PROVE SynthInv'
    <2>1. /\ Len(sending) \in Nat /\ Len(sending) < Len(chunked(script, BatchSize))
          /\ Post(c, chunked(script, BatchSize)[Len(sending) + 1])
          /\ script' = script /\ sending' = Append(sending, c)
      BY <1>2, Shape DEF SendBatch, SynthInv, Typed
    <2>2. IsSequence(script) /\ IsSequence(sending)
      BY DEF SynthInv, Typed
    <2>3. IsSequence(chunked(script, BatchSize)[Len(sending) + 1])
      <3>1. Len(chunked(script, BatchSize)) \in Nat
        BY <2>2, ChunkCount
      <3>2. Len(sending) + 1 \in 1..Len(chunked(script, BatchSize))
        BY <2>1, <3>1
      <3> QED
        BY <2>2, <3>2, Chunks
    <2>4. IsSequence(sending')
      BY <2>1, <2>2, Appended
    <2> QED
      BY <2>1, <2>3, <2>4, PostKeeps
  <1>3. CASE Next /\ UNCHANGED synth
    <2> USE <1>3 DEF synth
    <2>1. CASE Tick
      BY <2>1, QuietKeeps DEF Tick, requests, SynthInv, Typed
    <2>2. ASSUME NEW c \in Calls, NEW payload \in Payloads, Post(c, payload) PROVE SynthInv'
      <3>1. IsSequence(payload) /\ IsSequence(sending')
        BY PayloadAssumption DEF IsSequence, SynthInv, Typed
      <3> QED
        BY <2>2, <3>1, PostKeeps
    <2>3. ASSUME NEW c \in Calls, Deliver(c) PROVE SynthInv'
      BY <2>3, DeliverKeeps
    <2>4. ASSUME NEW c \in Calls, GiveUp(c) PROVE SynthInv'
      BY <2>4, GiveUpKeeps
    <2>5. ASSUME NEW c \in Calls, Store(c) PROVE SynthInv'
      BY <2>5, StoreKeeps
    <2>6. ASSUME NEW c \in Calls,
                 Reject(c) \/ IngestionFails(c) \/ ReadClock(c) \/ Analyse(c)
                   \/ SaveAnomalies(c) \/ PipelineFails(c) \/ Crash(c)
          PROVE  SynthInv'
      <3>1. UNCHANGED <<events, batch, client, script, sending>>
        BY <2>6 DEF Reject, IngestionFails, ReadClock, Analyse, SaveAnomalies, PipelineFails,
                    Crash
      <3>2. /\ server' = [server EXCEPT ![c] = server'[c]]
            /\ reply' = [reply EXCEPT ![c] = reply'[c]]
            /\ ServerMoves(c) /\ (server[c] = "none" => client[c] # "idle")
        <4>1. CASE Reject(c)
          BY <4>1 DEF Reject, Answer, Arrived, ServerMoves, SynthInv, Typed
        <4>2. CASE IngestionFails(c)
          BY <4>2 DEF IngestionFails, Answer, Arrived, ServerMoves, SynthInv, Typed
        <4>3. CASE ReadClock(c)
          BY <4>3 DEF ReadClock, ServerMoves, SynthInv, Typed
        <4>4. CASE Analyse(c)
          <5>1. CASE NewSignals(c) = {}
            BY <4>4, <5>1 DEF Analyse, Answer, ServerMoves, SynthInv, Typed
          <5>2. CASE NewSignals(c) # {}
            BY <4>4, <5>2 DEF Analyse, ServerMoves, SynthInv, Typed
          <5> QED
            BY <5>1, <5>2
        <4>5. CASE SaveAnomalies(c)
          BY <4>5 DEF SaveAnomalies, Answer, ServerMoves, SynthInv, Typed
        <4>6. CASE PipelineFails(c)
          BY <4>6 DEF PipelineFails, Answer, ServerMoves, SynthInv, Typed
        <4>7. CASE Crash(c)
          BY <4>7 DEF Crash, ServerMoves, SynthInv, Typed
        <4> QED
          BY <2>6, <4>1, <4>2, <4>3, <4>4, <4>5, <4>6, <4>7
      <3> QED
        BY <3>1, <3>2, ServerKeeps
    <2>7. CASE Quiescent
      BY <2>7, QuietKeeps DEF Quiescent, vars, requests, SynthInv, Typed
    <2> QED
      BY <2>1, <2>2, <2>3, <2>4, <2>5, <2>6, <2>7 DEF Next
  <1> QED
    BY <1>1, <1>2, <1>3 DEF SynthNext

(***************************************************************************)
(* What the analyses make of the table.  Rows are only added to it, so     *)
(* evidence stays; and of the overlapping calls that bring a burst the     *)
(* last one to analyse the table sees all of it.                           *)
(***************************************************************************)
Lags(items) == \A item \in Range(items) : item.lag \in Int

Timed ==
  /\ clock \in Int /\ Table(events) /\ now \in [Calls -> Int] /\ DOMAIN hits = Calls
  /\ \A n \in DOMAIN events : events[n].call \in Calls
  /\ \A c \in Calls : \A n \in DOMAIN batch[c] : batch[c][n].timestamp \in Int
  /\ Lags(script)

Justified ==
  /\ \A a \in anomalies : Evidence(events, a.signal, a.window_end)
  /\ \A c \in Calls : server[c] = "save" =>
       \A signal \in hits[c] : Evidence(events, signal, now[c])

Burst(k) == Signal("signature_frequency", k)
Of(k) == WithSignature(events, DOMAIN events, k)

\* The calls that brought events of signature k have all analysed the table, and
\* the events are enough for a burst, and recent for each of the analyses.
Complete(k) ==
  /\ Cardinality(Of(k)) >= Floor /\ Len(events) <= EventLimit
  /\ \A n \in Of(k) :
       /\ server[events[n].call] \in {"save", "analysed"}
       /\ \A m \in Of(k) : events[m].timestamp > now[events[n].call] - BucketSeconds

\* The burst is recorded, or one of them is about to.
Noticed(k) ==
  \/ \E a \in anomalies : a.signal = Burst(k)
  \/ \E n \in Of(k) : server[events[n].call] = "save" /\ Burst(k) \in hits[events[n].call]

AnalysisInv == Timed /\ Justified /\ \A k : Complete(k) => Noticed(k)

analysis == <<events, anomalies, server, now, hits>>

LEMMA InitAnalysis == ASSUME SynthInit PROVE AnalysisInv
  <1>1. IsSequence(<<>>)
    BY EmptySeq DEF IsSequence
  <1>2. Timed
    BY <1>1, ScriptAssumption DEF SynthInit, Init, Timed, Table, Lags
  <1>3. Justified
    BY DEF SynthInit, Init, Justified
  <1>4. ASSUME NEW k PROVE ~ Complete(k)
    <2> DEFINE rows == Of(k)
    <2>1. rows = {}
      BY DEF SynthInit, Init, Of, WithSignature
    <2> HIDE DEF rows
    <2>2. ~ (Cardinality(rows) >= Floor)
      <3>1. Floor \in Nat /\ ~ (0 >= Floor)
        BY DetectionAssumption
      <3> QED
        BY <2>1, <3>1, FS_EmptySet
    <2> QED
      BY <2>2 DEF Complete, rows
  <1> QED
    BY <1>2, <1>3, <1>4 DEF AnalysisInv

\* Steps the analysis does not notice.
LEMMA CallersKeepAnalysis ==
  ASSUME AnalysisInv, UNCHANGED analysis, Timed'
  PROVE  AnalysisInv'
  <1>1. Justified'
    BY DEF AnalysisInv, Justified, analysis, Evidence, WithSignature, Errors, Recent
  <1>2. \A k : Complete(k)' => Noticed(k)'
    BY DEF AnalysisInv, Complete, Noticed, analysis, Of, WithSignature
  <1> QED
    BY <1>1, <1>2 DEF AnalysisInv

\* A request that does not analyse the table is no reason to expect a burst.
LEMMA OthersKeepAnalysis ==
  ASSUME AnalysisInv, SynthInv, NEW c \in Calls, server' = [server EXCEPT ![c] = server'[c]],
         server'[c] \notin {"save", "analysed"}, now' = [now EXCEPT ![c] = now'[c]],
         Timed', UNCHANGED <<events, anomalies, hits>>
  PROVE  AnalysisInv'
  <1>1. \A d \in Calls \ {c} : server'[d] = server[d] /\ now'[d] = now[d]
    BY DEF AnalysisInv, Timed, SynthInv, Typed
  <1>2. Justified'
    <2>1. \A signal, instant : Evidence(events, signal, instant)' <=> Evidence(events, signal, instant)
      OBVIOUS
    <2> QED
      BY <1>1, <2>1 DEF AnalysisInv, Justified
  <1>3. ASSUME NEW k, Complete(k)' PROVE Noticed(k)'
    <2>1. Of(k)' = Of(k) /\ Of(k) \subseteq DOMAIN events
      BY DEF Of, WithSignature
    <2>2. \A n \in Of(k) : events[n].call \in Calls \ {c}
      BY <1>3, <2>1 DEF Complete, AnalysisInv, Timed
    <2>3. Complete(k)
      BY <1>1, <1>3, <2>1, <2>2 DEF Complete
    <2>4. Noticed(k)
      BY <2>3 DEF AnalysisInv
    <2> QED
      BY <1>1, <2>1, <2>2, <2>4 DEF Noticed
  <1> QED
    BY <1>2, <1>3 DEF AnalysisInv

LEMMA StoreKeepsAnalysis ==
  ASSUME AnalysisInv, SynthInv, NEW c \in Calls, Store(c), UNCHANGED synth
  PROVE  AnalysisInv'
  <1> DEFINE rows == Rows(c)
             m == Len(events)
             k == Len(batch[c])
  <1>1. /\ events' = events \o rows /\ server' = [server EXCEPT ![c] = "stored"]
        /\ UNCHANGED <<clock, batch, anomalies, now, hits, script>>
    BY DEF Store, synth
  <1>2. m \in Nat /\ k \in Nat /\ DOMAIN batch[c] = 1..k /\ DOMAIN events = 1..m
    BY Shape DEF SynthInv, Typed
  <1>3. /\ rows = [n \in 1..k |-> rows[n]]
        /\ \A n \in 1..k : rows[n].call = c /\ rows[n].timestamp \in Int
    BY <1>2 DEF Rows, AnalysisInv, Timed
  <1>4. IsSequence(rows) /\ Len(rows) = k /\ IsSequence(events)
    BY <1>2, <1>3, Mapped DEF SynthInv, Typed
  <1> HIDE DEF rows, k
  <1>5. /\ IsSequence(events') /\ DOMAIN events' = 1..(m + k)
        /\ \A n \in 1..m : events'[n] = events[n]
        /\ \A n \in (m + 1)..(m + k) : events'[n] = rows[n - m]
    BY <1>1, <1>4, Joined
  <1>6. \A n \in (m + 1)..(m + k) : events'[n].call = c /\ events'[n].timestamp \in Int
    <2>1. \A n \in (m + 1)..(m + k) : n - m \in 1..k
      BY <1>2
    <2> QED
      BY <1>3, <1>5, <2>1
  <1>7. Len(events') = m + k
    BY <1>2, <1>5, Shape
  <1> HIDE DEF m
  <1>8. DOMAIN events \subseteq DOMAIN events' /\ m <= m + k
        /\ \A n \in DOMAIN events' : n \in DOMAIN events \/ n \in (m + 1)..(m + k)
    BY <1>2, <1>5
  <1>9. Table(events') /\ \A n \in DOMAIN events : events'[n] = events[n]
    BY <1>2, <1>5, <1>6, <1>8 DEF Table, AnalysisInv, Timed
  <1>10. \A n \in DOMAIN events' : events'[n].call \in Calls
    BY <1>6, <1>8, <1>9 DEF AnalysisInv, Timed
  <1>11. Timed'
    BY <1>1, <1>9, <1>10 DEF AnalysisInv, Timed
  <1>12. \A d \in Calls \ {c} : server'[d] = server[d]
    BY <1>1 DEF SynthInv, Typed
  <1>13. server'[c] = "stored"
    BY <1>1 DEF SynthInv, Typed
  <1>14. Justified'
    <2>1. \A signal, instant :
            Evidence(events, signal, instant) => Evidence(events', signal, instant)
      <3> TAKE signal, instant
      <3> QED
        BY <1>8, <1>9, EvidenceStays DEF AnalysisInv, Timed
    <2>2. \A signal, instant : Evidence(events, signal, instant)' <=> Evidence(events', signal, instant)
      BY DEF Evidence, Errors, WithSignature, Recent
    <2> QED
      BY <1>1, <1>12, <1>13, <2>1, <2>2 DEF AnalysisInv, Justified
  <1>15. ASSUME NEW s, Complete(s)' PROVE Noticed(s)'
    <2>1. \A n \in Of(s)' : n \in DOMAIN events' /\ events'[n].signature = s
      BY DEF Of, WithSignature
    <2>2. \A n \in Of(s)' : events'[n].call # c
      BY <1>13, <1>15 DEF Complete
    <2>3. Of(s)' = Of(s)
      BY <1>6, <1>8, <1>9, <2>1, <2>2 DEF Of, WithSignature
    <2>4. \A n \in Of(s) : n \in DOMAIN events /\ events[n].call \in Calls \ {c}
                           /\ events'[n] = events[n]
      BY <1>9, <2>2, <2>3 DEF Of, WithSignature, AnalysisInv, Timed
    <2>5. Len(events) <= EventLimit
      <3>1. m + k <= EventLimit
        BY <1>7, <1>15 DEF Complete
      <3> QED
        BY <1>2, <3>1, DetectionAssumption DEF m
    <2>6. Complete(s)
      BY <1>1, <1>12, <1>15, <2>3, <2>4, <2>5 DEF Complete
    <2>7. Noticed(s)
      BY <2>6 DEF AnalysisInv
    <2> QED
      BY <1>1, <1>12, <2>3, <2>4, <2>7 DEF Noticed
  <1> QED
    BY <1>11, <1>14, <1>15 DEF AnalysisInv

\* The last of the calls to analyse the table sees every event of a burst.
LEMMA AnalyseKeepsAnalysis ==
  ASSUME AnalysisInv, SynthInv, NEW c \in Calls, Analyse(c), UNCHANGED synth
  PROVE  AnalysisInv'
  <1>1. /\ server[c] = "analyse" /\ UNCHANGED <<clock, events, anomalies, batch, now, script>>
        /\ hits' = [hits EXCEPT ![c] = NewSignals(c)]
        /\ server' = [server EXCEPT ![c] = IF NewSignals(c) = {} THEN "analysed" ELSE "save"]
    BY DEF Analyse, Answer, synth
  <1>2. /\ \A d \in Calls \ {c} : server'[d] = server[d] /\ hits'[d] = hits[d]
        /\ hits'[c] = NewSignals(c)
        /\ server'[c] = IF NewSignals(c) = {} THEN "analysed" ELSE "save"
        /\ DOMAIN hits' = Calls
    BY <1>1 DEF AnalysisInv, Timed, SynthInv, Typed
  <1>3. Timed'
    BY <1>1, <1>2 DEF AnalysisInv, Timed
  <1>4. Table(events) /\ now[c] \in Int
    BY DEF AnalysisInv, Timed
  <1>5. Justified'
    <2>1. \A signal \in NewSignals(c) : Evidence(events, signal, now[c])
      BY <1>4, DetectedHasEvidence DEF NewSignals
    <2>2. \A signal, instant : Evidence(events, signal, instant)' <=> Evidence(events, signal, instant)
      BY <1>1 DEF Evidence, Errors, WithSignature, Recent
    <2> QED
      BY <1>1, <1>2, <2>1, <2>2 DEF AnalysisInv, Justified
  <1>6. ASSUME NEW k, Complete(k)' PROVE Noticed(k)'
    <2>1. Of(k)' = Of(k) /\ \A n \in Of(k) : n \in DOMAIN events /\ events[n].call \in Calls
      BY <1>1 DEF Of, WithSignature, AnalysisInv, Timed
    <2>2. CASE \E n \in Of(k) : events[n].call = c
      <3>1. PICK n \in Of(k) : events[n].call = c
        BY <2>2
      <3>2. /\ Cardinality(Of(k)) >= Floor /\ Len(events) <= EventLimit
            /\ \A m \in Of(k) : events[m].timestamp > now[c] - BucketSeconds
        BY <1>1, <1>6, <2>1, <3>1 DEF Complete
      <3>3. Burst(k) \in Detected(events, now[c])
        BY <1>4, <3>2, DetectsBurst DEF Of, Burst
      <3>4. CASE IsDuplicate(Burst(k), now[c])
        BY <1>1, <3>4 DEF IsDuplicate, Noticed
      <3>5. CASE ~ IsDuplicate(Burst(k), now[c])
        <4>1. Burst(k) \in NewSignals(c)
          BY <3>3, <3>5 DEF NewSignals
        <4>2. server'[c] = "save" /\ Burst(k) \in hits'[c]
          BY <1>2, <4>1
        <4> QED
          BY <1>1, <2>1, <3>1, <4>2 DEF Noticed
      <3> QED
        BY <3>4, <3>5
    <2>3. CASE \A n \in Of(k) : events[n].call # c
      <3>1. Complete(k)
        BY <1>1, <1>2, <1>6, <2>1, <2>3 DEF Complete
      <3>2. Noticed(k)
        BY <3>1 DEF AnalysisInv
      <3> QED
        BY <1>1, <1>2, <2>1, <2>3, <3>2 DEF Noticed
    <2> QED
      BY <2>2, <2>3
  <1> QED
    BY <1>3, <1>5, <1>6 DEF AnalysisInv

LEMMA SaveKeepsAnalysis ==
  ASSUME AnalysisInv, SynthInv, NEW c \in Calls, SaveAnomalies(c), UNCHANGED synth
  PROVE  AnalysisInv'
  <1> DEFINE found == {[call |-> c, signal |-> signal, window_end |-> now[c]] : signal \in hits[c]}
  <1>1. /\ server[c] = "save" /\ server' = [server EXCEPT ![c] = "analysed"]
        /\ anomalies' = anomalies \cup found
        /\ UNCHANGED <<clock, events, batch, now, hits, script>>
    BY DEF SaveAnomalies, Answer, synth
  <1>2. server'[c] = "analysed" /\ \A d \in Calls \ {c} : server'[d] = server[d]
    BY <1>1 DEF SynthInv, Typed
  <1>3. Timed'
    BY <1>1 DEF AnalysisInv, Timed
  <1>4. Justified'
    <2>1. \A a \in found : Evidence(events, a.signal, a.window_end)
      BY <1>1 DEF AnalysisInv, Justified
    <2>2. \A signal, instant : Evidence(events, signal, instant)' <=> Evidence(events, signal, instant)
      BY <1>1 DEF Evidence, Errors, WithSignature, Recent
    <2> HIDE DEF found
    <2> QED
      BY <1>1, <1>2, <2>1, <2>2 DEF AnalysisInv, Justified
  <1>5. ASSUME NEW k, Complete(k)' PROVE Noticed(k)'
    <2>1. Of(k)' = Of(k) /\ \A n \in Of(k) : n \in DOMAIN events /\ events[n].call \in Calls
      BY <1>1 DEF Of, WithSignature, AnalysisInv, Timed
    <2>2. Complete(k)
      BY <1>1, <1>2, <1>5, <2>1 DEF Complete
    <2>3. CASE \E a \in anomalies : a.signal = Burst(k)
      BY <1>1, <2>3 DEF Noticed
    <2>4. ASSUME NEW n \in Of(k), server[events[n].call] = "save", Burst(k) \in hits[events[n].call]
          PROVE  Noticed(k)'
      <3>1. CASE events[n].call = c
        <4>1. [call |-> c, signal |-> Burst(k), window_end |-> now[c]] \in anomalies'
          BY <1>1, <2>4, <3>1
        <4> QED
          BY <4>1 DEF Noticed
      <3>2. CASE events[n].call # c
        BY <1>1, <1>2, <2>1, <2>4, <3>2 DEF Noticed
      <3> QED
        BY <3>1, <3>2
    <2> QED
      BY <2>2, <2>3, <2>4 DEF AnalysisInv, Noticed
  <1> QED
    BY <1>3, <1>4, <1>5 DEF AnalysisInv

\* The batches of a script are as far behind the clock as its events are.
LEMMA ChunkLags ==
  ASSUME NEW items, IsSequence(items), Lags(items), NEW k \in 1..Len(chunked(items, BatchSize))
  PROVE  Lags(chunked(items, BatchSize)[k])
  <1> DEFINE part == chunked(items, BatchSize)[k]
  <1>1. Range(part) \subseteq Range(items)
    BY Chunks
  <1> QED
    BY <1>1 DEF Lags

LEMMA PostKeepsTimes ==
  ASSUME AnalysisInv, SynthInv, NEW c \in Calls, NEW payload, Lags(payload), Post(c, payload),
         script' = script
  PROVE  AnalysisInv'
  <1>1. UNCHANGED <<analysis, clock>>
        /\ batch' = [batch EXCEPT ![c] = batch'[c]]
        /\ \A n \in DOMAIN batch'[c] : n \in DOMAIN payload
                                       /\ batch'[c][n].timestamp = clock - payload[n].lag
    BY DEF Post, analysis, requests, SynthInv, Typed
  <1>2. \A n \in DOMAIN payload : payload[n].lag \in Int
    BY DEF Lags, Range
  <1>3. \A d \in Calls : d # c => batch'[d] = batch[d]
    BY <1>1 DEF SynthInv, Typed
  <1>4. Timed'
    BY <1>1, <1>2, <1>3 DEF AnalysisInv, Timed, analysis
  <1> QED
    BY <1>1, <1>4, CallersKeepAnalysis

LEMMA StepAnalysis == AnalysisInv /\ SynthInv /\ [SynthNext]_<<vars, synth>> => AnalysisInv'
  <1> SUFFICES ASSUME AnalysisInv, SynthInv, [SynthNext]_<<vars, synth>> PROVE AnalysisInv'
    OBVIOUS
  <1>1. CASE UNCHANGED <<vars, synth>>
    <2>1. Timed' /\ UNCHANGED analysis
      BY <1>1 DEF vars, requests, synth, AnalysisInv, Timed, analysis
    <2> QED
      BY <2>1, CallersKeepAnalysis
  <1>2. ASSUME NEW c \in Calls, SendBatch(c) PROVE AnalysisInv'
    <2>1. /\ Len(sending) \in Nat /\ Len(sending) < Len(chunked(script, BatchSize))
          /\ Post(c, chunked(script, BatchSize)[Len(sending) + 1]) /\ script' = script
      BY <1>2, Shape DEF SendBatch, SynthInv, Typed
    <2>2. IsSequence(script) /\ Lags(script)
      BY DEF SynthInv, Typed, AnalysisInv, Timed
    <2>3. Len(sending) + 1 \in 1..Len(chunked(script, BatchSize))
      BY <2>1, <2>2, ChunkCount
    <2>4. Lags(chunked(script, BatchSize)[Len(sending) + 1])
      BY <2>2, <2>3, ChunkLags
    <2> QED
      BY <2>1, <2>4, PostKeepsTimes
  <1>3. CASE Next /\ UNCHANGED synth
    <2>1. CASE Tick
      <3>1. Timed' /\ UNCHANGED analysis
        BY <1>3, <2>1 DEF Tick, requests, synth, AnalysisInv, Timed, analysis
      <3> QED
        BY <3>1, CallersKeepAnalysis
    <2>2. ASSUME NEW c \in Calls, NEW payload \in Payloads, Post(c, payload) PROVE AnalysisInv'
      BY <1>3, <2>2, PayloadAssumption, PostKeepsTimes DEF Lags, synth
    <2>3. ASSUME NEW c \in Calls, Deliver(c) \/ GiveUp(c) PROVE AnalysisInv'
      <3>1. Timed' /\ UNCHANGED analysis
        BY <1>3, <2>3 DEF Deliver, GiveUp, requests, synth, AnalysisInv, Timed, analysis
      <3> QED
        BY <3>1, CallersKeepAnalysis
    <2>4. ASSUME NEW c \in Calls, Store(c) PROVE AnalysisInv'
      BY <1>3, <2>4, StoreKeepsAnalysis
    <2>5. ASSUME NEW c \in Calls,
                 Reject(c) \/ IngestionFails(c) \/ ReadClock(c) \/ PipelineFails(c) \/ Crash(c)
          PROVE  AnalysisInv'
      <3>1. /\ server' = [server EXCEPT ![c] = server'[c]]
            /\ server'[c] \notin {"save", "analysed"}
            /\ now' = [now EXCEPT ![c] = now'[c]] /\ (now'[c] = now[c] \/ now'[c] = clock)
            /\ UNCHANGED <<clock, events, anomalies, batch, hits, script>>
        <4>1. CASE Reject(c)
          BY <1>3, <4>1 DEF Reject, Answer, synth, SynthInv, Typed, AnalysisInv, Timed
        <4>2. CASE IngestionFails(c)
          BY <1>3, <4>2 DEF IngestionFails, Answer, synth, SynthInv, Typed, AnalysisInv, Timed
        <4>3. CASE ReadClock(c)
          BY <1>3, <4>3 DEF ReadClock, synth, SynthInv, Typed, AnalysisInv, Timed
        <4>4. CASE PipelineFails(c)
          BY <1>3, <4>4 DEF PipelineFails, Answer, synth, SynthInv, Typed, AnalysisInv, Timed
        <4>5. CASE Crash(c)
          BY <1>3, <4>5 DEF Crash, synth, SynthInv, Typed, AnalysisInv, Timed
        <4> QED
          BY <2>5, <4>1, <4>2, <4>3, <4>4, <4>5
      <3>2. Timed'
        BY <3>1 DEF AnalysisInv, Timed
      <3> QED
        BY <3>1, <3>2, OthersKeepAnalysis
    <2>6. ASSUME NEW c \in Calls, Analyse(c) PROVE AnalysisInv'
      BY <1>3, <2>6, AnalyseKeepsAnalysis
    <2>7. ASSUME NEW c \in Calls, SaveAnomalies(c) PROVE AnalysisInv'
      BY <1>3, <2>7, SaveKeepsAnalysis
    <2>8. CASE Quiescent
      <3>1. Timed' /\ UNCHANGED analysis
        BY <1>3, <2>8 DEF Quiescent, vars, requests, synth, AnalysisInv, Timed, analysis
      <3> QED
        BY <3>1, CallersKeepAnalysis
    <2> QED
      BY <1>3, <2>1, <2>2, <2>3, <2>4, <2>5, <2>6, <2>7, <2>8 DEF Next
  <1> QED
    BY <1>1, <1>2, <1>3 DEF SynthNext

(***************************************************************************)
(* What the table holds of the script.  The calls before the last one are  *)
(* created, so their batches are stored, and stored before the next is     *)
(* sent; only the rows of the last call may be missing.                    *)
(***************************************************************************)
ChunksOf == Len(chunked(script, BatchSize))
Chunk(k) == chunked(script, BatchSize)[k]

Copies(items, part) ==
  /\ DOMAIN items = DOMAIN part
  /\ \A n \in DOMAIN part : /\ items[n].signature = part[n].signature
                            /\ items[n].level = part[n].level

\* The first batches of the script, each in a call of its own.
Sends ==
  /\ Len(sending) <= ChunksOf
  /\ \A k \in DOMAIN sending :
       /\ sending[k] \in Calls /\ client[sending[k]] # "idle"
       /\ k < Len(sending) => Created(k)
       /\ Copies(batch[sending[k]], Chunk(k))
  /\ \A j, k \in DOMAIN sending : sending[j] = sending[k] => j = k

StoredOfLast == IF sending = <<>> THEN 0 ELSE Cardinality(StoredBy(sending[Len(sending)]))
StoredBefore == IF sending = <<>> THEN 0 ELSE (Len(sending) - 1) * BatchSize

FromScript(row, item) == row.signature = item.signature /\ row.level = Level(item.level)

Holds ==
  /\ Cardinality(Mine) = StoredBefore + StoredOfLast
  /\ \A n \in Mine : Place(n) \in DOMAIN script /\ FromScript(events[n], script[Place(n)])

ScriptInv == Sends /\ Holds

LEMMA InitScript == ASSUME SynthInit PROVE ScriptInv
  <1>1. sending = <<>> /\ Len(sending) = 0 /\ DOMAIN sending = {} /\ Mine = {}
    BY DEF SynthInit, Mine
  <1>2. IsSequence(script)
    BY ScriptAssumption DEF SynthInit, IsSequence
  <1>3. ChunksOf \in Nat
    BY <1>2, ChunkCount DEF ChunksOf
  <1> QED
    BY <1>1, <1>3, FS_EmptySet DEF ScriptInv, Sends, Holds, StoredOfLast, StoredBefore

LEMMA MineIsFinite ==
  ASSUME SynthInv
  PROVE  /\ IsFiniteSet(Mine) /\ Cardinality(Mine) \in Nat /\ Mine \in SUBSET (1..Len(events))
         /\ DOMAIN sending = 1..Len(sending) /\ Len(sending) \in Nat
         /\ sending # <<>> => Len(sending) \in DOMAIN sending
         /\ Len(sending) = 0 <=> sending = <<>>
         /\ StoredBefore \in Nat
  <1>1. DOMAIN events = 1..Len(events) /\ Len(events) \in Nat
        /\ DOMAIN sending = 1..Len(sending) /\ Len(sending) \in Nat
    BY Shape DEF SynthInv, Typed
  <1>2. IsFiniteSet(1..Len(events)) /\ Mine \in SUBSET (1..Len(events))
    BY <1>1, FS_Interval DEF Mine
  <1>3. sending # <<>> => Len(sending) > 0
    BY <1>1, EmptySeq DEF SynthInv, Typed, IsSequence
  <1>4. sending # <<>> => (Len(sending) - 1) * BatchSize \in Nat
    BY <1>1, <1>3, BatchAssumption
  <1>5. sending = <<>> => Len(sending) = 0
    OBVIOUS
  <1>6. sending # <<>> => Len(sending) \in DOMAIN sending
    BY <1>1, <1>3
  <1>7. Len(sending) = 0 <=> sending = <<>>
    BY <1>3, <1>5
  <1>8. StoredBefore \in Nat
    BY <1>4 DEF StoredBefore
  <1>9. IsFiniteSet(Mine) /\ Cardinality(Mine) \in Nat
    BY <1>2, FS_Subset, FS_CardinalityType
  <1> QED
    BY <1>1, <1>2, <1>6, <1>7, <1>8, <1>9

\* A stored batch is there with all its rows.
LEMMA StoredWhole ==
  ASSUME SynthInv, NEW c \in Calls
  PROVE  /\ Len(batch[c]) \in Nat /\ DOMAIN batch[c] = 1..Len(batch[c])
         /\ StoredBy(c) = {} => Cardinality(StoredBy(c)) = 0
         /\ StoredBy(c) # {} => Cardinality(StoredBy(c)) = Len(batch[c])
  <1>1. Len(batch[c]) \in Nat /\ DOMAIN batch[c] = 1..Len(batch[c])
    BY Shape DEF SynthInv, Typed
  <1>2. ASSUME StoredBy(c) # {} PROVE Cardinality(StoredBy(c)) = Len(batch[c])
    <2>1. PICK first \in Nat \ {0} : StoredBy(c) = first..(first + Len(batch[c]) - 1)
      BY <1>2 DEF SynthInv, Agrees, Stretch
    <2> DEFINE S == StoredBy(c)
               last == first + Len(batch[c]) - 1
    <2>2. last \in Int /\ S = first..last
      BY <1>1, <2>1
    <2>3. Cardinality(first..last) = IF first > last THEN 0 ELSE last - first + 1
      BY <2>2, FS_Interval
    <2> QED
      BY <1>1, <2>2, <2>3
  <1> QED
    BY <1>1, <1>2, FS_EmptySet

\* The batch of a call has as many items as its part of the script.
LEMMA SentParts ==
  ASSUME SynthInv, Sends, NEW k \in DOMAIN sending
  PROVE  /\ k \in 1..ChunksOf /\ ChunksOf \in Nat /\ sending[k] \in Calls
         /\ Len(batch[sending[k]]) = Len(Chunk(k))
         /\ Len(Chunk(k)) \in 0..BatchSize /\ DOMAIN Chunk(k) = 1..Len(Chunk(k))
         /\ k < ChunksOf => Len(Chunk(k)) = BatchSize
         /\ \A j \in DOMAIN Chunk(k) : /\ (k - 1) * BatchSize + j \in DOMAIN script
                                       /\ Chunk(k)[j] = script[(k - 1) * BatchSize + j]
  <1>1. IsSequence(script) /\ ChunksOf \in Nat
    BY ChunkCount DEF SynthInv, Typed, ChunksOf
  <1>2. k \in 1..ChunksOf
    BY <1>1, MineIsFinite DEF Sends
  <1>3. /\ Len(Chunk(k)) \in 0..BatchSize /\ DOMAIN Chunk(k) = 1..Len(Chunk(k))
        /\ k < ChunksOf => Len(Chunk(k)) = BatchSize
        /\ \A j \in DOMAIN Chunk(k) : /\ (k - 1) * BatchSize + j \in DOMAIN script
                                      /\ Chunk(k)[j] = script[(k - 1) * BatchSize + j]
    BY <1>1, <1>2, ChunkParts DEF ChunksOf, Chunk
  <1>4. sending[k] \in Calls /\ DOMAIN batch[sending[k]] = DOMAIN Chunk(k)
    BY DEF Sends, Copies
  <1>5. Len(batch[sending[k]]) \in Nat /\ DOMAIN batch[sending[k]] = 1..Len(batch[sending[k]])
    BY <1>4, StoredWhole
  <1>6. Len(batch[sending[k]]) = Len(Chunk(k))
    <2> DEFINE a == Len(batch[sending[k]])
               b == Len(Chunk(k))
    <2>1. a \in Nat /\ b \in Nat /\ 1..a = 1..b
      BY <1>3, <1>4, <1>5, BatchAssumption
    <2> HIDE DEF a, b
    <2>2. a = b
      BY <2>1
    <2> QED
      BY <2>2 DEF a, b
  <1> QED
    BY <1>1, <1>2, <1>3, <1>4, <1>6

\* As long as no row of the script comes or goes, the places stay as they are.
LEMMA PlacesStay ==
  ASSUME Holds, SynthInv, IsSequence(sending'), script' = script,
         Mine' = Mine, \A n \in Mine : events'[n] = events[n],
         StoredBefore' + StoredOfLast' = StoredBefore + StoredOfLast
  PROVE  Holds'
  <1>1. \A n : Place(n)' = Place(n)
    BY DEF Place
  <1> QED
    BY <1>1 DEF Holds

\* Whoever waits or gives up, a call that is created stays so.
LEMMA CallersKeepScript ==
  ASSUME ScriptInv, SynthInv, UNCHANGED <<events, batch, script, sending>>,
         \A c \in Calls : /\ client[c] # "idle" => client'[c] # "idle"
                          /\ client[c] = "created" => client'[c] = "created"
  PROVE  ScriptInv'
  <1>1. Sends'
    BY DEF ScriptInv, Sends, Created, ChunksOf, Chunk
  <1>2. Mine' = Mine /\ StoredBefore' = StoredBefore /\ StoredOfLast' = StoredOfLast
    BY DEF Mine, StoredBefore, StoredOfLast, StoredBy
  <1>3. Holds'
    BY <1>2, PlacesStay DEF ScriptInv, SynthInv, Typed
  <1> QED
    BY <1>1, <1>3 DEF ScriptInv

LEMMA OtherPostKeepsScript ==
  ASSUME ScriptInv, SynthInv, NEW c \in Calls, NEW payload, Post(c, payload), UNCHANGED synth
  PROVE  ScriptInv'
  <1>1. /\ client[c] = "idle" /\ client' = [client EXCEPT ![c] = "waiting"]
        /\ batch' = [batch EXCEPT ![c] = batch'[c]]
        /\ UNCHANGED <<events, script, sending>>
    BY DEF Post, synth, SynthInv, Typed
  <1>2. \A k \in DOMAIN sending :
          /\ sending[k] \in Calls /\ sending[k] # c
          /\ client'[sending[k]] = client[sending[k]] /\ batch'[sending[k]] = batch[sending[k]]
    BY <1>1 DEF ScriptInv, Sends, SynthInv, Typed
  <1>3. Sends'
    BY <1>1, <1>2 DEF ScriptInv, Sends, Created, ChunksOf, Chunk
  <1>4. Mine' = Mine /\ StoredBefore' = StoredBefore /\ StoredOfLast' = StoredOfLast
    BY <1>1 DEF Mine, StoredBefore, StoredOfLast, StoredBy
  <1>5. Holds'
    BY <1>1, <1>4, PlacesStay DEF ScriptInv, SynthInv, Typed
  <1> QED
    BY <1>3, <1>5 DEF ScriptInv

\* The next batch is sent when the one before it is stored and full.
LEMMA SendKeepsScript ==
  ASSUME ScriptInv, SynthInv, NEW c \in Calls, SendBatch(c)
  PROVE  ScriptInv'
  <1> DEFINE L == Len(sending)
  <1>1. /\ L \in Nat /\ DOMAIN sending = 1..L /\ L < ChunksOf /\ ChunksOf \in Nat
        /\ IsSequence(sending) /\ IsSequence(script)
        /\ \A k \in 1..L : Created(k)
    BY MineIsFinite, ChunkCount DEF SendBatch, SynthInv, Typed, ChunksOf
  <1>2. /\ client[c] = "idle" /\ client' = [client EXCEPT ![c] = "waiting"]
        /\ batch' = [batch EXCEPT ![c] = batch'[c]]
        /\ Copies(batch'[c], Chunk(L + 1))
        /\ UNCHANGED <<events, script>> /\ sending' = Append(sending, c)
    BY DEF SendBatch, Post, SynthInv, Typed, Copies, Chunk
  <1>3. /\ Len(sending') = L + 1 /\ DOMAIN sending' = 1..(L + 1)
        /\ \A k \in 1..L : sending'[k] = sending[k]
        /\ sending'[L + 1] = c /\ IsSequence(sending')
    BY <1>1, <1>2, Appended DEF IsSequence
  <1>4. \A k \in 1..L : /\ sending[k] \in Calls /\ sending[k] # c
                        /\ client'[sending[k]] = client[sending[k]]
                        /\ batch'[sending[k]] = batch[sending[k]]
    BY <1>1, <1>2 DEF ScriptInv, Sends, SynthInv, Typed
  <1>5. StoredBy(c) = {}
    BY <1>2 DEF SynthInv, Agrees
  <1> HIDE DEF L
  <1>6. \A k \in 1..(L + 1) : k \in 1..L \/ k = L + 1
    BY <1>1
  <1>7. ChunksOf' = ChunksOf /\ \A k : Chunk(k)' = Chunk(k)
    BY <1>2 DEF ChunksOf, Chunk
  <1>8. Sends'
    <2>1. Len(sending') <= ChunksOf'
      BY <1>1, <1>3, <1>7
    <2>2. ASSUME NEW k \in DOMAIN sending'
          PROVE  /\ sending'[k] \in Calls /\ client'[sending'[k]] # "idle"
                 /\ k < Len(sending') => client'[sending'[k]] = "created"
                 /\ Copies(batch'[sending'[k]], Chunk(k)')
      <3>1. CASE k \in 1..L
        BY <1>1, <1>3, <1>4, <1>7, <3>1 DEF ScriptInv, Sends, Created
      <3>2. CASE k = L + 1
        BY <1>1, <1>2, <1>3, <1>7, <3>2 DEF SynthInv, Typed
      <3> QED
        BY <1>3, <1>6, <3>1, <3>2
    <2>3. \A j, k \in DOMAIN sending' : sending'[j] = sending'[k] => j = k
      BY <1>1, <1>3, <1>4, <1>6 DEF ScriptInv, Sends
    <2> QED
      BY <2>1, <2>2, <2>3 DEF Sends, Created, Copies
  <1>9. Mine' = Mine
    <2>1. \A n \in DOMAIN events : events[n].call # c
      BY <1>5 DEF StoredBy
    <2> QED
      BY <1>1, <1>2, <1>3, <1>6, <2>1 DEF Mine
  <1>10. StoredBefore' = L * BatchSize /\ StoredOfLast' = 0
    <2>1. sending' # <<>>
      BY <1>1, <1>3
    <2>2. StoredBy(c)' = {}
      BY <1>2, <1>5 DEF StoredBy
    <2>3. (L + 1) - 1 = L
      BY <1>1
    <2> QED
      BY <1>3, <2>1, <2>2, <2>3, FS_EmptySet DEF StoredBefore, StoredOfLast
  <1>11. StoredBefore + StoredOfLast = L * BatchSize
    <2>1. CASE sending = <<>>
      <3>1. L = 0
        BY <2>1, MineIsFinite DEF L
      <3> QED
        BY <2>1, <3>1, BatchAssumption DEF StoredBefore, StoredOfLast
    <2>2. CASE sending # <<>>
      <3>1. L \in DOMAIN sending
        BY <2>2, MineIsFinite DEF L
      <3> DEFINE d == sending[L]
      <3>2. d \in Calls /\ client[d] = "created"
        BY <1>1, <3>1 DEF ScriptInv, Sends, Created
      <3>3. StoredBy(d) # {}
        BY <3>2 DEF SynthInv, Agrees
      <3>4. Len(batch[d]) = BatchSize
        BY <1>1, <3>1, SentParts DEF ScriptInv
      <3>5. StoredOfLast = BatchSize
        BY <2>2, <3>2, <3>3, <3>4, StoredWhole DEF StoredOfLast, L
      <3>6. StoredBefore = (L - 1) * BatchSize
        BY <2>2 DEF StoredBefore, L
      <3>7. (L - 1) * BatchSize = L * BatchSize - BatchSize /\ L * BatchSize \in Nat
        BY <1>1, BatchAssumption
      <3> QED
        BY <3>5, <3>6, <3>7, BatchAssumption
    <2> QED
      BY <2>1, <2>2
  <1>12. StoredBefore' + StoredOfLast' = StoredBefore + StoredOfLast
    BY <1>1, <1>10, <1>11, BatchAssumption
  <1>13. Holds'
    BY <1>2, <1>3, <1>9, <1>12, PlacesStay DEF ScriptInv
  <1> QED
    BY <1>8, <1>13 DEF ScriptInv

\* The rows a call stores come after all others, one for each item of its batch.
LEMMA RowsAdded ==
  ASSUME SynthInv, NEW c \in Calls, Store(c), UNCHANGED synth
  PROVE  \E m, k \in Nat :
           /\ DOMAIN batch[c] = 1..k /\ DOMAIN events = 1..m /\ DOMAIN events' = 1..(m + k)
           /\ \A n \in 1..m : events'[n] = events[n]
           /\ \A n \in (m + 1)..(m + k) : /\ n - m \in DOMAIN batch[c]
                                          /\ events'[n].call = c
                                          /\ FromScript(events'[n], batch[c][n - m])
           /\ StoredBy(c) = {} /\ StoredBy(c)' = (m + 1)..(m + k)
           /\ \A d \in Calls \ {c} : StoredBy(d)' = StoredBy(d)
  <1> DEFINE rows == Rows(c)
             m == Len(events)
             k == Len(batch[c])
  <1>1. events' = events \o rows /\ server[c] = "none"
    BY DEF Store, Arrived
  <1>2. m \in Nat /\ k \in Nat /\ DOMAIN batch[c] = 1..k /\ DOMAIN events = 1..m
    BY Shape DEF SynthInv, Typed
  <1>3. /\ rows = [n \in 1..k |-> rows[n]]
        /\ \A n \in 1..k : rows[n].call = c /\ FromScript(rows[n], batch[c][n])
    BY <1>2 DEF Rows, FromScript
  <1>4. IsSequence(rows) /\ Len(rows) = k /\ IsSequence(events)
    BY <1>2, <1>3, Mapped DEF SynthInv, Typed
  <1> HIDE DEF rows, k
  <1>5. /\ DOMAIN events' = 1..(m + k)
        /\ \A n \in 1..m : events'[n] = events[n]
        /\ \A n \in (m + 1)..(m + k) : events'[n] = rows[n - m]
    BY <1>1, <1>4, Joined
  <1>6. \A n \in (m + 1)..(m + k) : n - m \in 1..k
    BY <1>2
  <1> HIDE DEF m
  <1>7. ASSUME NEW n \in (m + 1)..(m + k)
        PROVE  /\ n - m \in DOMAIN batch[c]
               /\ events'[n].call = c
               /\ FromScript(events'[n], batch[c][n - m])
    <2> DEFINE i == n - m
    <2>1. i \in 1..k /\ events'[n] = rows[i]
      BY <1>5, <1>6
    <2> HIDE DEF i
    <2>2. i \in DOMAIN batch[c] /\ events'[n].call = c /\ FromScript(events'[n], batch[c][i])
      BY <1>2, <1>3, <2>1
    <2> QED
      BY <2>2 DEF i
  <1>8. StoredBy(c) = {}
    BY <1>1 DEF SynthInv, Agrees
  <1>9. \A n \in 1..(m + k) : n \in 1..m \/ n \in (m + 1)..(m + k)
    BY <1>2
  <1>10. 1..m \subseteq 1..(m + k) /\ (m + 1)..(m + k) \subseteq 1..(m + k)
    BY <1>2
  <1>11. StoredBy(c)' = (m + 1)..(m + k)
    BY <1>2, <1>5, <1>7, <1>8, <1>9, <1>10 DEF StoredBy
  <1>12. \A d \in Calls \ {c} : StoredBy(d)' = StoredBy(d)
    BY <1>2, <1>5, <1>7, <1>9, <1>10 DEF StoredBy
  <1> QED
    BY <1>2, <1>5, <1>7, <1>8, <1>11, <1>12

LEMMA StoreKeepsScript ==
  ASSUME ScriptInv, SynthInv, NEW c \in Calls, Store(c), UNCHANGED synth
  PROVE  ScriptInv'
  <1>1. PICK m, k \in Nat :
        /\ DOMAIN batch[c] = 1..k /\ DOMAIN events = 1..m /\ DOMAIN events' = 1..(m + k)
        /\ \A n \in 1..m : events'[n] = events[n]
        /\ \A n \in (m + 1)..(m + k) : /\ n - m \in DOMAIN batch[c]
                                       /\ events'[n].call = c
                                       /\ FromScript(events'[n], batch[c][n - m])
        /\ StoredBy(c) = {} /\ StoredBy(c)' = (m + 1)..(m + k)
        /\ \A d \in Calls \ {c} : StoredBy(d)' = StoredBy(d)
    BY RowsAdded
  <1>2. m \in Nat /\ k \in Nat
    OBVIOUS
  <1>3. UNCHANGED <<batch, client, script, sending>>
    BY DEF Store, synth
  <1>4. Sends'
    BY <1>3 DEF ScriptInv, Sends, Created, ChunksOf, Chunk
  <1>5. \A n \in 1..(m + k) : n \in 1..m \/ n \in (m + 1)..(m + k)
    BY <1>1, <1>2
  <1>6. 1..m \subseteq 1..(m + k) /\ (m + 1)..(m + k) \subseteq 1..(m + k)
    BY <1>1, <1>2
  <1>7. Mine \subseteq 1..m /\ \A n \in Mine : events'[n] = events[n]
    BY <1>1, <1>2 DEF Mine
  <1>8. ASSUME \A i \in DOMAIN sending : sending[i] # c PROVE Holds'
    <2>1. Mine' = Mine
      BY <1>1, <1>2, <1>3, <1>5, <1>6, <1>8 DEF Mine
    <2>2. StoredBefore' = StoredBefore
      BY <1>3 DEF StoredBefore
    <2>3. StoredOfLast' = StoredOfLast
      BY <1>1, <1>2, <1>3, <1>8, MineIsFinite DEF StoredOfLast, ScriptInv, Sends
    <2> QED
      BY <1>3, <1>7, <2>1, <2>2, <2>3, PlacesStay DEF ScriptInv, SynthInv, Typed
  <1>9. ASSUME NEW i \in DOMAIN sending, sending[i] = c PROVE Holds'
    <2>1. i = Len(sending) /\ i \in Nat /\ sending # <<>>
      <3>1. client[c] # "created"
        BY <1>1, <1>2 DEF SynthInv, Agrees
      <3>2. ~ (i < Len(sending))
        BY <1>9, <3>1 DEF ScriptInv, Sends, Created
      <3>3. DOMAIN sending = 1..Len(sending) /\ Len(sending) \in Nat
        BY MineIsFinite
      <3> QED
        BY <3>2, <3>3, MineIsFinite
    <2> DEFINE before == (i - 1) * BatchSize
    <2>2. before \in Nat /\ StoredBefore = before /\ StoredBefore' = before
      BY <1>3, <2>1, MineIsFinite DEF StoredBefore
    <2> HIDE DEF before
    <2>3. StoredOfLast = 0 /\ StoredOfLast' = k
      <3>1. StoredOfLast' = Cardinality((m + 1)..(m + k))
        BY <1>1, <1>2, <1>3, <1>9, <2>1 DEF StoredOfLast
      <3>2. Cardinality((m + 1)..(m + k)) = k
        BY <1>1, <1>2, FS_Interval
      <3> QED
        BY <1>1, <1>2, <1>9, <2>1, <3>1, <3>2, FS_EmptySet DEF StoredOfLast
    <2>4. Cardinality(Mine) = before /\ IsFiniteSet(Mine)
      BY <2>2, <2>3, MineIsFinite DEF ScriptInv, Holds
    <2>5. Mine' = Mine \cup ((m + 1)..(m + k))
      BY <1>1, <1>2, <1>3, <1>5, <1>6, <1>9 DEF Mine
    <2>6. ASSUME NEW n \in m..(m + k)
          PROVE  Cardinality(Mine \cup ((m + 1)..n)) = before + (n - m)
      <3> DEFINE added == (m + 1)..n
      <3>1. IsFiniteSet(added) /\ Cardinality(added) = n - m
        <4>1. m + 1 \in Int /\ n \in Int /\ n >= m
          BY <1>2
        <4>2. IsFiniteSet(added) /\ Cardinality(added) = IF m + 1 > n THEN 0 ELSE n - (m + 1) + 1
          BY <4>1, FS_Interval
        <4> QED
          BY <1>2, <4>1, <4>2
      <3>2. Mine \cap added = {}
        BY <1>2, <1>7
      <3> HIDE DEF added
      <3>3. Cardinality(Mine \cup added)
              = Cardinality(Mine) + Cardinality(added) - Cardinality(Mine \cap added)
        BY <2>4, <3>1, FS_Union
      <3>4. Cardinality(Mine \cap added) = 0
        BY <3>2, FS_EmptySet
      <3>5. before + (n - m) - 0 = before + (n - m)
        BY <1>2, <2>2
      <3> QED
        BY <2>4, <3>1, <3>3, <3>4, <3>5 DEF added
    <2>7. Cardinality(Mine') = StoredBefore' + StoredOfLast'
      <3>1. m + k \in m..(m + k) /\ (m + k) - m = k
        BY <1>1, <1>2
      <3> QED
        BY <2>2, <2>3, <2>5, <2>6, <3>1
    <2>8. ASSUME NEW n \in Mine
          PROVE  Place(n)' \in DOMAIN script' /\ FromScript(events'[n], script'[Place(n)'])
      <3>1. {x \in Mine' : x <= n} = {x \in Mine : x <= n}
        BY <1>1, <1>2, <1>7, <2>5
      <3>2. Place(n)' = Place(n)
        BY <3>1 DEF Place
      <3> QED
        BY <1>3, <1>7, <3>2 DEF ScriptInv, Holds
    <2>9. ASSUME NEW n \in (m + 1)..(m + k)
          PROVE  Place(n)' \in DOMAIN script' /\ FromScript(events'[n], script'[Place(n)'])
      <3>1. {x \in Mine' : x <= n} = Mine \cup ((m + 1)..n)
        <4>1. \A x \in Mine : x \in Int /\ x <= n
          BY <1>2, <1>7
        <4>2. \A x : x \in (m + 1)..(m + k) /\ x <= n <=> x \in (m + 1)..n
          BY <1>2
        <4> QED
          BY <2>5, <4>1, <4>2
      <3>2. n \in m..(m + k)
        BY <1>1, <1>2
      <3>3. Place(n)' = before + (n - m)
        BY <2>6, <3>1, <3>2 DEF Place
      <3>4. n - m \in DOMAIN Chunk(i) /\ FromScript(events'[n], Chunk(i)[n - m])
        <4> DEFINE j == n - m
        <4>1. j \in DOMAIN batch[c] /\ FromScript(events'[n], batch[c][j])
          BY <1>1
        <4>2. Copies(batch[c], Chunk(i))
          BY <1>9 DEF ScriptInv, Sends
        <4> HIDE DEF j
        <4>3. j \in DOMAIN Chunk(i) /\ FromScript(events'[n], Chunk(i)[j])
          BY <4>1, <4>2 DEF Copies, FromScript
        <4> QED
          BY <4>3 DEF j
      <3>5. before + (n - m) \in DOMAIN script /\ Chunk(i)[n - m] = script[before + (n - m)]
        BY <3>4, SentParts DEF ScriptInv, before
      <3> QED
        BY <1>3, <3>3, <3>4, <3>5
    <2> QED
      BY <2>5, <2>7, <2>8, <2>9 DEF Holds
  <1>10. Holds'
    BY <1>8, <1>9
  <1> QED
    BY <1>4, <1>10 DEF ScriptInv

LEMMA StepScript == ScriptInv /\ SynthInv /\ [SynthNext]_<<vars, synth>> => ScriptInv'
  <1> SUFFICES ASSUME ScriptInv, SynthInv, [SynthNext]_<<vars, synth>> PROVE ScriptInv'
    OBVIOUS
  <1>1. CASE UNCHANGED <<vars, synth>>
    BY <1>1, CallersKeepScript DEF vars, synth
  <1>2. ASSUME NEW c \in Calls, SendBatch(c) PROVE ScriptInv'
    BY <1>2, SendKeepsScript
  <1>3. CASE Next /\ UNCHANGED synth
    <2>1. CASE Tick \/ Quiescent
      BY <1>3, <2>1, CallersKeepScript DEF Tick, Quiescent, vars, synth
    <2>2. ASSUME NEW c \in Calls, NEW payload \in Payloads, Post(c, payload) PROVE ScriptInv'
      BY <1>3, <2>2, OtherPostKeepsScript
    <2>3. ASSUME NEW c \in Calls, Deliver(c) PROVE ScriptInv'
      <3>1. client[c] = "waiting" /\ client' = [client EXCEPT ![c] = Outcome(reply[c])]
            /\ Outcome(reply[c]) # "idle" /\ UNCHANGED <<events, batch>>
        BY <2>3 DEF Deliver, Outcome
      <3>2. \A d \in Calls : /\ client[d] # "idle" => client'[d] # "idle"
                             /\ client[d] = "created" => client'[d] = "created"
        BY <3>1 DEF SynthInv, Typed
      <3> QED
        BY <1>3, <3>1, <3>2, CallersKeepScript DEF synth
    <2>4. ASSUME NEW c \in Calls, GiveUp(c) PROVE ScriptInv'
      <3>1. client[c] = "waiting" /\ client' = [client EXCEPT ![c] = "timeout"]
            /\ UNCHANGED <<events, batch>>
        BY <2>4 DEF GiveUp
      <3>2. \A d \in Calls : /\ client[d] # "idle" => client'[d] # "idle"
                             /\ client[d] = "created" => client'[d] = "created"
        BY <3>1 DEF SynthInv, Typed
      <3> QED
        BY <1>3, <3>1, <3>2, CallersKeepScript DEF synth
    <2>5. ASSUME NEW c \in Calls, Store(c) PROVE ScriptInv'
      BY <1>3, <2>5, StoreKeepsScript
    <2>6. ASSUME NEW c \in Calls,
                 Reject(c) \/ IngestionFails(c) \/ ReadClock(c) \/ Analyse(c)
                   \/ SaveAnomalies(c) \/ PipelineFails(c) \/ Crash(c)
          PROVE  ScriptInv'
      <3>1. UNCHANGED <<events, batch, client>>
        BY <2>6 DEF Reject, IngestionFails, ReadClock, Analyse, SaveAnomalies, PipelineFails,
                    Crash
      <3> QED
        BY <1>3, <3>1, CallersKeepScript DEF synth
    <2> QED
      BY <1>3, <2>1, <2>2, <2>3, <2>4, <2>5, <2>6 DEF Next
  <1> QED
    BY <1>1, <1>2, <1>3 DEF SynthNext

\* The loop has counted the batches before the last one, and the last one when it is created.
LEMMA SentCounts ==
  ASSUME ScriptInv, SynthInv
  PROVE  /\ sending = <<>> => Sent = 0
         /\ sending # <<>> =>
              Sent = StoredBefore + IF Created(Len(sending)) THEN Len(batch[sending[Len(sending)]])
                                    ELSE 0
  <1> DEFINE L == Len(sending)
             f == [k \in DOMAIN sending |-> Len(batch[sending[k]])]
             S == {k \in DOMAIN sending : Created(k)}
             Upto(n) == SumFunctionOnSet(f, 1..n)
  <1>1. L \in Nat /\ DOMAIN sending = 1..L /\ (L = 0 <=> sending = <<>>)
    BY MineIsFinite
  <1>2. \A k \in 1..L : f[k] \in Nat /\ (k < L => f[k] = BatchSize)
    <2> TAKE k \in 1..L
    <2>1. k \in DOMAIN sending /\ L <= ChunksOf
      BY <1>1 DEF ScriptInv, Sends
    <2> QED
      BY <1>1, <2>1, SentParts, BatchAssumption DEF ScriptInv
  <1>3. Sent = SumFunctionOnSet(f, S)
    BY DEF Sent
  <1>4. \A k \in 1..L : k < L => Created(k)
    BY <1>1 DEF ScriptInv, Sends
  <1> HIDE DEF f, L
  <1>5. ASSUME NEW n \in 1..L
        PROVE  Upto(n) = Upto(n - 1) + f[n]
    <2>1. n \in 1..n /\ (1..n) \ {n} = 1..(n - 1) /\ IsFiniteSet(1..n)
      <3>1. n \in Nat /\ n >= 1
        BY <1>1
      <3>2. n \in 1..n /\ (1..n) \ {n} = 1..(n - 1)
        BY <3>1
      <3> QED
        BY <3>1, <3>2, FS_Interval
    <2>2. \A k \in 1..n : f[k] \in Int
      BY <1>1, <1>2
    <2>3. /\ Upto(n) = f[n] + Upto(n - 1) /\ Upto(n) \in Int
      BY <2>1, <2>2, SumSplits
    <2>4. Upto(n - 1) \in Int
      <3>1. IsFiniteSet(1..(n - 1)) /\ \A k \in 1..(n - 1) : f[k] \in Int
        BY <1>1, <2>2, FS_Interval
      <3> QED
        BY <3>1, SumSplits
    <2> QED
      BY <2>1, <2>2, <2>3, <2>4
  <1>6. Upto(0) = 0
    BY FS_EmptySet, SumSplits
  <1>7. ASSUME L # 0 PROVE Upto(L - 1) = (L - 1) * BatchSize
    <2> DEFINE T == {n \in Nat : n < L => Upto(n) = n * BatchSize}
    <2>1. 0 \in T
      BY <1>6, BatchAssumption
    <2>2. ASSUME NEW n \in T PROVE n + 1 \in T
      <3>1. n \in Nat /\ n + 1 \in Nat /\ (n < L => Upto(n) = n * BatchSize)
        BY <2>2
      <3>2. ASSUME n + 1 < L PROVE Upto(n + 1) = (n + 1) * BatchSize
        <4>1. n + 1 \in 1..L /\ (n + 1) - 1 = n
          BY <1>1, <3>1, <3>2
        <4>2. Upto(n + 1) = Upto(n) + f[n + 1]
          <5>1. Upto(n + 1) = Upto((n + 1) - 1) + f[n + 1]
            BY <1>5, <4>1
          <5> QED
            BY <4>1, <5>1
        <4>3. f[n + 1] = BatchSize /\ Upto(n) = n * BatchSize
          BY <1>1, <1>2, <3>1, <3>2, <4>1
        <4>4. (n + 1) * BatchSize = n * BatchSize + BatchSize
          BY <3>1, BatchAssumption
        <4> QED
          BY <4>2, <4>3, <4>4
      <3> QED
        BY <3>1, <3>2
    <2> HIDE DEF T
    <2>3. L - 1 \in T
      BY <1>1, <1>7, <2>1, <2>2, Climb
    <2> QED
      BY <1>1, <2>3 DEF T
  <1>8. ASSUME sending = <<>> PROVE Sent = 0
    <2>1. S = 1..0
      BY <1>1, <1>8
    <2> QED
      BY <1>3, <1>6, <2>1
  <1>9. ASSUME sending # <<>>, Created(L) PROVE Sent = StoredBefore + Len(batch[sending[L]])
    <2>1. S = 1..L
      BY <1>1, <1>4, <1>9
    <2>2. L \in 1..L /\ f[L] = Len(batch[sending[L]])
      BY <1>1, <1>9 DEF f
    <2>3. Upto(L) = Upto(L - 1) + f[L]
      BY <1>5, <2>2
    <2> QED
      BY <1>1, <1>3, <1>7, <1>9, <2>1, <2>2, <2>3 DEF StoredBefore, L
  <1>10. ASSUME sending # <<>>, ~ Created(L) PROVE Sent = StoredBefore + 0
    <2>1. S = 1..(L - 1)
      BY <1>1, <1>4, <1>10
    <2>2. Sent = StoredBefore
      BY <1>1, <1>3, <1>7, <1>10, <2>1 DEF StoredBefore, L
    <2> QED
      BY <2>2, MineIsFinite
  <1> QED
    BY <1>8, <1>9, <1>10 DEF L

(***************************************************************************)
(* Theorems.                                                               *)
(***************************************************************************)
\* What every call stored is one stretch of the table, and every stage of its request
\* and all its caller knows agree with that.
THEOREM Stretches == SynthSpec => []SynthInv
  BY InitSynth, StepSynth, PTL DEF SynthSpec

\* Callers are told the truth, and nothing is stored twice or in part, whatever is lost
\* on the way and whoever dies.
THEOREM OutcomesTruthful == SynthSpec => []OutcomeIsTruthful
  <1>1. SynthInv => OutcomeIsTruthful
    <2> SUFFICES ASSUME SynthInv, NEW c \in Calls
                 PROVE  /\ Cardinality(StoredBy(c)) \in {0, Len(batch[c])}
                        /\ client[c] = "created" => StoredBy(c) # {}
                        /\ client[c] = "rejected" => StoredBy(c) = {}
      BY DEF OutcomeIsTruthful
    <2>1. Len(batch[c]) \in Nat
      BY Shape DEF SynthInv, Typed
    <2> DEFINE S == StoredBy(c)
    <2> HIDE DEF S
    <2>2. ASSUME S = {} PROVE Cardinality(S) = 0
      BY <2>2, FS_EmptySet
    <2>3. ASSUME NEW first \in Nat \ {0}, S = first..(first + Len(batch[c]) - 1)
          PROVE  Cardinality(S) = Len(batch[c])
      <3>1. first + Len(batch[c]) - 1 \in Int
        BY <2>1
      <3>2. Cardinality(S) = IF first > first + Len(batch[c]) - 1 THEN 0
                             ELSE first + Len(batch[c]) - 1 - first + 1
        BY <2>3, <3>1, FS_Interval
      <3> QED
        BY <2>1, <3>2
    <2>4. Cardinality(StoredBy(c)) \in {0, Len(batch[c])}
      BY <2>2, <2>3 DEF S, SynthInv, Agrees, Stretch
    <2> QED
      BY <2>4 DEF SynthInv, Agrees
  <1> QED
    BY <1>1, Stretches, PTL

\* The table only grows, evidence stays, and a burst whose calls have all analysed the
\* table was seen whole by the last of them.
THEOREM Analyses == SynthSpec => []AnalysisInv
  BY InitAnalysis, StepAnalysis, Stretches, PTL DEF SynthSpec

\* Every anomaly on record has the events that show it in the table, whichever calls
\* brought them and whatever came since.
THEOREM AnomaliesJustified == SynthSpec => []AnomalyHasEvidence
  <1>1. AnalysisInv => AnomalyHasEvidence
    BY DEF AnalysisInv, Justified, Evidence, Recent, AnomalyHasEvidence
  <1> QED
    BY <1>1, Analyses, PTL

\* No interleaving of the calls that bring a burst lets it go unnoticed.
THEOREM BurstsNoticed == SynthSpec => []BurstIsNoticed
  <1>1. AnalysisInv => BurstIsNoticed
    <2> SUFFICES ASSUME AnalysisInv, NEW k,
                        Cardinality(Of(k)) >= Floor, Len(events) <= EventLimit,
                        \A c \in {events[n].call : n \in Of(k)} :
                          /\ server[c] = "analysed"
                          /\ \A n \in Of(k) : events[n].timestamp > now[c] - BucketSeconds
                 PROVE  \E a \in anomalies : a.signal = Burst(k)
      BY DEF BurstIsNoticed, Of, Burst
    <2>1. \A n \in Of(k) : server[events[n].call] = "analysed"
      OBVIOUS
    <2>2. Complete(k)
      BY <2>1 DEF Complete
    <2>3. Noticed(k)
      BY <2>2 DEF AnalysisInv
    <2> QED
      BY <2>1, <2>3 DEF Noticed
  <1> QED
    BY <1>1, Analyses, PTL

\* Nothing that is detected in a table can be hidden by one more error.
THEOREM ErrorsNeverSilence == SynthSpec => []MoreErrorsNeverSilence
  <1>1. AnalysisInv => MoreErrorsNeverSilence
    <2> SUFFICES ASSUME AnalysisInv, Len(events) < EventLimit, NEW k
                 PROVE  Detected(events, clock) \subseteq
                          Detected(Append(events, [call |-> None, signature |-> k, level |-> "ERROR",
                                                   timestamp |-> clock]), clock)
      BY DEF MoreErrorsNeverSilence
    <2> DEFINE e == [call |-> None, signature |-> k, level |-> "ERROR", timestamp |-> clock]
    <2>1. e.level = "ERROR" /\ e.timestamp = clock
      OBVIOUS
    <2> HIDE DEF e
    <2>2. Detected(events, clock) \subseteq Detected(Append(events, e), clock)
      BY <2>1, OneMoreError DEF AnalysisInv, Timed
    <2> QED
      BY <2>2 DEF e
  <1> QED
    BY <1>1, Analyses, PTL

\* An event in the window that is not analysed is older than all that are, and these
\* are as many as the query allows.
THEOREM LimitCuts == SynthSpec => []LimitCutsThePast
  <1>1. AnalysisInv => LimitCutsThePast
    BY CutsThePast DEF AnalysisInv, Timed, LimitCutsThePast
  <1> QED
    BY <1>1, Analyses, PTL

\* What the table holds of the script of a load follows from the calls of its loop.
THEOREM ScriptSent == SynthSpec => []ScriptInv
  BY InitScript, StepScript, Stretches, PTL DEF SynthSpec

\* Whatever is lost on the way, the table holds a beginning of the script, in order, and
\* at most one batch more than the loop has counted.
THEOREM ScriptStoredInOrder == SynthSpec => []ScriptIsStoredInOrder
  <1>1. ScriptInv /\ SynthInv => ScriptIsStoredInOrder
    <2> SUFFICES ASSUME ScriptInv, SynthInv
                 PROVE  Cardinality(Mine) \in Sent..(Sent + BatchSize)
      BY DEF ScriptInv, Holds, FromScript, ScriptIsStoredInOrder
    <2>1. CASE sending = <<>>
      <3>1. Sent = 0 /\ Cardinality(Mine) = 0
        BY <2>1, SentCounts DEF ScriptInv, Holds, StoredBefore, StoredOfLast
      <3> QED
        BY <3>1, BatchAssumption
    <2>2. CASE sending # <<>>
      <3> DEFINE L == Len(sending)
                 c == sending[L]
                 size == Len(batch[c])
      <3>1. L \in DOMAIN sending /\ StoredBefore \in Nat
        BY <2>2, MineIsFinite
      <3>2. c \in Calls /\ size \in 0..BatchSize
        BY <3>1, SentParts DEF ScriptInv
      <3>3. /\ Cardinality(Mine) = StoredBefore + Cardinality(StoredBy(c))
            /\ Sent = StoredBefore + IF Created(L) THEN size ELSE 0
        BY <2>2, SentCounts DEF ScriptInv, Holds, StoredOfLast
      <3>4. /\ Cardinality(StoredBy(c)) \in {0, size}
            /\ Created(L) => Cardinality(StoredBy(c)) = size
        BY <3>2, StoredWhole DEF SynthInv, Agrees, Created
      <3> HIDE DEF size, L, c
      <3> QED
        BY <3>1, <3>2, <3>3, <3>4, BatchAssumption
    <2> QED
      BY <2>1, <2>2
  <1> QED
    BY <1>1, ScriptSent, Stretches, PTL
=============================================================================
