\* Two overlapping calls, either of which may be the script's, buckets of two ticks and a
\* baseline of two.
SPECIFICATION SynthSpec
CONSTANTS
  BucketSeconds = 2
  BaselineBuckets = 2
  EventLimit = 4
  ZThreshold = 2
  EwmaThreshold = 2
  EwmaTenths = 3
  Multiplier = 2
  Floor = 2
  None = None
  Calls = {c1, c2}
  Payloads <- SmallBatches
  Scripts <- ThreeEvents
  BatchSize = 2
  MaxBatch = 3
  MaxClock = 2
  MaxFaults = 2
SYMMETRY Symmetry
INVARIANTS
  OutcomeIsTruthful
  BurstIsNoticed
  AnomalyHasEvidence
  ScriptIsStoredInOrder
  MoreErrorsNeverSilence
  LimitCutsThePast
