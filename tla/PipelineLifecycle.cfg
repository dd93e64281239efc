\* Two ingestion requests and two PATCH requests, two of them at a time, on fair
\* threads.
SPECIFICATION FairSpec
CONSTANTS
  Requests = {r1, r2}
  Patches = {p1, p2}
  Services = {s1}
  Signals = {k1}
  Channels <- TwoChannels
  Categories = {db}
  PatchTargets = {"OPEN", "RESOLVED"}
  None = None
  CorrelationWindow = 1
  AlertRateLimit = 0
  PoolSize = 2
  MaxClock = 1
  MaxFailures = 1
INVARIANTS
  ResolvedHasTimestamp
  SendsAreRecorded
PROPERTY
  AnomalyIsAnnounced
