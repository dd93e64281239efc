\* Three ingestion requests for one service, two of them at a time.
SPECIFICATION Spec
CONSTANTS
  Requests = {r1, r2, r3}
  Patches = {}
  Services = {s1}
  Signals = {k1, k2}
  Channels <- OneChannel
  Categories = {db}
  PatchTargets = {"RESOLVED"}
  None = None
  CorrelationWindow = 1
  AlertRateLimit = 1
  PoolSize = 2
  MaxClock = 2
  MaxFailures = 1
SYMMETRY Symmetry
INVARIANTS
  TypeOK
  SeverityMatchesCount
  OrphansOnlyAfterFailure
  AlertsFollowTriage
  AlertBurstBounded
PROPERTIES
  LinksNeverMove
  ImplementsLedger
