\* Two overlapping requests for one service.
SPECIFICATION Spec
CONSTANTS
  Requests = {r1, r2}
  Patches = {}
  Services = {s1}
  Signals = {k1}
  Channels <- OneChannel
  Categories = {db, unknown}
  PatchTargets = {"RESOLVED"}
  None = None
  CorrelationWindow = 2
  AlertRateLimit = 2
  PoolSize = 2
  MaxClock = 3
  MaxFailures = 0
INVARIANT
  TriagedOnlyWhileUntriaged
