\* One request at a time: three ingestion requests, two services, one PATCH.
SPECIFICATION Spec
CONSTANTS
  Requests = {r1, r2, r3}
  Patches = {p1}
  Services = {s1, s2}
  Signals = {k1}
  Channels <- OneChannel
  Categories = {db, unknown}
  PatchTargets = {"OPEN", "RESOLVED"}
  None = None
  CorrelationWindow = 1
  AlertRateLimit = 1
  PoolSize = 1
  MaxClock = 2
  MaxFailures = 1
SYMMETRY Symmetry
INVARIANTS
  TriagedOnlyWhileUntriaged
  AlertsAgreeWithIncident
  AlertSpacing
PROPERTIES
  NoDuplicateIncidents
  AbsorbedWhileUnresolved
