\* Two requests, one after the other, within the correlation window.
SPECIFICATION Spec
CONSTANTS
  Requests = {r1, r2}
  Patches = {}
  Services = {s1}
  Signals = {k1}
  Channels <- OneChannel
  Categories = {db, unknown}
  PatchTargets = {"RESOLVED"}
  None = None
  CorrelationWindow = 2
  AlertRateLimit = 2
  PoolSize = 1
  MaxClock = 3
  MaxFailures = 0
INVARIANT
  SignalContributesOnce
