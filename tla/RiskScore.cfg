\* One caller with one retry; one incident; up to four events.
SPECIFICATION FairSpec
CONSTANTS
  Incidents = {i1}
  Volumes <- SmallVolumes
  RiskWindow = 0
  MaxRetries = 1
  MaxEvents = 4
  MaxClock = 1
  None = None
INVARIANTS
  ErrorsNotUnderstated
PROPERTY
  AskingEnds
