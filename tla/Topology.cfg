\* Three services, any dependencies of two of them, cycles included, and a third that
\* depends on one of them or has no row; a scenario that ends after three layers.
SPECIFICATION FairSpec
CONSTANTS
  Services = {s1, s2, s3}
  Owners = {s1, s2}
  SeedFiles <- OneRowFiles
  None = None
  Follower = s3
  Leader = s2
  Postgres = s1
  FailureStart = 1
  LayerDelay = 2
  Duration = 7
INVARIANTS
  ImpactIsExact
  RootDependsOnNoCandidate
  RootIsBlamed
  CascadeFollowsTheGraph
PROPERTY
  RequestsEnd
