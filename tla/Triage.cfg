\* Two triages of one incident, with two agents and one retry.
SPECIFICATION FairSpec
CONSTANTS
  Triages = {t1, t2}
  Incidents = {i1}
  AgentCount = 2
  MaxRetries = 1
  None = None
INVARIANTS
  VerdictIsAudited
  VerdictFromOneTriage
  AuditTrail
  FallbackOnlyWhenExhausted
PROPERTY
  TriagesEnd
