SPECIFICATION Spec
CONSTANTS
  RunbookCount = 3
  Excerpts <- MCExcerpts
  TopK = 2
  MinSimilarity = 1
  MaxSimilarity = 2
  Titles <- MCTitles
  Anomalies <- MCAnomalies
  MaxAnomalies = 2
  FieldLimit = 1
  None = None
INVARIANTS
  SummaryAgrees
  ActionsSuitCategory
  RetrievalIsBest
  FailsOnlyOnUnknown
