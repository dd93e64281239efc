\* Three requests of any routes, two threads, one connection, one agent.
SPECIFICATION FairSpec
CONSTANTS
  Requests = {1, 2, 3}
  Loads <- LoadsInOrder
  Threads = 2
  Connections = 1
  AgentCount = 1
  MaxHung = 1
  None = None
INVARIANTS
  ConnectionsAccounted
  IngestionContract
PROPERTY
  RequestsAreAnswered
