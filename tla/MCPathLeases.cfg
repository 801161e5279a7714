SPECIFICATION Spec
CONSTANTS
  Requests <- MCRequests
  TaskIds = {"t1", "t2", "t3"}
  AgentIds = {1, 2, 3}
  Paths <- MCPaths
  TTLs = {1, 2}
  MaxWorkers = 2
  MaxLeases = 4
  MaxTime = 3
INVARIANTS
  PathsExclusive
  WorkersBounded
PROPERTIES
  ExpiredStaysExpired
