SPECIFICATION Spec
CONSTANTS
  Requests <- MCOddRequests
  TaskIds = {"t1", "t2", "t3"}
  AgentIds = {1, 2, 3}
  Paths <- MCPaths
  TTLs = {1, 2}
  MaxWorkers = 2
  MaxLeases = 1
  MaxTime = 1
INVARIANTS
  ScopesCoverRequest
CHECK_DEADLOCK FALSE
