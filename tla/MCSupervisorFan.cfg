SPECIFICATION Spec
CONSTANTS
  Tasks <- FanTasks
  Rank <- FanRank
  Deps <- FanNone
  OptDeps <- FanNone
  Optional = {}
  MaxAttempts <- FanAttempts
  NeedTokens <- FanTokens
  NeedGpu <- FanGpu
  Gates = {}
  FinalTask = 3
  Scopes <- FanScopes
  Agents = {1, 2}
  Eligible <- FanEligible
  MaxWorkers = 2
  Limits <- FanLimits
  TTL = 1
  WorkerResults <- FanResults
  NoResult = NoResult
  MaxStarts = 2
  MaxTime = 2
INVARIANTS
  WaveExclusive
  RetriesBounded
PROPERTIES
  OnlyValidatedFiles
CHECK_DEADLOCK FALSE
