SPECIFICATION Spec
CONSTANTS
  Tasks <- DiamondTasks
  Rank <- DiamondRank
  Deps <- DiamondDeps
  OptDeps <- DiamondOptDeps
  Optional <- DiamondOptional
  MaxAttempts <- DiamondTwice
  NeedTokens <- DiamondTokens
  NeedGpu <- DiamondGpu
  Gates <- DiamondGates
  FinalTask = 4
  Scopes <- DiamondScopes
  Agents <- DiamondAgents
  Eligible <- DiamondEligible
  MaxWorkers = 2
  Limits <- DiamondLimits
  TTL = 9
  WorkerResults <- DiamondResults
  NoResult = NoResult
  MaxStarts = 2
  MaxTime = 0
INVARIANTS
  NoAttemptBeyondMax
CHECK_DEADLOCK FALSE
