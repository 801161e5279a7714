SPECIFICATION FairSpec
CONSTANTS
  Tasks <- DiamondTasks
  Rank <- DiamondRank
  Deps <- DiamondDeps
  OptDeps <- DiamondOptDeps
  Optional <- DiamondOptional
  MaxAttempts <- DiamondAttempts
  NeedTokens <- DiamondTokens
  NeedGpu <- DiamondGpu
  Gates <- DiamondGates
  FinalTask = 4
  Scopes <- DiamondScopes
  Agents <- DiamondAgents
  Eligible <- DiamondEligible
  MaxWorkers = 2
  Limits <- DiamondLimits
  TTL = 9
  WorkerResults <- DiamondResults
  NoResult = NoResult
  MaxStarts = 3
  MaxTime = 2
INVARIANTS
  DependencySafety
  AttemptsRecordedFirst
  RegisteredArtifactsOnDisk
  UsageWithinLimits
  SummaryTruthful
  JournalNeverAhead
PROPERTIES
  ImplementsDurableWorkflow
  RunEnds
CHECK_DEADLOCK FALSE
