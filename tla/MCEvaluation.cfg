SPECIFICATION RulesSpec
CONSTANTS
  NA = NA
  FOLLOWUP_DAYS = 5
  MINIMUM_VALID_FOLLOWUP_DAYS = 4
  FIRST_TREATED_DAY = 2
  MINIMUM_COHERENT_DAYS = 3
  ActionCandidates <- MCActionCandidates
  RetrievalCandidates <- MCRetrievalCandidates
  ProbeCandidates <- MCProbeCandidates
  LanguageCandidates <- MCLanguageCandidates
  MaxObservations = 4
  DayCandidates <- MCDayCandidates
  MaxTrajectories = 2
  Blocks <- MCBlocks
  Trajectories <- MCTrajectories
  REQUIRED = 2
  Hypotheses <- MCHypotheses
  PValues <- MCPValues
  Scale = 100
INVARIANTS
  MetricsAgree
  OutcomesAgree
  ContrastsSound
  HolmIsClosedTest
PROPERTIES
  InvalidContributesNothing
CHECK_DEADLOCK FALSE
