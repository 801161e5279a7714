SPECIFICATION FairSpec
CONSTANTS
  Designs <- MCDesigns
  Payloads = {p1}
  Slices = {1, 2}
  MaxSeconds = 1
  Durations = {0, 2}
  WriteTimes = {0, 1}
  MaxCrashes = 1
CHECK_DEADLOCK FALSE
INVARIANTS
  ResultsSound
  BudgetHonest
PROPERTIES
  ImplementsEvaluationLedger
  EvaluationEnds
