SPECIFICATION Spec
CONSTANTS
  MemoryIds = {1, 2, 3, 4, 5, 6}
  Partner = {1, 3, 4, 5}
  Interpreted = {1, 3, 4}
  Retrievable = {1, 2, 3, 4, 5}
  Supporting = {1, 3, 5}
  Contradicting = {4}
  Score <- MCScore
  TopK = 2
  ShockDay = 3
  ActivationDay = 4
  TargetsThrough = 2
  TargetInstructions = {"framing"}
  LastDay = 5
  Cells <- MCCells
  Instructed = {"romantic"}
  Directives = {"framing", "other"}
  Candidates <- MCCandidates
  Action <- MCAction
  Nothing = Nothing
  MaxBundles = 2
INVARIANTS
  Aligned
  Reproducible
  ArmsMatch
  OnlyItsLayer
  TreatmentLasts
  MemoryTellsDays
  NoCheckRefuses
PROPERTIES
  ResumesWhole
