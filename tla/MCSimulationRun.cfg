SPECIFICATION FairSpec
CONSTANTS
  MemoryIds = {1, 2, 3, 4}
  Partner = {1, 3}
  Interpreted = {1}
  Retrievable = {1, 3, 4}
  Supporting = {1, 3}
  Contradicting = {4}
  Score <- MCScore
  TopK = 1
  LastDay = 5
  Cadence = 2
  Candidates <- MCCandidates
  Action <- MCAction
  None = None
  MaxInterruptions = 3
INVARIANTS
  ManifestIsUninterrupted
PROPERTIES
  CheckpointGrows
  RunCompletes
CHECK_DEADLOCK FALSE
