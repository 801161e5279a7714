SPECIFICATION FairSpec
CONSTANTS
  Menu <- MCMenu
  Cost <- MCCost
  Memories = {}
  Evidence = {}
  Requests = {r1}
  Texts <- MCTexts
  Envelopes <- MCEnvelopes
  ApprovedTexts <- MCApproved
  CacheEnabled = TRUE
  PreserveRaw = TRUE
  MaxRetries = 1
  RequestBytes <- MCRequestBytes
  MaxRequestBytes = 1
  MaxResponseBytes = 1
  MaxCalls = 3
CHECK_DEADLOCK FALSE
INVARIANTS
  CacheConsistent
  ReplayFaithful
  SendsJustified
PROPERTIES
  CallEnds
