CONSTANTS
  r1 = r1
  r2 = r2
  NoRequest = NoRequest
  Requests <- MCRequests
  MinBatch = 2
  MaxTokens = 2
  MaxRetracts = 1
  MaxAdmin = 1
SPECIFICATION FairSpec
INVARIANTS
  KvReleasedOnce
  PlacedOnce
  NoLateResult
PROPERTIES
  AbortsCleanedUp
  WorkEnds
