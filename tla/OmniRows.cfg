CONSTANTS
  r1 = r1
  r2 = r2
  NoRequest = NoRequest
  Requests <- MCRequests
  MinBatch = 2
  MaxTokens = 3
  MaxRetracts = 1
  MaxAdmin = 0
SPECIFICATION Spec
INVARIANT RowsInLockstep
