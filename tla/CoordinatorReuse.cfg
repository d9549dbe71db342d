CONSTANTS
  c1 = c1
  c2 = c2
  i1 = i1
  t1 = t1
  t2 = t2
  NoCall = NoCall
  Calls <- MCCalls
  Ids <- MCOneId
  Stages <- MCStages
  Resolutions <- MCResolutions
  MaxChunks = 0
  UniqueIds = FALSE
SPECIFICATION Spec
SYMMETRY MCSymmetryCalls
INVARIANTS
  PartialsBelongToRequest
CHECK_DEADLOCK FALSE
