CONSTANTS
  c1 = c1
  c2 = c2
  i1 = i1
  t1 = t1
  t2 = t2
  NoCall = NoCall
  Calls <- MCOneCall
  Ids <- MCOneId
  Stages <- MCStages
  Resolutions <- MCResolutions
  MaxChunks = 1
  UniqueIds = TRUE
SPECIFICATION FairSpec
INVARIANTS
  NoOrphanedWaiter
  NoChunkLost
  AbortIsFinal
  EntriesAccountedFor
PROPERTIES
  CallsReturn
  ImplementsLifecycle
CHECK_DEADLOCK FALSE
