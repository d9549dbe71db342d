CONSTANTS
  r1 = r1
  r2 = r2
  r3 = r3
  NoRequest = NoRequest
  Requests <- MCRequests
  Kinds <- AllKinds
  Streaming <- MCStreaming
  Chunks <- MCChunks
  MaxBatch = 2
  MaxThreads = 2
  MaxInbox = 2
  MaxAborts = 1
SPECIFICATION FairSpec
CHECK_DEADLOCK FALSE
INVARIANTS
  AnsweredOnce
  ChunksInOrder
  StateReleased
PROPERTIES
  EveryoneAnswered
