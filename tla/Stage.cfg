CONSTANTS
  r1 = r1
  a = a
  b = b
  Requests <- MCRequests
  Upstream <- MCUpstream
  Local <- MCLocal
  Streamers <- MCRemote
  Deciders <- MCLocal
  PrePayload = FALSE
  MaxChunks = 1
SPECIFICATION FairSpec
CHECK_DEADLOCK FALSE
INVARIANTS
  StreamInOrder
  DispatchedOnce
  AbortQuiesces
  EveryTransferAcked
PROPERTIES
  NoResultAfterFailure
  WorkIsAnswered
