CONSTANTS
  Kinds <- AllKinds
  Frames <- MCFrames
  MaxFrames = 5
  MaxBuffered = 2
SPECIFICATION FairSpec
CHECK_DEADLOCK FALSE
INVARIANTS
  NoAbandonedRequest
  SpokenInOrder
PROPERTIES
  OwnerEnds
