CONSTANTS
  p = p
  q = q
  ca = ca
  cb = cb
  a = a
  b = b
  x = x
  NoJob = NoJob
  Jobs <- MCJobs
  Items <- MCItems
  Target <- MCTarget
  ObjectId <- MCObjectId
  Sizes <- MCSizes
  NumSlots = 4
SPECIFICATION FairSpec
CHECK_DEADLOCK FALSE
INVARIANTS
  SlotsExclusive
  NoReuseWhileRead
  SlotsAccountedFor
PROPERTIES
  TransfersSettle
