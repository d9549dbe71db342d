CONSTANTS
  o1 = o1
  o2 = o2
  a = a
  b = b
  f = f
  NoOp = NoOp
  Ops <- MCOps
  Stages <- MCStages
  Followers <- MCFollowers
  TargetSets <- MCTargets
  MaxFaults = 2
SPECIFICATION Spec
CHECK_DEADLOCK FALSE
INVARIANTS
  SuccessMeansApplied
  AppliedInOrder
