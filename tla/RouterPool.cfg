CONSTANTS
  w1 = w1
  w2 = w2
  u1 = u1
  u2 = u2
  Workers <- MCWorkers
  Updates <- MCUpdates
  FailureThreshold = 1
  SuccessThreshold = 1
  MaxProbes = 1
  MaxRelays = 1
SPECIFICATION Spec
SYMMETRY MCSymmetry
CHECK_DEADLOCK FALSE
INVARIANTS
  UpdateExcludesRouting
  FlagsRestored
  HealthMatchesCounters
