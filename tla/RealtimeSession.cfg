CONSTANTS
  Appends <- MCAppends
  Pad = 1
  Silence = 2
  MaxBuffer = 5
  MaxEvents = 4
SPECIFICATION SessionSpec
CHECK_DEADLOCK FALSE
INVARIANTS
  SpeechCommitted
  HistoryInOrder
  SessionLeavesNothing
