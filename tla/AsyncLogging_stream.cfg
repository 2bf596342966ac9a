SPECIFICATION Spec
CONSTANTS
  NoBuffer = NoBuffer
  Cap = 3
  Keep = 3
  RollSize = 2
  CheckEveryN = 2
  Period = 2
  FlushInterval = 0
  MaxMsgs = 4
  MaxTime = 3
INVARIANTS
  LogIntact
  SparesSuffice
PROPERTIES
  RollKeepsUp
  LogProgress
CHECK_DEADLOCK FALSE
