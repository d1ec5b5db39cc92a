SPECIFICATION Spec
CONSTANTS
  Node = {1, 2, 3, 4}
  Step = {1}
  MaxInFlight = 2
CHECK_DEADLOCK FALSE
INVARIANTS CycleOnlyByOverlap SearchIsReachability AuditReportsEachLoopOnce
