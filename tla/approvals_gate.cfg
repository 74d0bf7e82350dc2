\* Three sessions and an operator who may decide twice, at any time.
SPECIFICATION Spec
CONSTANTS
  Timeout = 1
  MaxTime = 3
  MaxSessions = 3
  MaxOrders = 2
INVARIANTS
  DecidedOnce
PROPERTIES
  GateFollowsRecord
CHECK_DEADLOCK FALSE
