\* An operator decides while the callback is being asked.
SPECIFICATION Spec
CONSTANTS
  Timeout = 2
  MaxTime = 1
  MaxSessions = 1
  MaxOrders = 1
INVARIANTS
  OperatorWins
CHECK_DEADLOCK FALSE
