\* No operator: a request expires while the process is down.
SPECIFICATION Spec
CONSTANTS
  Timeout = 1
  MaxTime = 3
  MaxSessions = 2
  MaxOrders = 0
PROPERTIES
  ExpiredNeverGranted
CHECK_DEADLOCK FALSE
