\* The process dies between the last row of a compensation that failed and its dead letter.
SPECIFICATION Spec
CONSTANTS
  N = 2
  Pivot = 2
  Retryable = {}
  NeedsApproval = {}
  Keyed = {}
  Adapterless = {}
  Comp <- BothUndoable
  Tools = {"reserve", "charge"}
  Tool <- ReserveCharge
  MaxAttempts <- TwiceEach
  MaxUndoAttempts = 1
  MaxSessions = 1
  Faults = {}
  CrashIn = {"recovery"}
  Reentry = {}
  FailureThreshold = 5
  HalfOpenTrials = 1
PROPERTIES
  FailedUndoIsFiled
CHECK_DEADLOCK FALSE
