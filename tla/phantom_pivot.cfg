\* A pivot tool that reports success and has done nothing.
SPECIFICATION Spec
CONSTANTS
  N = 2
  Pivot = 1
  Retryable = {2}
  NeedsApproval = {}
  Keyed = {}
  Adapterless = {}
  Comp <- BothUndoable
  Tools = {"charge", "notify"}
  Tool <- ChargeNotify
  MaxAttempts <- TwiceEach
  MaxUndoAttempts = 1
  MaxSessions = 1
  Faults = {"phantom"}
  CrashIn = {}
  Reentry = {}
  FailureThreshold = 5
  HalfOpenTrials = 1
INVARIANTS
  PivotCrossedIsReal
CHECK_DEADLOCK FALSE
