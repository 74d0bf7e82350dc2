\* A key claimed by a session that crashed before its outcome was known.
SPECIFICATION Spec
CONSTANTS
  N = 2
  Pivot = 1
  Retryable = {2}
  NeedsApproval = {}
  Keyed = {1}
  Adapterless = {}
  Comp <- BothUndoable
  Tools = {"charge", "notify"}
  Tool <- ChargeNotify
  MaxAttempts <- TwiceEach
  MaxUndoAttempts = 1
  MaxSessions = 2
  Faults = {}
  CrashIn = {"forward"}
  Reentry = {}
  FailureThreshold = 5
  HalfOpenTrials = 1
INVARIANTS
  ClaimedIntentReused
CHECK_DEADLOCK FALSE
