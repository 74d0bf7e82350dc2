\* A status query that cannot be answered, and a resume.
SPECIFICATION Spec
CONSTANTS
  N = 2
  Pivot = 1
  Retryable = {2}
  NeedsApproval = {}
  Keyed = {}
  Adapterless = {}
  Comp <- BothUndoable
  Tools = {"charge", "notify"}
  Tool <- ChargeNotify
  MaxAttempts <- TwiceEach
  MaxUndoAttempts = 1
  MaxSessions = 2
  Faults = {"blind"}
  CrashIn = {"forward"}
  Reentry = {}
  FailureThreshold = 5
  HalfOpenTrials = 1
INVARIANTS
  NoDuplicateEffect
CHECK_DEADLOCK FALSE
