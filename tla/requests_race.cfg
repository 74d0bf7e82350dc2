\* A request recovers the run while its coordinator calls the tool; a crash, a resume.
SPECIFICATION OverlapSpec
CONSTANTS
  N = 2
  Pivot = 2
  Retryable = {}
  NeedsApproval = {}
  Keyed = {}
  Adapterless = {}
  Comp <- BothUndoable
  Tools = {"reserve", "charge"}
  Tool <- ReserveCharge
  MaxAttempts <- TwiceEach
  MaxUndoAttempts = 1
  MaxSessions = 2
  Faults = {}
  CrashIn = {"forward"}
  Reentry = {}
  FailureThreshold = 5
  HalfOpenTrials = 1
INVARIANTS
  NoDuplicateEffect
CHECK_DEADLOCK FALSE
