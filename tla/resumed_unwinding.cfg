\* A crash in the middle of an unwinding, and a resume.
SPECIFICATION Spec
CONSTANTS
  N = 2
  Pivot = 2
  Retryable = {}
  NeedsApproval = {}
  Keyed = {}
  Adapterless = {}
  Comp <- BothUndoable
  Tools = {"reserve", "charge"}
  Tool <- ReserveCharge
  MaxAttempts <- TwiceEach
  MaxUndoAttempts = 1
  MaxSessions = 2
  Faults = {}
  CrashIn = {"recovery"}
  Reentry = {}
  FailureThreshold = 5
  HalfOpenTrials = 1
INVARIANTS
  CompletedStands
CHECK_DEADLOCK FALSE
