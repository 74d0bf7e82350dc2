\* A RETRYABLE step after the pivot, whose tool trips its breaker on the second failure.
SPECIFICATION Spec
CONSTANTS
  N = 3
  Pivot = 2
  Retryable = {3}
  NeedsApproval = {}
  Keyed = {}
  Adapterless = {}
  Comp <- AllUndoable
  Tools = {"reserve", "charge", "notify"}
  Tool <- OwnTools
  MaxAttempts <- LastThrice
  MaxUndoAttempts = 1
  MaxSessions = 1
  Faults = {}
  CrashIn = {}
  Reentry = {}
  FailureThreshold = 2
  HalfOpenTrials = 1
INVARIANTS
  RetryableNeverUnwindsPivot
CHECK_DEADLOCK FALSE
