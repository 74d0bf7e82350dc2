\* Truthful adapters, crashes at every place, resumed up to twice.
SPECIFICATION Spec
CONSTANTS
  N = 4
  Pivot = 3
  Retryable = {4}
  NeedsApproval = {3}
  Keyed = {1}
  Adapterless = {}
  Comp <- SecondManual
  Tools = {"reserve", "book", "charge"}
  Tool <- FirstLastShared
  MaxAttempts <- LastTwoTwice
  MaxUndoAttempts = 2
  MaxSessions = 3
  Faults = {"phantom", "blind_undo"}
  CrashIn = {"forward", "recovery"}
  Reentry = {"resume"}
  FailureThreshold = 1
  HalfOpenTrials = 1
INVARIANTS
  Ownership
  NoDuplicateEffect
  FailedIsVoid
  PivotHonesty
  AbortedLeavesNothing
  LifoCompensation
  NothingSwept
  UndoneOrFiled
PROPERTIES
  CommittedNeverRerun
CHECK_DEADLOCK FALSE
