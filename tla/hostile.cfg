\* Adapters that break every promise, crashes and re-runs at every place.
SPECIFICATION Spec
CONSTANTS
  N = 2
  Pivot = 1
  Retryable = {2}
  NeedsApproval = {2}
  Keyed = {1}
  Adapterless = {2}
  Comp <- BothUndoable
  Tools = {"charge", "notify"}
  Tool <- ChargeNotify
  MaxAttempts <- TwiceEach
  MaxUndoAttempts = 1
  MaxSessions = 3
  Faults = {"phantom", "vetoed", "dirty", "late", "blind", "blind_undo", "vague", "stale", "deadline"}
  CrashIn = {"forward", "recovery"}
  Reentry = {"resume", "run"}
  FailureThreshold = 1
  HalfOpenTrials = 1
INVARIANTS
  TypeOK
  Bookkeeping
PROPERTIES
  CommittedIsFinal
CHECK_DEADLOCK FALSE
