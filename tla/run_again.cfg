\* The same, with a key for the payment, no adapter for the second tool, and reports.
SPECIFICATION TrailSpec
CONSTANTS
  N = 2
  Pivot = 1
  Retryable = {2}
  NeedsApproval = {2}
  Keyed = {1}
  Adapterless = {2}
  Comp <- BothUndoable
  Tools = {"charge", "notify"}
  Tool <- ChargeNotify
  MaxAttempts <- TwiceEach
  MaxUndoAttempts = 1
  MaxSessions = 2
  Faults = {"phantom", "vetoed", "dirty", "late", "blind", "blind_undo", "vague", "stale", "deadline"}
  CrashIn = {"forward", "recovery"}
  Reentry = {"resume", "run"}
  FailureThreshold = 1
  HalfOpenTrials = 1
  Tier <- TwoTwo
  Charges = {1}
  Risky = {}
INVARIANTS
  DuplicateCaught
PROPERTIES
  RecordedKeyReused
CHECK_DEADLOCK FALSE
