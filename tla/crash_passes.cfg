\* A tool raises CrashSignal after it acted, and the report is made.
SPECIFICATION TrailSpec
CONSTANTS
  N = 2
  Pivot = 2
  Retryable = {}
  NeedsApproval = {}
  Keyed = {}
  Adapterless = {}
  Comp <- BothUndoable
  Tools = {"reserve", "charge"}
  Tool <- ReserveCharge
  MaxAttempts <- TwiceEach
  MaxUndoAttempts = 1
  MaxSessions = 1
  Faults = {}
  CrashIn = {}
  Reentry = {}
  FailureThreshold = 7
  HalfOpenTrials = 1
  Tier <- TwoTwo
  Charges = {2}
  Risky = {}
INVARIANTS
  UnreconciledFails
CHECK_DEADLOCK FALSE
