\* A run escalated forward is resumed and completes.
SPECIFICATION TrailSpec
CONSTANTS
  N = 2
  Pivot = 1
  Retryable = {2}
  NeedsApproval = {}
  Keyed = {}
  Adapterless = {}
  Comp <- BothUndoable
  Tools = {"reserve", "charge"}
  Tool <- ReserveCharge
  MaxAttempts <- TwiceEach
  MaxUndoAttempts = 1
  MaxSessions = 2
  Faults = {}
  CrashIn = {}
  Reentry = {"resume"}
  FailureThreshold = 7
  HalfOpenTrials = 1
  Tier <- TwoTwo
  Charges = {2}
  Risky = {}
INVARIANTS
  PassHasNoBlocker
CHECK_DEADLOCK FALSE
