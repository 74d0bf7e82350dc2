\* A crash after the call, a recovery that finds the effect, and a replay.
SPECIFICATION TrailSpec
CONSTANTS
  N = 2
  Pivot = 2
  Retryable = {}
  NeedsApproval = {}
  Keyed = {}
  Adapterless = {}
  Comp <- BothUndoable
  Tools = {"reserve", "charge"}
  Tool <- ReserveCharge
  MaxAttempts <- TwiceEach
  MaxUndoAttempts = 1
  MaxSessions = 2
  Faults = {}
  CrashIn = {"forward"}
  Reentry = {}
  FailureThreshold = 7
  HalfOpenTrials = 1
  Tier <- TwoTwo
  Charges = {2}
  Risky = {}
INVARIANTS
  ReplayFollowsRecovery
CHECK_DEADLOCK FALSE
