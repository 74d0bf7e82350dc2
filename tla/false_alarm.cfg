\* Two steps that pay, a crash between them, and a resume.
SPECIFICATION TrailSpec
CONSTANTS
  N = 2
  Pivot = 2
  Retryable = {}
  NeedsApproval = {}
  Keyed = {}
  Adapterless = {}
  Comp <- BothUndoable
  Tools = {"reserve", "charge"}
  Tool <- ReserveCharge
  MaxAttempts <- TwiceEach
  MaxUndoAttempts = 1
  MaxSessions = 2
  Faults = {}
  CrashIn = {"forward"}
  Reentry = {}
  FailureThreshold = 7
  HalfOpenTrials = 1
  Tier <- TwoTwo
  Charges = {1, 2}
  Risky = {}
INVARIANTS
  NoFalseDuplicate
CHECK_DEADLOCK FALSE
