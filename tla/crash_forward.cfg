\* Crashes while steps are executed, none while they are undone; no breaker trip.
SPECIFICATION FairTrailSpec
CONSTANTS
  N = 3
  Pivot = 1
  Retryable = {2}
  NeedsApproval = {3}
  Keyed = {1}
  Adapterless = {}
  Comp <- LastPlain
  Tools = {"reserve", "charge", "notify"}
  Tool <- OwnTools
  MaxAttempts <- OneTwoOne
  MaxUndoAttempts = 2
  MaxSessions = 3
  Faults = {"phantom", "stale"}
  CrashIn = {"forward"}
  Reentry = {}
  FailureThreshold = 7
  HalfOpenTrials = 1
  Tier <- LastReadOnly
  Charges = {2}
  Risky = {1}
INVARIANTS
  CompletedStands
  ReplayAgrees
  VerdictHonest
  PassEarnsCredit
  LeftoversListed
  BreakLocated
PROPERTIES
  SessionEnds
  ImplementsSaga
CHECK_DEADLOCK FALSE
