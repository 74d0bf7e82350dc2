\* Four coordinators share a breaker; a call may end without a report.
SPECIFICATION Spec
CONSTANTS
  Callers = {c1, c2, c3, c4}
  Cooldown = 2
  MaxFailures = 6
  FailureThreshold = 3
  HalfOpenTrials = 2
SYMMETRY CallerSymmetry
INVARIANTS
  ClosedBelowThreshold
  TrialsBounded
  StuckOnlyUnheard
CHECK_DEADLOCK FALSE
