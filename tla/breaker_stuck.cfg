\* Four coordinators share a breaker; a call that timed out is retried unreported.
SPECIFICATION Spec
CONSTANTS
  Callers = {c1, c2, c3, c4}
  Cooldown = 2
  MaxFailures = 6
  FailureThreshold = 3
  HalfOpenTrials = 2
SYMMETRY CallerSymmetry
INVARIANTS
  NeverStuck
CHECK_DEADLOCK FALSE
