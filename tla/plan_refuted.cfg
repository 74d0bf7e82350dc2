\* Four statements the planner does not keep; tlc -continue shows a counterexample of each.
SPECIFICATION Spec
CONSTANTS
  N = 2
  Tools <- MCTools
  Raws <- MCRaws
  Block <- MCBlock
  Registry <- MCRegistry
  Template <- MCTemplate
INVARIANTS
  CycleIsFlagged
  NothingIrreversibleBeforePivot
  RetryableNeverPivot
  TierThreeIsGated
CHECK_DEADLOCK FALSE
