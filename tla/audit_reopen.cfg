\* A process dies in the middle of a line, and the next one opens the log.
SPECIFICATION Spec
CONSTANTS
  Writers = {w1, w2}
  Tears = {"part"}
  Harms = {}
  MaxAppends = 3
SYMMETRY WriterSymmetry
INVARIANTS
  RecoveryCanOpen
CHECK_DEADLOCK FALSE
