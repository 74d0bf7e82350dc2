\* Two writers at once, as two requests to the HTTP service for one run.
SPECIFICATION Spec
CONSTANTS
  Writers = {w1, w2}
  Tears = {}
  Harms = {}
  MaxAppends = 3
SYMMETRY WriterSymmetry
INVARIANTS
  WritersVerify
CHECK_DEADLOCK FALSE
