\* Writers that may overlap and die writing; the file may be edited once.
SPECIFICATION Spec
CONSTANTS
  Writers = {w1, w2}
  Tears = {"part", "newline"}
  Harms = {"edit", "drop", "repeat", "swap", "truncate", "rewrite"}
  MaxAppends = 4
SYMMETRY WriterSymmetry
INVARIANTS
  ChainIntact
  EditDetected
  AnchorsStand
  RemovalShows
CHECK_DEADLOCK FALSE
