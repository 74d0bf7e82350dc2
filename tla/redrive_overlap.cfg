\* Two redrives that overlap, fail and die, over letters of each kind; the last has no adapter.
SPECIFICATION Spec
CONSTANTS
  Kind <- OneOfEach
  Unserved = {5}
  Redrivers = {r1, r2}
  MaxFresh = 2
SYMMETRY RedriverSymmetry
INVARIANTS
  UndoneOnce
  ResolvedIsLogged
CHECK_DEADLOCK FALSE
