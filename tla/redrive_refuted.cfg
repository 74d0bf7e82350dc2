\* One letter of each kind that can be redriven, after an answer was lost or false.
SPECIFICATION Spec
CONSTANTS
  Kind <- OneOfEachServed
  Unserved = {}
  Redrivers = {r1, r2}
  MaxFresh = 2
SYMMETRY RedriverSymmetry
INVARIANTS
  ResolvedIsDone
  ForwardOnce
  ActsAreLogged
  BlockedStaysBlocked
CHECK_DEADLOCK FALSE
