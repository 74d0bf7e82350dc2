\* Every dependency relation over three steps, cyclic ones included.
SPECIFICATION Spec
CONSTANTS
  N = 3
  Tools <- MCTools
  Raws <- MCRaws
  Block <- MCBlock
  Registry <- MCRegistry
  Template <- MCTemplate
INVARIANTS
  SortIsStable
  UndoableBeforePivot
  UnknownIsGated
CHECK_DEADLOCK FALSE
