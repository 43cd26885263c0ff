SPECIFICATION Spec
CONSTANTS
  Backends = {"host", "blocks", "linear blocks", "ranges", "linear ranges"}
  Extents <- MCExtents
  Targets <- MCTargets
  Expressions <- MCExpressions
  BS = 2
  MaxAssignments = 2
CHECK_DEADLOCK FALSE
INVARIANTS
  TypeOK
  AssignmentCorrect
  InBounds
  RaceFree
