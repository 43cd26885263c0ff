SPECIFICATION Spec
CONSTANTS
  Pool = {p1, p2, p3}
  Rhs = {b1, b2}
  batchSize = 2
  Build <- AllBuilds
  SolverQueues = {"default"}
  MaxQueue = 4
SYMMETRY Symmetry
INVARIANTS
  TypeOK
  ScratchSafeToDestroy
  AsIfSequential
  AnswersInOrder
