SPECIFICATION Spec
CONSTANTS
  Pool = {p1, p2, p3}
  Rhs = {b1}
  batchSize = 1
  Build <- SyclDense
  SolverQueues = {"stream"}
  MaxQueue = 4
SYMMETRY Symmetry
INVARIANTS
  ScratchSafeToDestroy
