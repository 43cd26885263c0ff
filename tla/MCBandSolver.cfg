SPECIFICATION Spec
CONSTANTS
  N = 4
  Prime = 5
  BlockSize = 2
  Matrices <- MCMatrices
  Pivots <- MCPivots
  Rhs <- MCRhs
CHECK_DEADLOCK FALSE
INVARIANTS
  TypeOK
  RaceFree
  Solves
PROPERTY
  Termination
