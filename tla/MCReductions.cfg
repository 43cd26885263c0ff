SPECIFICATION Spec
CONSTANTS
  Contents <- SmallContents
  Inits = {0, 1}
  Groups = {g1, g2}
  Shapes <- SmallShapes
  MaxQueue = 2
  None = None
SYMMETRY Symmetry
INVARIANTS
  TypeOK
  ReductionCorrect
  AxisSumCorrect
