CONSTANTS
  None = None
  Shapes <- SmallShapes
SPECIFICATION SparseFairSpec
INVARIANTS
  SparseTypeOK
  WritesDisjoint
  RowsSorted
  ReadsBack
PROPERTY ConstructionEnds
