SPECIFICATION Spec
CONSTANTS
  Shapes <- MCShapes
  Spans <- MCSpans
  Slices <- MCSlices
  None = None
  MaxViews = 2
  MaxDims = 3
  Careful = TRUE
CHECK_DEADLOCK FALSE
INVARIANTS
  TypeOK
  AccessCorrect
  KernelVisitsEachOnce
