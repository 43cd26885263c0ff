SPECIFICATION PlansSpec
CONSTANTS
  Plan = {o1, o2, o3}
  Handle = {h1, h2, h3, h4, h5}
  None = None
  DeadPlan = DeadPlan
  PlanBackends <- MCBackends
  FromMoved = FALSE
CHECK_DEADLOCK FALSE
SYMMETRY Symmetry
INVARIANTS
  PlansTypeOK
  SolePlanOwner
  ExecutesOwnPlan
  MovedFromThrows
