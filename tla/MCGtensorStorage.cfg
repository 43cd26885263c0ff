SPECIFICATION Spec
CONSTANTS
  Obj = {a, b}
  Ptr = {p1, p2, p3}
  Null = Null
  Value = {v1, v2}
  Dead = Dead
  Lost = Lost
  MaxSize = 2
  MaxQueue = 2
  Backends <- MCBackends
SYMMETRY Symmetry
INVARIANTS
  TypeOK
  SoleOwner
  QueuedWorkOnOwned
PROPERTY
  ImplementsValues
