SPECIFICATION CacheSpec
CONSTANTS
  Owner = {o1, o2, o3}
  BlockPtr = {p1, p2, p3, p4}
  NullPtr = NullPtr
  Size = {1, 2, 3}
  Absent = Absent
SYMMETRY Symmetry
INVARIANTS
  CacheTypeOK
  ExclusiveBlocks
  BlockFits
  CacheAccounting
  NoWorkOnReleased
PROPERTY
  ImplementsPromise
