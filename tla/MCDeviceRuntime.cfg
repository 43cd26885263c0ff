SPECIFICATION RuntimeSpec
CONSTANTS
  Stream = {s, t}
  Queue = {q1, q2}
  Device = {d0, d1}
  Id = {d0, d1, d2}
  Garbage = {TRUE, FALSE}
  DeadStream = DeadStream
  d = d
  h = h
  m = m
  Buffer = {d, m, h}
  Kind <- KindOf
  MaxPending = 2
SYMMETRY Symmetry
INVARIANTS
  RuntimeTypeOK
  UsableStreamOpen
  ResultsInOrder
