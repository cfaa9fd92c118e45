CONSTANTS
  p = p
  q = q
  None = None
  Addresses = {p, q}
  Modes <- Both
  Buffers = {1, 2, 3}
  Capacities <- PowersOfTwo
  kVbBumpCap = 1
  kRelStreamRange = 3
  MaxEvents = 1
SPECIFICATION Spec
SYMMETRY Symmetry
CHECK_DEADLOCK FALSE
INVARIANTS
  TypeOK
  ReadsIntact
  OffsetsFit
  BuffersAccounted
