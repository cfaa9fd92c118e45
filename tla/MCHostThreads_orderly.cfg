CONSTANTS
  M = M
  A = A
  B = B
  e = e
  n = n
  s = s
  m = m
  Threads = {M, A, B}
  Main = M
  Things = {e, n, s, m}
  Kind <- MCKind
  MaxCount = 2
  Programs <- Orderly
  Wrap = 4
  None = None
SPECIFICATION FairSpec
CHECK_DEADLOCK FALSE
INVARIANTS
  TypeOK
  WaitsAreExact
PROPERTIES
  LocksAreReleased
  WaitsEnd
  SuspensionsEnd
