CONSTANTS
  M = M
  A = A
  B = B
  e = e
  n = n
  s = s
  m = m
  Threads = {M, A, B}
  Main = M
  Things = {e, n, s, m}
  Kind <- MCKind
  MaxCount = 2
  Programs <- Nested
  Wrap = 4
  None = None
SPECIFICATION FairSpec
PROPERTIES
  ResumedRuns
CHECK_DEADLOCK FALSE
