CONSTANTS
  ib = ib
  N = 4
  Word = 16
  Cpus = {0, 1}
  Bufs = {ib}
  Scripts <- MCScripts
  Asyncs <- Both
  MaxFence = 2
  None = None
SPECIFICATION FairSpec
CHECK_DEADLOCK FALSE
INVARIANTS
  TypeOK
PROPERTIES
  NothingIsSkipped
  NoInterruptIsInvented
  InterruptsArrive
  StreamDrains
