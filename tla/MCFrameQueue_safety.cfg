CONSTANTS
  Fbs <- TwoFbs
  Modes <- Both
  Refreshes <- Both
  kMaxBuilding <- Building
  kMaxPending = 1
  kMaxHolds = 1
  MaxDraws = 2
  MaxSwaps = 3
SPECIFICATION FairSpec
CHECK_DEADLOCK FALSE
INVARIANTS
  TypeOK
  DrawsInOrder
  NoLostWakeup
PROPERTIES
  FramesAreWhole
  ChunkTaken
  PresentThreadEnds
