CONSTANTS
  w1 = w1
  w2 = w2
  a = a
  b = b
  c = c
  None = None
  Workers = {w1, w2}
  Draws <- AllDraws
  NoUcode <- SomeNoUcode
  Blacklisted <- JustC
  Modes <- SafetyModes
  kPrewarmMaxRecs = 4
  Manifests <- SafetyManifests
  MaxBoots = 1
SPECIFICATION Spec
SYMMETRY Symmetry
INVARIANTS
  TypeOK
  QueueIsServed
  RecordsSurviveShutdown
PROPERTIES
  PipelinesAreKept
  WarmIsComplete
