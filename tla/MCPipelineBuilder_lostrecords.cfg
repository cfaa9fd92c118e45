CONSTANTS
  w1 = w1
  w2 = w2
  a = a
  b = b
  c = c
  None = None
  Workers = {w1}
  Draws <- TwoDraws
  NoUcode <- Nothing
  Blacklisted <- Nothing
  Modes <- PlainMode
  kPrewarmMaxRecs = 3
  Manifests <- OneRecord
  MaxBoots = 1
SPECIFICATION Spec
INVARIANTS
  ShutdownWaitsForWriter
