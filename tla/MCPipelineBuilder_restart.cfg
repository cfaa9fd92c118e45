CONSTANTS
  w1 = w1
  w2 = w2
  a = a
  b = b
  c = c
  None = None
  Workers = {w1}
  Draws <- TwoDraws
  NoUcode <- Nothing
  Blacklisted <- Nothing
  Modes <- RestartModes
  kPrewarmMaxRecs = 2
  Manifests <- KnownRecord
  MaxBoots = 2
SPECIFICATION FairSpec
PROPERTIES
  SavesKeepRecords
  RequestLands
  WaitsEnd
