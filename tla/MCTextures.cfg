CONSTANTS
  k1 = k1
  h1 = h1
  h2 = h2
  None = None
  Keys <- OneKey
  Hashes <- TwoHashes
  Start <- FirstHash
  Exts = {1}
  kExts = {1}
  Pictures = {1, 2}
  Times = {1, 2}
  Drops <- SomeDrops
  Pack <- OneFile
  MaxEvents = 2
SPECIFICATION FairSpec
INVARIANTS
  TypeOK
  GateIsSound
  PendingIsServed
  PixelsAreRight
PROPERTIES
  Settles
