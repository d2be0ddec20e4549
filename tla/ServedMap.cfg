\* The REST API over the tables and the cache, stopped, crashed and restarted.
SPECIFICATION ServedSpec
CONSTANTS
  w1 = w1
  w2 = w2
  r1 = r1
  k1 = k1
  p1 = p1
  p2 = p2
  p3 = p3
  Boot = boot
  Nothing = Nothing
  Writers <- TwoWriters
  Readers <- OneReader
  Keys <- OneKey
  Points <- ThreePoints
  SeedPoints <- OneSeed
  Posts <- EveryPost
  DefaultCount = 1
  EmbeddedCount = 2
  MaxVersion = 4
  MaxFaults = 1
CHECK_DEADLOCK FALSE
INVARIANTS
  ServedTypeOK
  ShownIsStored
