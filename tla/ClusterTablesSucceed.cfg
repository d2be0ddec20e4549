\* Nothing fails, and yet a mutation can end with an error.
SPECIFICATION FaultFreeSpec
CONSTANTS
  w1 = w1
  w2 = w2
  p1 = p1
  p2 = p2
  p3 = p3
  p4 = p4
  Boot = boot
  Writers <- TwoWriters
  Points <- ThreePoints
  SeedPoints <- OneSeed
  MaxFaults = 0
CHECK_DEADLOCK TRUE
INVARIANTS
  MutationsSucceed
