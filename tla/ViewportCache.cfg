\* Fills, sweeps and expiry racing each other, with failing calls.
SPECIFICATION Spec
CONSTANTS
  w1 = w1
  w2 = w2
  r1 = r1
  r2 = r2
  k1 = k1
  k2 = k2
  Nothing = Nothing
  Writers <- TwoWriters
  Readers <- TwoReaders
  Keys <- TwoKeys
  MaxVersion = 3
  MaxFaults = 1
SYMMETRY Symmetry
CHECK_DEADLOCK TRUE
INVARIANTS
  TypeOK
  StaleIsPending
  ReadAfterWrite
