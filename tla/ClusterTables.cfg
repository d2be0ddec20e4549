\* Faults on: statements fail, requests are cancelled, the server crashes.
SPECIFICATION Spec
CONSTANTS
  w1 = w1
  w2 = w2
  p1 = p1
  p2 = p2
  p3 = p3
  p4 = p4
  Boot = boot
  Writers <- TwoWriters
  Points <- FourPoints
  SeedPoints <- OneSeed
  MaxFaults = 3
CHECK_DEADLOCK TRUE
INVARIANTS
  TypeOK
  NoPhantomClusters
  BehindIsQueued
  BlankIsBrief
  OldSnapshotIsDoomed
  RefreshedAtRest
PROPERTIES
  ServesRefreshed
  StopLeavesRefreshed
  SuccessIsVisible
  MutationsFinish
  ServerRecovers
