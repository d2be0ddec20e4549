\* The level of clusters that answers a viewport.
SPECIFICATION Spec
CONSTANTS
  Zooms <- AnyZoom
  Coordinates <- AnyCoordinate
  Counts <- EveryThreshold
CHECK_DEADLOCK TRUE
INVARIANTS
  SqlAgreesWithGo
  LevelIsStored
  NormalBoxIsBox
PROPERTIES
  CrowdsAreCoarser
