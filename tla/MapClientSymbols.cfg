\* A change of mode leaves wrong symbols on the map.
SPECIFICATION Spec
CONSTANTS
  a = a
  b = b
  here = here
  there = there
  one = one
  many = many
  Gone = Gone
  NoRequest = NoRequest
  Ids <- TwoIds
  Contents <- TwoContents
  Viewports <- TwoViewports
  Box <- Boxes
  Frustum <- Frustums
  MaxChanges = 0
  MaxActions = 2
  MaxDrops = 0
  MaxFlight = 2
CHECK_DEADLOCK FALSE
PROPERTIES
  SymbolsAreOfViewport
