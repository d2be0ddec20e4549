\* Snapshots, deltas, toggles, moves and lost connections.
SPECIFICATION Spec
CONSTANTS
  a = a
  b = b
  here = here
  there = there
  one = one
  many = many
  Gone = Gone
  NoRequest = NoRequest
  Ids <- TwoIds
  Contents <- TwoContents
  Viewports <- TwoViewports
  Box <- Boxes
  Frustum <- Frustums
  MaxChanges = 1
  MaxActions = 3
  MaxDrops = 1
  MaxFlight = 2
CHECK_DEADLOCK FALSE
INVARIANTS
  TypeOK
  StoreFollowsServer
  StoreOfOneMode
  LayersUnlessGhosts
  HeatShowsStore
PROPERTIES
  StoreCatchesUp
