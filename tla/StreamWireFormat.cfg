\* The format that wsbench asks for by default.
SPECIFICATION Spec
CONSTANTS
  east = east
  west = west
  ZeroBox = ZeroBox
  World = World
  Garbage = Garbage
  Boxes <- TwoBoxes
  Zooms <- TwoZooms
  Room = 1
  MaxSends = 3
  MaxUpdates = 1
CHECK_DEADLOCK FALSE
INVARIANTS
  BenchFormatIsHonoured
