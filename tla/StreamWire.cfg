\* Three programs talk to the stream over sockets that are soon full.
SPECIFICATION Spec
CONSTANTS
  east = east
  west = west
  ZeroBox = ZeroBox
  World = World
  Garbage = Garbage
  Boxes <- TwoBoxes
  Zooms <- TwoZooms
  Room = 1
  MaxSends = 4
  MaxUpdates = 1
CHECK_DEADLOCK FALSE
INVARIANTS
  TypeOK
  AnsweredAsAsked
PROPERTIES
  BenchmarkEnds
