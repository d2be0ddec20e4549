\* Nothing fails, and yet a late fill leaves a stream behind.
SPECIFICATION MapSpec
CONSTANTS
  w1 = w1
  s1 = s1
  c1 = c1
  here = here
  NoRequest = NoRequest
  Nothing = Nothing
  Writers <- OneWriter
  Streams <- OneStream
  Readers <- TwoReaders
  Keys <- BothModes
  CallerKeys <- OneKey
  Viewports <- OneViewport
  MaxVersion = 1
  MaxMessages = 1
  MaxFaults = 0
CHECK_DEADLOCK FALSE
PROPERTIES
  StreamsAsTheMapChanges
