\* The stream behind the cache, with failing calls, and what it shows in the end.
SPECIFICATION MapSpec
CONSTANTS
  w1 = w1
  s1 = s1
  c1 = c1
  here = here
  NoRequest = NoRequest
  Nothing = Nothing
  Writers <- OneWriter
  Streams <- OneStream
  Readers <- TwoReaders
  Keys <- BothModes
  CallerKeys <- OneKey
  Viewports <- OneViewport
  MaxVersion = 2
  MaxMessages = 1
  MaxFaults = 1
CHECK_DEADLOCK FALSE
INVARIANTS
  WakeupUnlessLate
  CallIsForCurrent
PROPERTIES
  SettlesUnlessLate
