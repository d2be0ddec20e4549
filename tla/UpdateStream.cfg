\* One stream in detail: what is scheduled, coalesced and shown.
SPECIFICATION Spec
CONSTANTS
  w1 = w1
  w2 = w2
  s1 = s1
  here = here
  there = there
  NoRequest = NoRequest
  Writers <- TwoWriters
  Streams <- OneStream
  Viewports <- TwoViewports
  MaxVersion = 2
  MaxMessages = 3
CHECK_DEADLOCK FALSE
INVARIANTS
  TypeOK
  NoLostUpdate
  DeltaHasBase
  TimerMeansPending
PROPERTIES
  Settles
  DeadPeerUnsubscribes
  StuckReadersGoOn
  ImplementsLiveView
