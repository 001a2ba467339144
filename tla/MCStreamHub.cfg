SPECIFICATION FairSpec
CONSTANTS
  Listeners = {p1, p2}
  Sizes = {1, 3}
  MaxBuffer = 2
  PrerollChunks = 2
  MaxUnsynced = 1
  MaxChunks = 3
INVARIANTS
  HubTypeOK
  BoundedBuffers
  CleanFeed
  GapsCounted
PROPERTIES
  ProbesDetach
  EverythingDelivered
