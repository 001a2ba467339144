SPECIFICATION Spec
CONSTANTS
  Listeners = {p1, p2}
  Sizes = {1, 3}
  MaxBuffer = 2
  PrerollChunks = 2
  MaxUnsynced = 1
  MaxChunks = 4
SYMMETRY Players
INVARIANTS
  HubTypeOK
  BoundedBuffers
  CleanFeed
  GapsCounted
