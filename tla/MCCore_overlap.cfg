SPECIFICATION FairSpec
CONSTANTS
  StartDebounce = 1
  EndOfSide = 2
  WatchdogEvery = 1
  Zones = {kitchen, lounge}
  NoZone = NoZone
  Preferred = kitchen
  Volumes = {quiet}
  NoVolume = NoVolume
  HomeVolume = quiet
  MasterVolume = NoVolume
  DontInterruptBusy = TRUE
  PlayRetries = 1
  Workers = {w1, w2}
  NoWorker = NoWorker
  MayFail = {"halt", "play", "unjoin", "unjoin_own", "name"}
  UserOps = {"wander"}
  Overlapping = {"start", "stop"}
  MaxActs = 1
INVARIANTS
  CoreTypeOK
  HeldIffPlaying
PROPERTIES
  BusyLeftAlone
  WatchdogInPlaying
  TickReturns
  SideEnds
