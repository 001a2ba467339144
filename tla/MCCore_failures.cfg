SPECIFICATION Spec
CONSTANTS
  StartDebounce = 1
  EndOfSide = 1
  WatchdogEvery = 1
  Zones = {kitchen, lounge}
  NoZone = NoZone
  Preferred = NoZone
  Volumes = {quiet, master, loud}
  NoVolume = NoVolume
  HomeVolume = quiet
  MasterVolume = master
  DontInterruptBusy = TRUE
  PlayRetries = 2
  Workers = {w1, w2}
  NoWorker = NoWorker
  MayFail = {"discover", "probe", "snapshot", "master", "play", "join", "unjoin_own"}
  UserOps = {"wander"}
  Overlapping = {}
  MaxActs = 2
SYMMETRY Threads
INVARIANTS
  StoppedWhenIdle
  OneGroup
