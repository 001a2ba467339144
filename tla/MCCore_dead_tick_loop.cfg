SPECIFICATION FairSpec
CONSTANTS
  StartDebounce = 1
  EndOfSide = 1
  WatchdogEvery = 1
  Zones = {kitchen, lounge}
  NoZone = NoZone
  Preferred = kitchen
  Volumes = {quiet, master, loud}
  NoVolume = NoVolume
  HomeVolume = quiet
  MasterVolume = master
  DontInterruptBusy = TRUE
  PlayRetries = 2
  Workers = {w1, w2}
  NoWorker = NoWorker
  MayFail = {"name"}
  UserOps = {}
  Overlapping = {}
  MaxActs = 0
PROPERTY
  SilenceEndsTheSide
