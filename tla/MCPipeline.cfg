SPECIFICATION FairSpec
CONSTANTS
  Device <- MCDevice
  UsbIds = {"08bb:2902"}
  Names = {"CODEC"}
  Lower <- MCLower
  Backoff <- MCBackoff
  StartDebounce = 2
  EndOfSide = 2
  Loudest = 2
  MusicOn = 2
  MusicOff = 0
  PcmMax = 2
  MaxClicks = 2
INVARIANTS
  PipelineTypeOK
PROPERTIES
  StreamNeverStalls
  LostDeviceEnds
