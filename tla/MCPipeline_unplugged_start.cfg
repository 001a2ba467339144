SPECIFICATION Spec
CONSTANTS
  Device <- MCDevice
  UsbIds = {"08bb:2902"}
  Names = {"CODEC"}
  Lower <- MCLower
  Backoff <- MCBackoff
  StartDebounce = 2
  EndOfSide = 1
  Loudest = 2
  MusicOn = 2
  MusicOff = 0
  PcmMax = 2
  MaxClicks = 0
PROPERTY
  StartIsHeard
