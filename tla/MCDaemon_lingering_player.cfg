SPECIFICATION FairSpec
CONSTANTS
  Null = Null
  Scalar = Scalar
  Text = Text
  Invalid = Invalid
  Fault = Fault
  Bodies <- MCBodies
  Household = {"Kitchen"}
  Installed <- MCInstalled
  UsbIds = {"08bb:2902", "046d:0825"}
  Names = {"CODEC", "CODEC_1"}
  Lower <- MCLower
  Backoff <- MCBackoff
  AwaitClients = TRUE
  MaxEvents = 1
PROPERTY
  SavedExits
