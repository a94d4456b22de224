SPECIFICATION BootFairSpec
CONSTANTS
  Lines = {0, 1, 14}
  MaxNest = 2
  TssEntry = 1090656
  MaxDevices = 1
  End = 1114112
PROPERTIES
  KeystrokesAreRead
CHECK_DEADLOCK FALSE
