SPECIFICATION BootFairSpec
CONSTANTS
  Lines = {0, 1, 14}
  MaxNest = 2
  TssEntry = 1090656
  MaxDevices = 52
  End = 1114112
INVARIANTS
  InterruptsAreServed
  NothingInService
  TablesUntouched
PROPERTIES
  EoiEndsOwn
  RequestsAccepted
CHECK_DEADLOCK FALSE
