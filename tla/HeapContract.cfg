SPECIFICATION ContractSpec
CONSTANTS
  Page = 4
  Start = 4
  InitialSize = 16
  MinSize = 12
  MaxAddr = 24
  Word = 64
  Sizes = {1, 4}
  Aligns = {TRUE, FALSE}
  Waived = {}
INVARIANTS
  NeverStops
  Tiled
  IndexComplete
  BlocksIntact
PROPERTIES
  IsAllocator
CHECK_DEADLOCK FALSE
