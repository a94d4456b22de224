SPECIFICATION AllocOnlySpec
CONSTANTS
  Page = 4
  Start = 4
  InitialSize = 16
  MinSize = 8
  MaxAddr = 28
  Word = 64
  Sizes = {1, 2}
  Aligns = {TRUE}
  Waived = {}
PROPERTIES
  HandsOutHole
