SPECIFICATION Spec
CONSTANTS
  NFrames = 5
  NPages = 2
  HeapPages = 1
  Stack = 3
  MaxTables = 5
  MaxDirs = 3
  Value = {0, 1}
  Blank = 0
  Zeroed = 2
  Frees = TRUE
INVARIANTS
  FramesExclusive
  IdentityMapped
  CloneIsCopy
  HeapSeenEverywhere
PROPERTIES
  MemorySpacesApart
