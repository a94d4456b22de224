SPECIFICATION Spec
CONSTANTS
  CharRange = 16
  UInt = 64
  Slots = 4
  MaxArgs = 17
  HeaderSize = 12
  Names <- MCNames
  Lengths = {0, 7, 68}
  Clients = {c1, c2}
  Word = 5
  MaxFiles = 2
  DirentSize = 4
  Image = 64
  FieldOffsets = {2}
  FieldLengths = {0, 2}
  Junk <- MCJunk
PROPERTIES
  PackedIsMounted
CHECK_DEADLOCK FALSE
