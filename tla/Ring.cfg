SPECIFICATION Spec
CONSTANTS
  Size = 3
  Word = 8
  Item = {x, y, z}
  NoItem = NoItem
  Callers = {{}, {"checks"}, {"masks"}, {"checks", "masks"}}
  MaxGap = 5
INVARIANTS
  CountSpansBuffer
  CountIsBacked
PROPERTIES
  IsFifo
