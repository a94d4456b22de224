SPECIFICATION Spec
CONSTANTS
  a = a
  b = b
  c = c
  d = d
  NoItem = NoItem
  MaxSize = 4
  Item <- MCItem
  Key <- MCKey
INVARIANTS
  SortedBetweenCalls
PROPERTIES
  LoopsComputeOperators
