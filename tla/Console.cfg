SPECIFICATION Spec
CONSTANTS
  Task = {1, 2}
  Programs <- MCPrograms
  Width = 3
  Height = 2
  Tab = 2
  Byte = 4
INVARIANTS
  OutputShowsText
  CursorComesBack
  NumbersReadBack
CHECK_DEADLOCK FALSE
