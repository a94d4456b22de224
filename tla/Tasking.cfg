SPECIFICATION Spec
CONSTANTS
  MaxPid = 4
  MaxNest = 2
  Exiting = {2, 3}
  Watching = {1, 3}
INVARIANTS
  TypeOK
  ReadyHasContext
  LinksLeadToYounger
  QueueIsCreationOrder
  AddressSpaceFollowsTask
  CountIsSound
  YoungestIsQueued
PROPERTIES
  ForkReturnsTwice
  ExitedStaysAway
  ExitSparesYounger
