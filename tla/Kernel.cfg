SPECIFICATION KernelFairSpec
CONSTANTS
  MaxPid = 4
  MaxNest = 2
  Exiting = {}
  Watching = {}
  NFrames = 6
  MaxTables = 6
INVARIANTS
  StackHoldsTask
PROPERTIES
  IsRoundRobin
  EveryTaskRuns
  ChildReturns
