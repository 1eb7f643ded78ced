SPECIFICATION FairSpec
CONSTANTS
  a = a
  b = b
  c = c
  d = d
  Ids <- MCIds
  Job <- MCJob
  TicksPerSecond = 2
  MaxNow = 7
  MaxSweeps = 3
  kGetDeletedMaxLoops = 2
  kQueryAllMaxPages = 2
  STANDARD_VECTOR_SIZE = 1
INVARIANTS TypeOK CheckpointSafe EachIdOnce NeverPartial
PROPERTY CallEnds
CHECK_DEADLOCK FALSE
