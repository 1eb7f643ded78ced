SPECIFICATION FairSpec
CONSTANTS
  Prefixes = 4
  SuffixSpan = 2
  ChunkCap = 3
  Word = 12
  Threads <- MCThreads
  ChunkSettings <- MCChunkSettings
  PageBound = 2
  kBulkMaxPages = 4
  VectorSize = 1
  InitialOrgs <- MCInitialOrgs
  ChurnBound = 1
INVARIANTS TypeOK AtMostOnce NothingLost
PROPERTIES Termination ImplementsTableScan
