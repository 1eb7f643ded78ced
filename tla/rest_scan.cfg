SPECIFICATION FairSpec
CONSTANTS
  r1 = r1
  r2 = r2
  r3 = r3
  Row <- MCRow
  PageBound = 4
  kScanMaxPages = 3
  VectorSize = 1
  InitialOrgs <- MCInitialOrgs
  ChurnBound = 1
INVARIANTS TypeOK
PROPERTIES LazyFetch Termination ImplementsTableScan
