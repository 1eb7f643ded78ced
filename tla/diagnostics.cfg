SPECIFICATION Spec
CONSTANTS
  t1 = t1
  t2 = t2
  Scans <- MCScans
  Threads <- MCThreads
  MaxPages = 2
  MaxBulk = 1
  MaxHelpers = 1
INVARIANTS TypeOK RecordOfOneScan CountsOfOneScan
