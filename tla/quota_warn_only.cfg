SPECIFICATION Spec
CONSTANTS
  t1 = t1
  t2 = t2
  Threads <- MCThreads
  Policies <- MCPolicies
  ApiMax = 1
  MaxClock = 2
SYMMETRY MCSymmetry
INVARIANT WarnOnlyNeverBlocks
