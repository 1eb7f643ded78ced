SPECIFICATION FairSpec
CONSTANTS
  Threads = {t1, t2}
  Objects = {"Account", "Contact", "Case"}
  Queried = {"Case"}
  JsonObjects = {"Case"}
  References <- MCReferences
  MaxChanges = 1
  None = None
INVARIANT TypeOK
INVARIANT NothingStale
INVARIANT DescribedOnce
INVARIANT ExpansionExact
PROPERTY LockReleased
