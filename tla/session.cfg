SPECIFICATION FairSpec
CONSTANTS
  RetryMax = 2
  PollBudget = 2
  MaxExpiries = 3
  MaxCursor = 2
  MaxLists = 2
  CursorGuard = 1
INVARIANTS TypeOK ReturnsCompleteJob ExpiryIsTransparent
PROPERTIES LimitIsTerminal OperationEnds
