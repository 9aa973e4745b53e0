\* One stream with three chunks in a window of two, and two workers.  The stream may
\* come to its end.
SPECIFICATION Spec
CONSTANTS
  Workers = {w1, w2}
  Limit = 2
  FrontBudget = 1
  MaxRetries = 1
  MaxChunks = 3
  MaxNacks = 1
INVARIANTS OneCopy ClosedQueueEmpty RetriesFollowDequeues FirstCopy
CHECK_DEADLOCK FALSE
