\* Two chunks and two retries, asked whether a retransmission can be forgotten.
SPECIFICATION Spec
CONSTANTS
  Workers = {w1, w2}
  Limit = 2
  FrontBudget = 1
  MaxRetries = 2
  MaxChunks = 2
  MaxNacks = 1
INVARIANT EveryChunkRecoverable
CHECK_DEADLOCK FALSE
