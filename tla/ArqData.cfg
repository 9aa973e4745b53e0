\* A sequence space of ten that is used up and wraps, with windows just small
\* enough for it: the copies of a chunk survive five further chunks.
SPECIFICATION Spec
CONSTANTS
  SeqSpace = 10
  RcvWindow = 2
  Limit = 2
  Lifetime = 5
  MaxSent = 12
INVARIANTS
  TypeOK
  NoFalseAck
  NoConfusion
  FlowBound
PROPERTY
  ImplementsStream
CHECK_DEADLOCK FALSE
