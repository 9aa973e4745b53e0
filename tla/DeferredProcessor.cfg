\* Two workers with room for one waiting task each, one session with two streams.
SPECIFICATION Spec
CONSTANTS
  Lanes <- TwoLanes
  WorkerCount = 2
  QueueLimit = 1
  SessionCap = 2
  MaxTasks = 3
INVARIANTS CountsExact SessionWithinCap RemovedStaysRemoved LaneIsSerial AcceptedRuns
PROPERTY PoolDrains
