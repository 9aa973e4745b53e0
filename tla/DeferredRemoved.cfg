\* The same pool, asked whether a task can run after its lane was removed.
SPECIFICATION Spec
CONSTANTS
  Lanes <- TwoLanes
  WorkerCount = 2
  QueueLimit = 1
  SessionCap = 2
  MaxTasks = 3
INVARIANT RemovedNeverRuns
