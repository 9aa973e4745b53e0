SPECIFICATION Spec
CONSTANTS
  Loads <- OneEachWay
  Faults = {}
INVARIANTS DrainedBeforeEOF
CHECK_DEADLOCK FALSE
