SPECIFICATION Spec
CONSTANTS
  Loads <- OneEitherWay
  Faults = {"read", "write", "owner"}
INVARIANTS NoTruncation CloseReadFollowsData NobodyLeftBehind KeepsTrying
PROPERTIES ResetEnds
CHECK_DEADLOCK FALSE
