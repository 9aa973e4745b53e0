SPECIFICATION Spec
CONSTANTS
  Signatures = {g1, g2, g3}
  maxServerSessionID = 2
  maxActiveSessions = 2
  sessionInitTTL = 1
  SessionTimeout = 2
  deferredIdleCleanupTimeout = 1
  ClosedSessionRetention = 1
  MaxNow = 5
  Keys = {k1, k2}
  maxRecords = 1
  invalidCookieWindow = 2
  invalidCookieThreshold = 2
  MaxClock = 6
  Ids = {1, 2}
  SynIds = {1}
  MaxActiveStreamsPerSession = 1
  RecentlyClosedCap = 1
  MaxStreams = 2
  MaxClosings = 3
  Workers = {1, 2}
  Handlers = {h1}
  MaxQueued = 1
  MaxConns = 2
  MaxEvents = 4
INVARIANTS
  NoSharedSession
  StreamBook
  UpstreamOwned
PROPERTIES
  EmitsApart
  NothingLeftOpen
CHECK_DEADLOCK FALSE
