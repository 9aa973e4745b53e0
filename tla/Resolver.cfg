SPECIFICATION Spec
CONSTANTS
  FragKeys = {q1, q2, q3}
  Totals = {1, 2}
  Lengths = {0, 1, 2}
  maxPartial = 2
  maxCompleted = 1
  maxFragmentBytes = 2
  maxAssembledBytes = 3
  maxStoreBytes = 4
  CountRange = 3
  MaxCollects = 5
  dnsUpstreamServers = 4
  maxConcurrentDNSUpstreamQueries = 2
  Workers = {w1, w2}
  Keys = {k1, k2}
  TTLs = {0, 1, 5}
  Sizes = {1, 2}
  cacheTTL = 4
  inflightTimeout = 2
  DNSInflightWaitTimeout = 1
  shardLimit = 1
  maxResponseBytes = 3
  MaxClock = 4
  MaxQueries = 3
INVARIANTS
  BudgetsExact
  
  TriesEveryServer
  SingleFlight
CHECK_DEADLOCK FALSE
