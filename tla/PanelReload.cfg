SPECIFICATION Spec
CONSTANTS
  MaxInstances = 2
  Clients = {c1, c2}
  Main = Main
  None = None
  Ids = {1, 2}
  Offered <- MCOffered
  Edits = {}
  MaxRequests = 2
  MaxRestarts = 1
  MaxFaults = 0
  Handlers = {h1, h2}
  Nobody = Nobody
  MaxFail = 2
  Cap = 2
  MaxInflight = 2
  MaxCalls = 1
  MaxMishaps = 0
INVARIANT NoStaleReload
CHECK_DEADLOCK FALSE
