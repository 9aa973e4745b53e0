SPECIFICATION Spec
CONSTANTS
  MaxInstances = 2
  Clients = {c1, c2}
  Main = Main
  None = None
  Ids = {1, 2}
  Offered <- MCOffered
  Edits <- MCEdits
  MaxRequests = 2
  MaxRestarts = 1
  MaxFaults = 2
  Handlers = {h1, h2}
  Nobody = Nobody
  MaxFail = 2
  Cap = 2
  MaxInflight = 2
  MaxCalls = 4
  MaxMishaps = 1
INVARIANTS
  AckAfterLoad
  KeyringLoadable
  InSync
  SlotsAccounted
  OldPasswordGone
PROPERTIES
  PasswordChanges
  ApplyEnds
CHECK_DEADLOCK FALSE
