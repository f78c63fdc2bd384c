SPECIFICATION Spec
SYMMETRY Symmetry
CONSTANTS
  QSIZE = 2
  Ids = {0, 1, 2}
  NoId = 2
  MAX_ID = 2
  Vaddrs = {p0, p1, p2}
  ZeroVaddr = p0
  PhysAddrs <- MCPhysAddrs
  ZeroPaddr <- MCZeroPaddr
  Values = {0, 1}
  ZeroValue = 0
  None = None
  NUM_ENTRIES = 2
  DEPTH = 1
  FILL_SLEEP = 1
  STORE_SLEEP = 6
  POLLS = 2
  POLL_SLEEP = 3
  LATENCY = 1
INVARIANTS
  QueuesAreContiguous
  RequesterWaits
  QuietBetweenRoutines
  AllTestsPass
PROPERTIES
  RequestsAreThePrograms
  LinesAreNoticed
