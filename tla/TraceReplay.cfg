SPECIFICATION Spec
CONSTANTS
  QSIZE = 2
  Ids = {0, 1, 2, 3}
  NoId = 3
  MAX_ID = 3
  LOAD_IDS = 2
  Vaddrs = {p0, p1}
  ZeroVaddr = p0
  PhysAddrs <- MCPhysAddrs
  ZeroPaddr <- MCZeroPaddr
  Values = {0}
  ZeroValue = 0
  None = None
  NUM_ENTRIES = 2
  DEPTH = 1
  FILL_SLEEP = 1
  STORE_SLEEP = 8
  POLLS = 2
  POLL_SLEEP = 3
  LATENCY = 1
PROPERTY
  LinesAreNoticed
