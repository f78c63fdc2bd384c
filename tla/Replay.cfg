SPECIFICATION FairSpec
CONSTANTS
  LSQ_QUEUE_SIZE = 3
  Ids = {0, 1, 2}
  Addrs = {a1}
  Values = {0, 1}
  None = None
INVARIANTS
  RingHoldsTheOutstanding
  NothingReadyIsLeft
PROPERTIES
  ImplementsSequentialMemory
  EveryAccessCommits
