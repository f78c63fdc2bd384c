SPECIFICATION PacedSpec
CONSTANTS
  Blocks = {0, 1, 2, 3}
  Sets = {0}
  SetOf <- MCSetOf
  Lines = {0, 1}
  ZeroLine = 0
  WAYS = 2
  MSHR_COUNT = 2
  USE_AVALON = TRUE
  MEM_LATENCY = 1
  Policies <- fifo_states
  Policy0 <- fifo_reset
  VictimOf <- fifo_victim
  AfterHit <- fifo_hit
  AfterRefill <- fifo_refill
  AfterInstall <- fifo_install
  NoBlock = NoBlock
  NoLine = NoLine
  L1Capacity = 2
  L1Mshrs = 1
  Varied = {1}
INVARIANTS
  NoRequestWhileBusy
  ReadIsWithTheMaster
PROPERTIES
  AvalonImplementsLineStore
  FetchesAreAnswered
