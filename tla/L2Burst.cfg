SPECIFICATION BurstSpec
SYMMETRY Symmetry
CONSTANTS
  Blocks <- MCBlocks
  Set0 = {a1, a2, a3}
  Set1 = {b1, b2, b3}
  Sets = {0, 1}
  SetOf <- MCSetOf
  Lines = {0}
  ZeroLine = 0
  WAYS = 2
  MSHR_COUNT = 2
  USE_AVALON = TRUE
  MEM_LATENCY = 1
  Policies <- fifo_states
  Policy0 <- fifo_reset
  VictimOf <- fifo_victim
  AfterHit <- fifo_hit
  AfterRefill <- fifo_refill
  AfterInstall <- fifo_install
  NoBlock = NoBlock
  NoLine = NoLine
  L1Capacity = 1
  L1Mshrs = 2
  Varied = {}
PROPERTY
  BothEvictionsAreKept
CHECK_DEADLOCK FALSE
