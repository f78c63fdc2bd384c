SPECIFICATION Spec
SYMMETRY Symmetry
CONSTANTS
  Blocks = {b1, b2, b3, b4, b5}
  Sets = {0}
  SetOf <- MCSetOf
  Lines = {0, 1}
  ZeroLine = 0
  WAYS = 4
  MSHR_COUNT = 2
  USE_AVALON = FALSE
  MEM_LATENCY = 3
  Policies <- plru_states
  Policy0 <- plru_reset
  VictimOf <- plru_victim
  AfterHit <- plru_hit
  AfterRefill <- plru_refill
  AfterInstall <- plru_install
  NoBlock = NoBlock
  NoLine = NoLine
  L1Capacity = 1
  L1Mshrs = 1
  Varied = {b1}
PROPERTIES
  ImplementsLineStore
  InstalledIsNotNextVictim
