SPECIFICATION FairSpec
CONSTANTS
  NoBlock = NoBlock
  NoWord = NoWord
  Blocks = {b1, b2}
  Words = {0, 1}
  ZeroWord = 0
  NBeats = 2
  WR_SETTLE_CYCLES = 5
  CommitDelay = 6
INVARIANTS
  TypeOK
  ReadsAreFresh
  WritesAreDurable
PROPERTIES
  ImplementsLineMemory
  ReadCompletes
  WriteCompletes
