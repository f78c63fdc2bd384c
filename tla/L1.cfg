SPECIFICATION L1FairSpec
CONSTANTS
  Blocks = {0, 2, 4}
  Sets = {0}
  SetOf <- MCSetOf
  Offsets = {0}
  Words = {0}
  ZeroWord = 0
  QSLOTS = 2
  NoLine = NoLine
INVARIANTS
  OneCopyPerBlock
  MissesAreAbsent
  NoFetchOfEvicted
PROPERTIES
  DirtyLinesAreWrittenBack
  MissesAreRequested
