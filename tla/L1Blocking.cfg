SPECIFICATION Spec
CONSTANTS
  Blocks = {0, 1, 2}
  Sets = {0}
  SetOf <- MCSetOf
  Offsets = {0, 1}
  Words = {0, 1}
  ZeroWord = 0
  QSLOTS = 4
  StoredTo <- MCStoredTo
  NoLine = NoLine
PROPERTIES
  ImplementsWordMemory
  RequestsAreAnswered
