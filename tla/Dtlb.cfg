SPECIFICATION MCSpec
SYMMETRY Symmetry
CONSTANTS
  NUM_ENTRIES = 4
  DEPTH = 2
  Pages = {p0, p1, p2, p3, p4}
  Frames = {f1, f2}
  Offsets = {0}
  ZeroPage = p0
  ZeroFrame = f1
  NoFrame = NoFrame
  ZeroPaddr = ZeroPaddr
INVARIANTS
  OneEntryPerPage
  VictimWasIdle
PROPERTIES
  ImplementsTranslationBuffer
  FillsTakeEffect
  EvictsOnlyWhenFull
  EvictionsGoRound
