SPECIFICATION FairSpec
CONSTANTS
  Size = 3
  Threshold = 2
  Writers = {w1, w2}
  Item = {a, b}
  NoItem = NoItem
  UMod = 8
  Timed = TRUE
  Spurious = {"write"}
INVARIANTS
  ReaderNotStranded
  WritersNotStranded
PROPERTIES
  ImplementsQueue
  BlockedWritersProgress
