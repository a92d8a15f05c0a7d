SPECIFICATION Spec
CONSTANTS
  Size = 3
  Threshold = 1
  Writers = {w1, w2}
  Item = {a}
  NoItem = NoItem
  UMod = 8
  Timed = TRUE
  Spurious = {"read", "write"}
INVARIANT WaitCountersExact
