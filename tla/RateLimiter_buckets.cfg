\* Two threads, two buckets, rates of a third and a half token per tick.
SPECIFICATION FairSpec
CONSTANTS
  write1 = write1
  write2 = write2
  peer1 = peer1
  process = process
  NoOne = NoOne
  Writers = {write1, write2}
  Buckets = {peer1, process}
  Path <- MCPath
  Lengths = {2, 3}
  Size <- MCSize
  Num <- MCNum
  Den <- MCDen
  MaxClock = 4
  MaxFailures = 1
INVARIANTS
  RateConformance
PROPERTY
  WritesReturn
CHECK_DEADLOCK FALSE
