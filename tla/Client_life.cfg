\* Start-up, every configuration near the plain one, sessions and reloads, and
\* four signals at any time.
SPECIFICATION FairSpec
CONSTANTS
  UShortMax = 255
  IntMax = 32767
  UIntMax = 65535
  ULongMax = 1048575
  AddrBits = 4
  Files <- MCFiles
  Interfaces <- MCInterfaces
  Signals = {"TERM", "USR1", "USR2"}
  MaxSignals = 4
  MaxTries = 2
INVARIANTS
  BucketsHoldMessages
  BroadcastIsLast
  
  ContextsUsable
  
PROPERTIES
  NoAbortInSession
  
  
CHECK_DEADLOCK FALSE
