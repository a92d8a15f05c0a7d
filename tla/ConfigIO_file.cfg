SPECIFICATION FairSpec
CONSTANTS
  KeyOf <- MCKeyOf
  Files <- MCFiles
  Wanted <- MCWanted
INVARIANTS
  WritesBack
  
PROPERTIES
  ExpansionReturns
CHECK_DEADLOCK FALSE
