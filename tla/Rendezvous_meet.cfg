SPECIFICATION FairSpec
CONSTANTS
  c1 = c1
  c2 = c2
  Clients = {c1, c2}
  Local = {c1, c2}
  Busy = {c1}
  Fresh = {c1}
  EndpointOf <- TwoNetworks
  Obj = {o1, o2}
  NULL = NULL
  MaxTries = 2
  MaxFaults = 1
  MaxNet = 2
PROPERTIES
  
  HalfOpenEnds
  
  StoppedForgotten
  
CHECK_DEADLOCK FALSE
