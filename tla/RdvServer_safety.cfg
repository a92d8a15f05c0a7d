SPECIFICATION Spec
CONSTANTS
  Obj = {o1, o2, o3}
  NULL = NULL
  Addr <- ThreeEndpoints
  VpnIP = {v1, v2}
  MaxClients = 2
  PeerTimeout = 1
  CleanPeriod = 0
  SelectDelay = 1
SYMMETRY ObjSymmetry
INVARIANTS
  AddressTreeExact
  VpnTreeNotDangling
  SessionsNotDangling
  ClientLimit
  ForgottenInTime
PROPERTIES
  NoEviction
