SPECIFICATION Spec
CONSTANTS
  Obj = {o1, o2}
  NULL = NULL
  v1 = v1
  a1 = a1
  a2 = a2
  VpnIP = {v1}
  Endpoints <- FixedEndpoint
  NoAddr = NoAddr
  Local = {v1}
  Receiving = {"tun", "rdv"}
  Handshakes = FALSE
  MaxClients = 2
  Spurious = FALSE
  AllocFails = FALSE
SYMMETRY ObjSymmetry
INVARIANTS
  NoUseAfterFree
  TreesNotDangling
CHECK_DEADLOCK FALSE
