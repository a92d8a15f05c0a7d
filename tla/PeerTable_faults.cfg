SPECIFICATION Spec
CONSTANTS
  Obj = {o1}
  NULL = NULL
  v1 = v1
  a1 = a1
  a2 = a2
  VpnIP = {v1}
  Endpoints <- MovingEndpoint
  NoAddr = NoAddr
  Local = {v1}
  Receiving = {"tun", "rdv", "sock"}
  Handshakes = TRUE
  MaxClients = 2
  Spurious = TRUE
  AllocFails = TRUE
INVARIANTS
  RefCountExact
CHECK_DEADLOCK FALSE
