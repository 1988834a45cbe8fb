SPECIFICATION Spec
CONSTANTS
  Qpn = {2, 3}
  PathIp <- MCPathIp
  Packet <- MCPacket
  RandomWidth = 16
  Whole = 262144
  MaxPackets = 1
  Setup <- BothRoles
INVARIANT AllBranchesClear
CHECK_DEADLOCK FALSE
