SPECIFICATION Spec
CONSTANTS
  Qpn = {2, 3}
  PathIp <- MCPathIp
  Packet <- MCPacket
  RandomWidth = 16
  Whole = 262144
  MaxPackets = 2
  Setup <- MCSetup
INVARIANTS TypeOK MarkerStaysPrivate NewCeIsOwnPath IngressPreserves DeliveredOnce CountersAgree SampleRoundsDown
PROPERTY EveryPacketComesOut
CHECK_DEADLOCK FALSE
