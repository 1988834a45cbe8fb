CONSTANTS
  NewFlowRate = 3
  MinRate = 2
  RateMax = 3
  AiStep = 1
  DecNum = 9
  DecDen = 10
  AbortTime = 6
  TimeBits = 5
  AbortBits = 3
  Setups <- MCSetups
  Contexts <- MCContexts
  Workers <- MCWorkers
  Qpn <- MCQpn
  MaxTracked = 2
  MaxFlows = 2
  MaxReports = 3
  MaxProbes = 2
  MaxGap = 3

SPECIFICATION Spec

INVARIANTS
  TypeOK
  StartupReportHeard
  OneSlotPerQpn

PROPERTIES
  HostHearsLastRate
  ProbeGoesOn
