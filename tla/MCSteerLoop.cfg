SPECIFICATION Spec
CONSTANTS
  FullRate = 4
  Buckets = 4
  MinBuckets = 1
  EwmaNum = 1
  EwmaDen = 4
  Qpn <- MCQpn
  Connection <- MCConnection
  PathIp <- MCPathIp
  ReportedRate = {1, 4}
  MaxRateFlows = 2
  MaxCmConnections = 2
  MaxReports = 1
  MaxFaults = 1
  MaxTimeouts = 1
  MaxTotalReports = 4
PROPERTIES LoopRefinesDispatch LoopSettles
CHECK_DEADLOCK FALSE
