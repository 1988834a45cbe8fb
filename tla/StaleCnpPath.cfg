SPECIFICATION Spec
CONSTANTS
  FullRate = 4
  Buckets = 8
  MinBuckets = 1
  EwmaNum = 1
  EwmaDen = 4
  Qpn <- ReusedQpn
  Connection <- ReusedConnection
  PathIp <- MCPathIp
  ReportedRate = {4}
  MaxRateFlows = 2
  MaxCmConnections = 2
  MaxCnpQps = 2
  MaxReports = 1
INVARIANT CnpPathIsLearnedPath
