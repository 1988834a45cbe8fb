SPECIFICATION Spec
CONSTANTS
  FullRate = 4
  Buckets = 8
  MinBuckets = 1
  EwmaNum = 1
  EwmaDen = 4
  Qpn <- MCQpn
  Connection <- MCConnection
  PathIp <- MCPathIp
  ReportedRate = {1, 4}
  MaxRateFlows = 2
  MaxCmConnections = 2
  MaxCnpQps = 2
  MaxReports = 1
INVARIANTS TypeOK PendingHasNoMapping GroupedByReceiver OneEntryEach TallyIsOfTheTable
PROPERTY ReducedForGood
