SPECIFICATION Spec
CONSTANTS
  FullRate = 1048576
  Buckets = 64
  MinBuckets = 3
  EwmaNum = 1
  EwmaDen = 8
  MaxRateFlows = 6
  ReportedRate <- MCReportedRate
INVARIANTS TallyConsistent ShareInRange ShareIsReference ShareIsSymmetric
PROPERTY ShareMonotone
CHECK_DEADLOCK FALSE
