SPECIFICATION FairSpec
CONSTANTS
  FullRate = 8
  Buckets = 6
  MinBuckets = 1
  EwmaNum = 1
  EwmaDen = 4
  RequestedShare <- MCRequestedShare
  MaxCnpQps = 0
  MaxFaults = 1
  MaxTimeouts = 0
PROPERTY AbandonedIsRetried
CHECK_DEADLOCK FALSE
