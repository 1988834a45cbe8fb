SPECIFICATION FairSpec
CONSTANTS
  FullRate = 8
  Buckets = 6
  MinBuckets = 1
  EwmaNum = 1
  EwmaDen = 4
  RequestedShare <- MCRequestedShare
  MaxCnpQps = 1
  MaxFaults = 1
  MaxTimeouts = 1
INVARIANTS TypeOK NoPathStarved RulesMirrored ExitOnlyOnFault
PROPERTIES PromiseKept WantedIsApplied
CHECK_DEADLOCK FALSE
