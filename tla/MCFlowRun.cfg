SPECIFICATION Spec
CONSTANTS
  RandomWidth = 2
  NaN = NaN
  Percents <- MCPercents
  Samples <- MCSamples
  Uint32Range = 4
  RxRing = 2
  RxBurst = 2
  MaxPackets = 3
  MaxKeys = 1
INVARIANTS TypeOK DependenciesHeld ForwardsAsPromised CopiesAccountedFor TerminalRestored
PROPERTIES InterruptStops
CHECK_DEADLOCK FALSE
