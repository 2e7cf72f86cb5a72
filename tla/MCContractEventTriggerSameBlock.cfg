SPECIFICATION Spec
CONSTANTS
  k1 = k1
  k2 = k2
  Disputes <- Three
  BlockOf <- OneBlockHasTwo
  MaxBlock = 3
  Polls = {k1, k2}
  Settings <- PollingOnly
  MaxFaults = 1
INVARIANT NeverMissesAnEvent
CHECK_DEADLOCK FALSE
