SPECIFICATION Spec
CONSTANTS
  k1 = k1
  k2 = k2
  Disputes <- Two
  BlockOf <- Apart
  MaxBlock = 3
  Polls = {k1, k2}
  Settings <- Disconnecting
  MaxFaults = 1
INVARIANT CatchesUpAfterDisconnect
CHECK_DEADLOCK FALSE
