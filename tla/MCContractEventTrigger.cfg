SPECIFICATION FairSpec
CONSTANTS
  k1 = k1
  k2 = k2
  Disputes <- Three
  BlockOf <- OneBlockHasTwo
  MaxBlock = 3
  Polls = {k1, k2}
  Settings <- AnyTrigger
  MaxFaults = 1
INVARIANTS
  TypeOK
  SeenMeansAdjudicated
  DeliveredIsTriggered
PROPERTY EveryBlockAdjudicated
CHECK_DEADLOCK FALSE
