SPECIFICATION FairSpec
CONSTANTS
  m1 = m1
  m2 = m2
  m3 = m3
  None = None
  Panel <- MCPair
  Rows <- MCPair
  Settings <- LossyOrLate
INVARIANT OutcomeIsThePanels
PROPERTIES
  AdjudicationEnds
  EveryDisputeDecided
