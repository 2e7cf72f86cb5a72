SPECIFICATION ViewerSpec
CONSTANTS
  m1 = m1
  m2 = m2
  f1 = f1
  f2 = f2
  None = None
  Panel <- TwoModels
  Rows <- OneModel
  Settings <- LossyMirror
  Files <- NoFaults
  Prefilled <- NoFile
  Templates <- NoFile
  BrowserFaults <- NoFaults
  MayBeLost <- FinalVote
  Tiles = TRUE
  MaxOvertaken = 0
  Seeds <- SeededDisputes
INVARIANTS
  ViewerTypeOK
  OneDecisionShown
  LedgerAgrees
