SPECIFICATION FairViewerSpec
CONSTANTS
  m1 = m1
  m2 = m2
  f1 = f1
  f2 = f2
  None = None
  Panel <- OneModel
  Rows <- OneModel
  Settings <- DirectMirror
  Files <- JustOne
  Prefilled <- OneFile
  Templates <- OneFile
  BrowserFaults <- AllFaults
  MayBeLost <- NoFaults
  Tiles = FALSE
  MaxOvertaken = 1
  Seeds <- SeededDisputes
PROPERTIES
  NothingTakenBack
  FollowerReachesVerdict
