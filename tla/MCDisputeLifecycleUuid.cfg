SPECIFICATION Spec
CONSTANTS
  m1 = m1
  m2 = m2
  m3 = m3
  None = None
  Panel <- MCPanel
  Rows <- MCPanel
  Settings <- KeeperAndUuid
SYMMETRY PanelSymmetry
INVARIANT FailedSubmissionIsRecorded
