SPECIFICATION Spec
CONSTANTS
  m1 = m1
  m2 = m2
  m3 = m3
  None = None
  Panel <- MCPanel
  Rows <- MCPanel
  Settings <- AnyAdapter
SYMMETRY PanelSymmetry
INVARIANTS
  TypeOK
  OutcomeIsThePanels
  RowShowsAnswer
  StreamAgreesWithRow
  SettlementFollowsVerdict
  ReputationFollowsSettlement
  VotingIsMonotone
  RulingBackedByVotes
  NoVerdictWithoutRuling
PROPERTY TerminalIsFinal
