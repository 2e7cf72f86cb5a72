CONSTANTS
  p1 = p1
  escrow = escrow
  foreign = foreign
  alice = alice
  bob = bob
  h1 = h1
  zero = zero
  NoBundle <- zero
  Escrow <- escrow
  Panels <- MCPanels
  Arbitrables <- MCArbitrables
  AcceptsEther <- MCAcceptsEther
  Choices <- MCChoices
  Amounts <- MCAmounts
  Rulings <- MCRulings
  Bundles <- MCBundles
  MaxDisputes = 2
  MaxEther = 1
  Users <- MCUsers
  TokenAmounts <- MCTokenAmounts
  InitialTokens = 3
  disputeWindow = 1
  MaxTx = 2
  MaxTime = 1
  DisputeIDs <- MCDisputeIDs
SYMMETRY MCSymmetry
SPECIFICATION Spec
INVARIANTS
  TypeOK
  DisputeMatchesTransaction
  PaidOnceInFull
  RulingDecidesPayout
  EscrowBacked
  EtherAccounted
  VerdictWellFormed
PROPERTIES
  OnlyRulingSettlesDisputed
  ImplementsCustody
  RulingIsFinal
