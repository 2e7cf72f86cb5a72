SPECIFICATION Spec
CONSTANTS
  a1 = a1
  a2 = a2
  d1 = d1
  d2 = d2
  d3 = d3
  None = None
  Noone = Noone
  Names <- MCNames
  Lower <- MCLower
  WordIn <- MCWordIn
  PrefixOf <- MCPrefixOf
  PanelSize = 2
  Callers <- MCCallers
  Listings <- MCListings
  CatalogTtl = 1
  MaxTime = 1
  Answers = {"REFUND", "none"}
  Questions <- MCQuestions
  StubAnswer <- MCStubAnswer
  Bundles <- MCBundles
  Writers <- MCWriters
  EnsNames <- MCEnsNames
  SubnameSpace <- MCSpace
  Adjudications = {a1, a2}
  MaxPanels = 1
  MaxLate = 1
  Settings <- MCSettings
  ClaimantOf <- MCClaimant
  RespondentOf <- MCRespondent
  ContentOf <- MCContent
  OffsetOf <- MCOffset
  StubFamilies <- MCStub
INVARIANTS
  TypeOK
  CachedListingIsYoung
  ReplayIsFaithful
  PanelIsDiverse
  AskedAtItsModel
  VerdictIsReadable
  ReputationIsEarned
CHECK_DEADLOCK FALSE
