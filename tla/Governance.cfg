SPECIFICATION Spec
CONSTANTS
  None = None
  repaired = repaired
  oneMore = oneMore
  mixed = mixed
  unclassified = unclassified
  Batches <- MCBatches
  Contents <- MCContents
  Versions = {v1, v2}
  Operators = {alice, bob}
  Damaged = Damaged
  Budgets <- MCBudgets
  Sightings <- MCSightings
  Ingesters = {ci, lsp}
  MinimumRuleSample = 2
  MinimumPackSample = 3
SYMMETRY MCSymmetry
INVARIANTS
  GovernanceTypeOK
  PromotionEarned
  KeyPairWhole
  ActiveCanRollBack
  IndexTellsActivations
  LedgerTruthful
  ReportsCountAnswered
  RecommendationsEarned
CHECK_DEADLOCK FALSE
