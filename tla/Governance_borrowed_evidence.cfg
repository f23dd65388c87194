SPECIFICATION Spec
CONSTANTS
  None = None
  repaired = repaired
  oneMore = oneMore
  mixed = mixed
  unclassified = unclassified
  Batches <- MCBatches
  Contents <- MCContents
  Versions = {v1, v2}
  Operators = {alice, bob}
  Damaged = Damaged
  Budgets <- MCBorrowedBudgets
  Sightings <- MCSightings
  Ingesters = {ci, lsp}
  MinimumRuleSample = 2
  MinimumPackSample = 3
INVARIANTS
  UnknownEarnsNothing
CHECK_DEADLOCK FALSE
