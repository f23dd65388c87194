SPECIFICATION Spec
CONSTANTS
  Revisions <- MCRevisions
  Base = "base"
  Workflows = {"ci"}
  Shape <- MCShape
  None = None
  Running = Running
  RunIds = {1, 2}
  Jobs = {"unit", "unit2", "lint"}
  JobName <- MCJobName
  Results <- MCResults
  Lineages = {"plain", "defended"}
  Hashes <- MCHashes
  InitialWorlds <- MCRerunWorlds
  PageSize = 3
  MaxPages = 3
  MaxRetries = 1
  MaxAttempts = 5
  MaxChanges = 1
  MaxBootstraps = 2
  MaxCrashes = 1
INVARIANTS
  FlakesUncredited
CHECK_DEADLOCK FALSE
