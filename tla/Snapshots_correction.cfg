SPECIFICATION SnapshotSpec
CONSTANTS
  Digest <- MCDigest
  HistoricalStreams <- MCHistorical
  Rank <- MCRank
  Absent = Absent
  Torn = Torn
  Idle = Idle
  Events <- MCPair
  Writers = {ingress}
  Operations = {"ingest_or_correct"}
  TornAppends = FALSE
  MaxClock = 0
  MaxRedeliveries = 0
  MaxInterrupts = 0
  Builders = {builder}
  MaxBuilds = 2
INVARIANT
  CorrectionsMakeSnapshots
CHECK_DEADLOCK FALSE
