SPECIFICATION SnapshotSpec
CONSTANTS
  Digest <- MCDigest
  HistoricalStreams <- MCHistorical
  Rank <- MCRank
  Absent = Absent
  Torn = Torn
  Idle = Idle
  Events <- MCChain
  Writers = {ingress}
  Operations = {"ingest_or_correct"}
  TornAppends = FALSE
  MaxClock = 0
  MaxRedeliveries = 0
  MaxInterrupts = 0
  Builders = {builder}
  MaxBuilds = 1
INVARIANT
  SupersessionResolves
CHECK_DEADLOCK FALSE
