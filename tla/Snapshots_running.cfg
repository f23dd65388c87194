SPECIFICATION SnapshotSpec
CONSTANTS
  Digest <- MCDigest
  HistoricalStreams <- MCHistorical
  Rank <- MCRank
  Absent = Absent
  Torn = Torn
  Idle = Idle
  Events <- MCPair
  Writers = {ingress}
  Operations = {"ingest_or_correct"}
  TornAppends = TRUE
  MaxClock = 0
  MaxRedeliveries = 0
  MaxInterrupts = 1
  Builders = {builder, other}
  MaxBuilds = 2
SYMMETRY MCBuilderSymmetry
INVARIANTS
  SnapshotTypeOK
  SnapshotInv
  BuildsTruthful
  AnsweredIncluded
  SupersessionClosed
  CalmSupersession
PROPERTIES
  SnapshotsImmutable
CHECK_DEADLOCK FALSE
