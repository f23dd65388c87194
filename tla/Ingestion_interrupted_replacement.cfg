SPECIFICATION Spec
CONSTANTS
  Digest <- MCDigest
  HistoricalStreams <- MCHistorical
  Absent = Absent
  Torn = Torn
  Idle = Idle
  Events <- MCPair
  Writers = {bootstrap}
  Operations = {"ingest_or_correct"}
  TornAppends = FALSE
  MaxClock = 0
  MaxRedeliveries = 0
  MaxInterrupts = 1
INVARIANT
  OneLiveClaim
CHECK_DEADLOCK FALSE
