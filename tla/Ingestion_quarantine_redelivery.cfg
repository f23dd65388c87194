SPECIFICATION Spec
CONSTANTS
  Digest <- MCDigest
  HistoricalStreams <- MCHistorical
  Absent = Absent
  Torn = Torn
  Idle = Idle
  Events <- MCUnsafeOnly
  Writers = {ingress}
  Operations = {"ingest"}
  TornAppends = FALSE
  MaxClock = 1
  MaxRedeliveries = 1
  MaxInterrupts = 0
INVARIANT
  QuarantineIdempotent
CHECK_DEADLOCK FALSE
