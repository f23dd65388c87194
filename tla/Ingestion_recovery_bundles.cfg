SPECIFICATION Spec
CONSTANTS
  Digest <- MCDigest
  HistoricalStreams <- MCHistorical
  Absent = Absent
  Torn = Torn
  Idle = Idle
  Events <- MCBundles
  Writers = {ingress}
  Operations = {"ingest"}
  TornAppends = FALSE
  MaxClock = 1
  MaxRedeliveries = 1
  MaxInterrupts = 2
INVARIANTS
  SoloInv
  AnswersStored
  OnlyQuarantineCollides
CHECK_DEADLOCK FALSE
