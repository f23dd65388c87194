SPECIFICATION Spec
CONSTANTS
  Digest <- MCDigest
  HistoricalStreams <- MCHistorical
  Absent = Absent
  Torn = Torn
  Idle = Idle
  Events <- MCClaims
  Writers = {writer1, writer2}
  Operations = {"ingest_or_correct"}
  TornAppends = FALSE
  MaxClock = 0
  MaxRedeliveries = 0
  MaxInterrupts = 0
INVARIANTS
  ReferencesHold
  AnswersStored
  AnswersJournalled
  QuarantineKeepsOut
  OneLiveClaim
CHECK_DEADLOCK FALSE
SYMMETRY MCWriterSymmetry
