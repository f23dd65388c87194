SPECIFICATION FairSpec
CONSTANTS
  Digest <- MCDigest
  HistoricalStreams <- MCHistorical
  Absent = Absent
  Torn = Torn
  Idle = Idle
  Events <- MCClaims
  Writers = {ingress}
  Operations = {"ingest", "ingest_or_correct"}
  TornAppends = FALSE
  MaxClock = 1
  MaxRedeliveries = 1
  MaxInterrupts = 2
INVARIANTS
  TypeOK
  StoreVerifies
  AcceptedOnce
  AnswersJournalled
  ClaimSurvives
  QuarantineKeepsOut
  JournalMatchesCorpus
PROPERTIES
  NothingOverwritten
  KeepsPromise
  CleanEventsAdmitted
CHECK_DEADLOCK FALSE
