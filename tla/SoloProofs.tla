----------------------------- MODULE SoloProofs -----------------------------
(***************************************************************************)
(* What a single writer keeps, when an interruption falls anywhere but     *)
(* inside a ledger append: every safety property of Ingestion.             *)
(***************************************************************************)
EXTENDS IngestionProofs, FunctionTheorems, FiniteSetTheorems

USE DEF environment, storeVars

Solo == SingleWriter /\ ~TornAppends

-----------------------------------------------------------------------------
(***************************************************************************)
(* Nothing is overwritten.                                                 *)
(***************************************************************************)

\* What a writer at work may count on.
LEMMA AtWork ==
  ASSUME SoloInv, NEW w \in Writers, job[w] # Idle
  PROVE  /\ SoloJob(job[w])
         /\ JobOwned(job[w], Admitted)
         /\ TypeInv
BY DEF SoloInv, OwnInv, JobsOwned

\* Progress of a writer is the action of the step it is at.
LEMMA StepTaken ==
  ASSUME NEW w \in Writers, Progress(w)
  PROVE  \/ At(w, "read_record") /\ ReadRecord(w)
         \/ At(w, "write_record") /\ WriteRecord(w)
         \/ At(w, "replace_record") /\ ReplaceRecord(w)
         \/ At(w, "read_index") /\ ReadIndex(w)
         \/ At(w, "replace_index") /\ ReplaceIndex(w)
         \/ At(w, "project_learning") /\ ProjectLearning(w)
         \/ At(w, "write_observations") /\ WriteObservations(w)
         \/ At(w, "replace_observations") /\ ReplaceObservations(w)
         \/ At(w, "write_quarantine") /\ WriteQuarantine(w)
         \/ At(w, "replace_quarantine") /\ ReplaceQuarantine(w)
         \/ At(w, "append_ledger") /\ AppendLedger(w)
         \/ At(w, "find_claims") /\ FindClaims(w)
         \/ At(w, "find_predecessors") /\ FindPredecessors(w)
         \/ At(w, "write_correction") /\ WriteCorrection(w)
         \/ At(w, "replace_correction") /\ ReplaceCorrection(w)
         \/ At(w, "write_correction") /\ CorrectionsDone(w)
         \/ At(w, "reply") /\ Reply(w)
<1>1. ReadRecord(w) => At(w, "read_record")
  BY DEF ReadRecord
<1>2. WriteRecord(w) => At(w, "write_record")
  BY DEF WriteRecord
<1>3. ReplaceRecord(w) => At(w, "replace_record")
  BY DEF ReplaceRecord
<1>4. ReadIndex(w) => At(w, "read_index")
  BY DEF ReadIndex
<1>5. ReplaceIndex(w) => At(w, "replace_index")
  BY DEF ReplaceIndex
<1>6. ProjectLearning(w) => At(w, "project_learning")
  BY DEF ProjectLearning
<1>7. WriteObservations(w) => At(w, "write_observations")
  BY DEF WriteObservations
<1>8. ReplaceObservations(w) => At(w, "replace_observations")
  BY DEF ReplaceObservations
<1>9. WriteQuarantine(w) => At(w, "write_quarantine")
  BY DEF WriteQuarantine
<1>10. ReplaceQuarantine(w) => At(w, "replace_quarantine")
  BY DEF ReplaceQuarantine
<1>11. AppendLedger(w) => At(w, "append_ledger")
  BY DEF AppendLedger
<1>12. FindClaims(w) => At(w, "find_claims")
  BY DEF FindClaims
<1>13. FindPredecessors(w) => At(w, "find_predecessors")
  BY DEF FindPredecessors
<1>14. WriteCorrection(w) => At(w, "write_correction")
  BY DEF WriteCorrection
<1>15. ReplaceCorrection(w) => At(w, "replace_correction")
  BY DEF ReplaceCorrection
<1>16. CorrectionsDone(w) => At(w, "write_correction")
  BY DEF CorrectionsDone
<1>17. Reply(w) => At(w, "reply")
  BY DEF Reply
<1> QED
  BY <1>1, <1>2, <1>3, <1>4, <1>5, <1>6, <1>7, <1>8, <1>9,
     <1>10, <1>11, <1>12, <1>13, <1>14, <1>15, <1>16, <1>17 DEF Progress

\* A writer between two deliveries has nothing to go on with.
LEMMA AtRest ==
  ASSUME NEW w \in Writers, job[w] = Idle
  PROVE  ~Progress(w) /\ ~Interrupt(w)
BY StepTaken DEF At, Interrupt

\* The ledger of a single writer is a sequence of entries.
LEMMA LedgerTyped ==
  ASSUME SoloInv
  PROVE  /\ ledger \in Seq(LedgerEntries \cup {Torn})
         /\ DOMAIN ledger = 1 .. Len(ledger)
         /\ Len(ledger) \in Nat
         /\ \A i \in DOMAIN ledger : ledger[i] \in LedgerEntries /\ ledger[i] # Torn
<1>1. ledger \in Seq(LedgerEntries \cup {Torn})
  BY DEF SoloInv, OwnInv, TypeInv, TypeOK, StoreTypeOK
<1>2. \A i \in 1 .. Len(ledger) : ledger[i] \in LedgerEntries \cup {Torn}
  BY <1>1, ElementOfSeq
<1> QED BY <1>1, <1>2, LenProperties DEF SoloInv, LedgerParses

\* The only change of the ledger is one whole line at its end.
LEMMA OneLine ==
  ASSUME Solo, SoloInv, [Next]_vars
  PROVE  \/ UNCHANGED <<ledger, terminated>>
         \/ \E w \in Writers :
              /\ AppendLedger(w)
              /\ ledger' = Append(ledger, Entry(w))
              /\ terminated' = TRUE
BY WholeLine DEF Solo, SoloInv

\* An appended line is the last one, and the others are as they were.
LEMMA Appended ==
  ASSUME SoloInv, NEW w \in Writers, job[w] # Idle,
         ledger' = Append(ledger, Entry(w))
  PROVE  /\ Len(ledger') = Len(ledger) + 1
         /\ DOMAIN ledger' = 1 .. Len(ledger) + 1
         /\ \A i \in DOMAIN ledger : i \in DOMAIN ledger' /\ ledger'[i] = ledger[i]
         /\ ledger'[Len(ledger) + 1] = Entry(w)
         /\ Entry(w) \in LedgerEntries
         /\ Entry(w) # Torn
<1> DEFINE S == LedgerEntries \cup {Torn}
<1>1. Entry(w) \in LedgerEntries /\ Entry(w) # Torn
  BY EventTyped, AtWork, TornIsNoEntry
<1>2. /\ ledger' \in Seq(S)
      /\ Len(ledger') = Len(ledger) + 1
      /\ \A i \in 1 .. Len(ledger) : ledger'[i] = ledger[i]
      /\ ledger'[Len(ledger) + 1] = Entry(w)
  BY <1>1, LedgerTyped, AppendProperties
<1>3. DOMAIN ledger' = 1 .. Len(ledger) + 1
  BY <1>2, LenProperties
<1> QED BY <1>1, <1>2, <1>3, LedgerTyped

\* What NothingOverwritten says of one step.
Kept ==
  /\ \A r \in RecordIds :
       /\ Stored(r) => records'[r] = records[r]
       /\ observations[r] # Absent => observations'[r] = observations[r]
  /\ \A e \in Events : quarantine[e] # Absent => quarantine'[e] = quarantine[e]
  /\ \A c \in CorrectionIds :
       corrections[c] # Absent => corrections'[c] = corrections[c]
  /\ \A i \in DOMAIN ledger : i \in DOMAIN ledger' /\ ledger'[i] = ledger[i]

\* Each file replacement of a single writer finds no file in its place.
LEMMA KeptStep ==
  ASSUME Solo, SoloInv, [Next]_vars
  PROVE  Kept
<1>a. StoreTypeOK
  BY DEF SoloInv, OwnInv, TypeInv, TypeOK
<1>1. \A r \in RecordIds : Stored(r) => records'[r] = records[r]
  <2>1. ASSUME NEW w \in Writers, At(w, "replace_record")
        PROVE  ~Stored(RecordId(job[w].event))
    BY <2>1, AtWork DEF At, SoloJob, SoloRecord
  <2> QED BY <1>a, <2>1, RecordsChange DEF StoreTypeOK
<1>2. \A r \in RecordIds :
        observations[r] # Absent => observations'[r] = observations[r]
  <2>1. ASSUME NEW w \in Writers, At(w, "replace_observations")
        PROVE  observations[RecordId(job[w].event)] = Absent
    BY <2>1, AtWork DEF At, SoloJob, SoloFiles
  <2> QED BY <1>a, <2>1, ObservationsChange DEF StoreTypeOK
<1>3. \A e \in Events : quarantine[e] # Absent => quarantine'[e] = quarantine[e]
  <2>1. ASSUME NEW w \in Writers, ReplaceQuarantine(w)
        PROVE  /\ quarantine[job[w].event] = Absent
               /\ quarantine' = [quarantine EXCEPT ![job[w].event] = job[w].observed_at]
    BY <2>1, AtWork DEF ReplaceQuarantine, At, SoloJob, SoloFiles
  <2>2. \/ UNCHANGED quarantine
        \/ \E w \in Writers : ReplaceQuarantine(w)
    BY StoreSteps
    DEF ReplaceRecord, ReplaceIndex, ReplaceObservations, AppendLedger,
        ReplaceCorrection, Interrupt
  <2> QED BY <1>a, <2>1, <2>2 DEF StoreTypeOK
<1>4. \A c \in CorrectionIds :
        corrections[c] # Absent => corrections'[c] = corrections[c]
  <2>1. ASSUME NEW w \in Writers, At(w, "replace_correction")
        PROVE  corrections[<<job[w].target, job[w].event.event_id>>] = Absent
    <3>1. ~Corrected(job[w].target)
      BY <2>1, AtWork DEF At, SoloJob, SoloTargets
    <3>2. job[w].event.event_id \in EventIds
      BY <2>1, AtWork, EventTyped DEF At, EventIds
    <3> QED BY <3>1, <3>2 DEF Corrected
  <2> QED BY <1>a, <2>1, CorrectionsChange DEF StoreTypeOK
<1>5. \A i \in DOMAIN ledger : i \in DOMAIN ledger' /\ ledger'[i] = ledger[i]
  BY OneLine, Appended DEF AppendLedger, At
<1> QED BY <1>1, <1>2, <1>3, <1>4, <1>5 DEF Kept

-----------------------------------------------------------------------------
(***************************************************************************)
(* The ledger.                                                             *)
(***************************************************************************)
LEMMA LedgerStep ==
  ASSUME Solo, SoloInv, [Next]_vars
  PROVE  (terminated /\ LedgerParses /\ LedgerNumbered /\ AcceptedOnce)'
<1>a. terminated /\ LedgerParses /\ LedgerNumbered /\ AcceptedOnce
  BY DEF SoloInv
<1>1. CASE UNCHANGED <<ledger, terminated>>
  BY <1>1, <1>a DEF LedgerParses, LedgerNumbered, AcceptedOnce
<1>2. ASSUME NEW w \in Writers, AppendLedger(w),
             ledger' = Append(ledger, Entry(w)), terminated' = TRUE
      PROVE  (terminated /\ LedgerParses /\ LedgerNumbered /\ AcceptedOnce)'
  <2> DEFINE n == Len(ledger) + 1
  <2>1. job[w] # Idle /\ job[w].step = "append_ledger"
    BY <1>2 DEF AppendLedger, At
  <2>2. SoloJournal(job[w])
    BY <2>1, AtWork DEF SoloJob
  <2>3. /\ DOMAIN ledger' = 1 .. n
        /\ DOMAIN ledger = 1 .. Len(ledger)
        /\ Len(ledger) \in Nat
        /\ \A i \in DOMAIN ledger : ledger'[i] = ledger[i]
        /\ ledger'[n] = Entry(w)
        /\ Entry(w) # Torn
    BY <1>2, <2>1, Appended, LedgerTyped
  <2>4. \A i \in DOMAIN ledger' : i \in DOMAIN ledger \/ i = n
    BY <2>3
  <2> HIDE DEF n
  <2>5. LedgerParses'
    BY <1>a, <2>3, <2>4 DEF LedgerParses
  <2>6. Entry(w).sequence = n
    BY <2>1, <2>2 DEF SoloJournal, AfterEntrySteps, CorrectionSteps, Entry,
                      NextSequence, n
  <2>7. LedgerNumbered'
    BY <1>a, <2>3, <2>4, <2>6 DEF LedgerNumbered
  <2>8. ASSUME Entry(w).disposition = "accepted",
               NEW i \in DOMAIN ledger, ledger[i].disposition = "accepted",
               ledger[i] # Torn
        PROVE  RecordId(ledger[i].event) # RecordId(Entry(w).event)
    BY <2>1, <2>2, <2>8
    DEF SoloJournal, AfterEntrySteps, CorrectionSteps, Entry, AcceptedLine
  <2>9. AcceptedOnce'
    BY <1>a, <2>3, <2>4, <2>8 DEF AcceptedOnce
  <2> QED BY <1>2, <2>5, <2>7, <2>9
<1> QED BY <1>1, <1>2, OneLine

\* Lines stay, and a new one says what its delivery has to say.
LEMMA JournalledStays ==
  ASSUME Solo, SoloInv, [Next]_vars, NEW e, NEW disposition,
         JournalledAs(e, disposition)
  PROVE  JournalledAs(e, disposition)'
<1>1. PICK i \in DOMAIN ledger : /\ ledger[i].event = e
                                 /\ ledger[i].disposition = disposition
                                 /\ ledger[i] # Torn
  BY DEF JournalledAs
<1>2. i \in DOMAIN ledger' /\ ledger'[i] = ledger[i]
  BY <1>1, KeptStep DEF Kept
<1> QED BY <1>1, <1>2 DEF JournalledAs

-----------------------------------------------------------------------------
(***************************************************************************)
(* Answers and the files they speak of.                                    *)
(***************************************************************************)
LEMMA AnswersStoredStep ==
  ASSUME Solo, SoloInv, [Next]_vars
  PROVE  AnswersStored'
<1> DEFINE Admits(e) == /\ Stored(RecordId(e))
                        /\ records[RecordId(e)].content_hash = e.payload
                        /\ e.rows # Absent => observations[RecordId(e)] # Absent
<1>1. ASSUME NEW e \in Events, Admits(e)
      PROVE  Admits(e)'
  BY <1>1, KeptStep DEF Kept, RecordIds, Stored
<1>2. ASSUME NEW e \in Events, NEW d \in {"accepted", "duplicate"}, <<e, d>> \in answers'
      PROVE  Admits(e)'
  <2>1. CASE <<e, d>> \in answers
    BY <1>1, <2>1 DEF SoloInv, AnswersStored
  <2>2. ASSUME NEW w \in Writers, Reply(w), e = job[w].event, d = job[w].disposition
        PROVE  Admits(e)
    <3>1. /\ SoloRecord(job[w]) /\ SoloFiles(job[w])
          /\ JobOwned(job[w], Admitted) /\ job[w].step = "reply"
      BY <2>2, AtWork DEF Reply, At, SoloJob
    <3>2. Stored(RecordId(e)) /\ (e.rows # Absent => observations[RecordId(e)] # Absent)
      BY <2>2, <3>1
      DEF JobOwned, Admitted, RecordSteps, SoloFiles, AfterEntrySteps
    <3>3. records[RecordId(e)].content_hash = e.payload
      BY <2>2, <3>1 DEF SoloRecord, RecordSteps, RecordDocument
    <3> QED BY <3>2, <3>3
  <2> QED BY <1>1, <1>2, <2>1, <2>2, AnswersChange DEF Reply, Refused, Collide
<1>3. ASSUME NEW e \in Events, <<e, "quarantined">> \in answers'
      PROVE  quarantine'[e] # Absent
  <2>1. CASE <<e, "quarantined">> \in answers
    BY <2>1, KeptStep DEF SoloInv, AnswersStored, Kept
  <2>2. ASSUME NEW w \in Writers, Reply(w), e = job[w].event,
               job[w].disposition = "quarantined"
        PROVE  quarantine'[e] # Absent
    <3>1. quarantine[e] # Absent
      BY <2>2, AtWork DEF Reply, At, SoloJob, SoloFiles, AfterEntrySteps
    <3> QED BY <3>1, KeptStep DEF Kept
  <2> QED BY <1>3, <2>1, <2>2, AnswersChange DEF Reply, Refused, Collide
<1> QED BY <1>2, <1>3 DEF AnswersStored

\* A refused write finds a quarantine document of its event.
LEMMA CollisionStep ==
  ASSUME Solo, SoloInv, [Next]_vars
  PROVE  OnlyQuarantineCollides'
<1>1. ASSUME NEW w \in Writers, At(w, "write_record")
      PROVE  records[RecordId(job[w].event)] = Absent
  BY <1>1, AtWork DEF At, SoloJob, SoloRecord, Stored
<1>2. ASSUME NEW w \in Writers, At(w, "write_observations")
      PROVE  observations[RecordId(job[w].event)] = Absent
  BY <1>2, AtWork DEF At, SoloJob, SoloFiles
<1>3. ASSUME NEW w \in Writers, At(w, "write_correction"), NEW t \in job[w].targets
      PROVE  corrections[<<t, job[w].event.event_id>>] = Absent
  <2>1. ~Corrected(t)
    BY <1>3, AtWork DEF At, SoloJob, SoloTargets
  <2>2. job[w].event.event_id \in EventIds
    BY <1>3, AtWork, EventTyped DEF At, EventIds
  <2> QED BY <2>1, <2>2 DEF Corrected
<1>4. ASSUME NEW e \in Events, <<e, "collision">> \in answers'
      PROVE  quarantine[e] # Absent
  <2>1. CASE <<e, "collision">> \in answers
    BY <2>1 DEF SoloInv, OnlyQuarantineCollides
  <2>2. ASSUME NEW w \in Writers, Refused(w), e = job[w].event
        PROVE  quarantine[e] # Absent
    BY <1>1, <1>2, <1>3, <2>2 DEF Refused
  <2>3. ASSUME NEW w \in Writers, Reply(w)
        PROVE  job[w].disposition # "collision"
    BY <2>3, AtWork, EventTyped DEF Reply, At, Jobs, Dispositions
  <2> QED BY <1>4, <2>1, <2>2, <2>3, AnswersChange DEF Reply, Refused, Collide
<1> QED BY <1>4, KeptStep DEF OnlyQuarantineCollides, Kept

-----------------------------------------------------------------------------
(***************************************************************************)
(* Corrections.                                                            *)
(***************************************************************************)

\* What a writer knows when it replaces a correction.
LEMMA Correcting ==
  ASSUME SoloInv, NEW w \in Writers, At(w, "replace_correction")
  PROVE  LET e == job[w].event
             t == job[w].target
         IN /\ t \in HistoricalClaims(e)
            /\ ~Corrected(t)
            /\ IsHistorical(e)
            /\ RecordId(e) \in RecordIds
            /\ records[RecordId(e)] = RecordDocument(e)
            /\ IsLive(RecordId(e))
            /\ JournalledAs(e, "accepted")
<1>1. SoloJob(job[w]) /\ job[w].step = "replace_correction"
  BY AtWork DEF At
<1>2. RecordId(job[w].event) \in RecordIds /\ RecordDocument(job[w].event) # Absent
  BY AtWork, EventTyped, AbsentIsNoDocument DEF At
<1> QED
  BY <1>1, <1>2
  DEF SoloJob, SoloTargets, SoloRecord, SoloJournal, CorrectionSteps,
      AfterEntrySteps, RecordSteps, IsLive, Stored

\* A new correction leaves its own claim live, and retires no other survivor
\* without replacing it.
LEMMA ClaimSurvivesStep ==
  ASSUME Solo, SoloInv, [Next]_vars
  PROVE  ClaimSurvives'
<1>a. /\ records \in [RecordIds -> RecordDocuments \cup {Absent}]
      /\ corrections \in [CorrectionIds -> Nat \cup {Absent}]
  BY DEF SoloInv, OwnInv, TypeInv, TypeOK, StoreTypeOK
<1> DEFINE Survivor(s, r, id) == /\ s # r
                                 /\ IsLive(s)
                                 /\ records[s].source_event_id = id
<1>1. ASSUME NEW r \in RecordIds, NEW id \in EventIds, corrections[<<r, id>>] # Absent
      PROVE  \E s \in RecordIds : Survivor(s, r, id)
  BY <1>1 DEF SoloInv, ClaimSurvives
<1>2. \A s \in RecordIds : Stored(s) => records'[s] = records[s] /\ Stored(s)'
  BY KeptStep DEF Kept, Stored
<1>3. CASE UNCHANGED corrections
  <2>1. \A s \in RecordIds : IsLive(s) => IsLive(s)'
    BY <1>2, <1>3 DEF IsLive, Corrected
  <2>2. \A s, r \in RecordIds, id \in EventIds :
          Survivor(s, r, id) => Survivor(s, r, id)'
    BY <1>2, <2>1 DEF IsLive
  <2> QED BY <1>1, <1>3, <2>2 DEF ClaimSurvives
<1>4. ASSUME NEW w \in Writers, At(w, "replace_correction"),
             corrections' = [corrections EXCEPT
               ![<<job[w].target, job[w].event.event_id>>] = job[w].issued_at]
      PROVE  ClaimSurvives'
  <2>a. /\ job[w].event \in Events
        /\ RecordId(job[w].event) \in RecordIds
        /\ job[w].target \in RecordIds
    BY <1>4, Correcting, AtWork, EventTyped DEF At, HistoricalClaims
  <2>b. PICK e \in Events, t \in RecordIds, n \in RecordIds :
          e = job[w].event /\ t = job[w].target /\ n = RecordId(e)
    BY <2>a
  <2>1. /\ t # n /\ t \in RecordIds /\ n \in RecordIds
        /\ records[t].source_event_id = e.event_id
        /\ records[n].source_event_id = e.event_id
        /\ IsLive(n)
    <3>1. /\ t \in HistoricalClaims(e)
          /\ n \in RecordIds
          /\ records[n] = RecordDocument(e)
          /\ IsLive(n)
      BY <1>4, <2>b, Correcting
    <3>2. RecordDocument(e).source_event_id = e.event_id
      BY DEF RecordDocument
    <3> QED BY <2>b, <3>1, <3>2 DEF HistoricalClaims
  <2>2. \A r \in RecordIds, id \in EventIds :
          ~(r = t /\ id = e.event_id) =>
            corrections'[<<r, id>>] = corrections[<<r, id>>]
    BY <1>a, <1>4, <2>b DEF CorrectionIds
  <2>3. \A s \in RecordIds : s # t /\ IsLive(s) => IsLive(s)'
    <3> SUFFICES ASSUME NEW s \in RecordIds, s # t, IsLive(s)
                 PROVE  IsLive(s)'
      OBVIOUS
    <3>1. ~Corrected(s)'
      BY <2>2 DEF IsLive, Corrected
    <3> QED BY <1>2, <3>1 DEF IsLive
  <2>4. /\ IsLive(n)'
        /\ records'[n].source_event_id = e.event_id
    BY <1>2, <2>1, <2>3 DEF IsLive
  <2>5. ASSUME NEW r \in RecordIds, NEW id \in EventIds,
               corrections'[<<r, id>>] # Absent
        PROVE  \E s \in RecordIds : /\ s # r
                                     /\ IsLive(s)'
                                     /\ records'[s].source_event_id = id
    <3>1. CASE r = t /\ id = e.event_id
      BY <2>1, <2>4, <3>1
    <3>2. CASE ~(r = t /\ id = e.event_id)
      <4>1. corrections[<<r, id>>] # Absent
        BY <2>2, <2>5, <3>2
      <4>2. PICK s \in RecordIds : Survivor(s, r, id)
        BY <1>1, <4>1
      <4>3. CASE s # t
        BY <1>2, <2>3, <4>2, <4>3 DEF IsLive
      <4>4. CASE s = t
        <5>1. n # r
          BY <2>1, <4>1 DEF IsLive, Corrected
        <5>2. id = e.event_id
          BY <2>1, <4>2, <4>4
        <5> QED BY <2>1, <2>4, <5>1, <5>2
      <4> QED BY <4>3, <4>4
    <3> QED BY <3>1, <3>2
  <2> QED BY <2>5 DEF ClaimSurvives
<1> QED BY <1>3, <1>4, CorrectionsChange

-----------------------------------------------------------------------------
(***************************************************************************)
(* What a delivery knows at one step it knows at the next.                 *)
(***************************************************************************)
JobsSolo == \A w \in Writers : job[w] # Idle => SoloJob(job[w])

\* The only job is the one that the step replaces.
LEMMA SoloReplaced ==
  ASSUME Solo, TypeInv, NEW w \in Writers, NEW CONSTANT j,
         job' = [job EXCEPT ![w] = j], j # Idle => SoloJob(j)'
  PROVE  JobsSolo'
<1>1. job'[w] = j
  BY DEF TypeInv, JobsTyped
<1>2. \A v \in Writers : v = w
  BY DEF Solo, SingleWriter
<1> QED BY <1>1, <1>2 DEF JobsSolo

\* A delivery that is over knows nothing.
LEMMA SoloStop ==
  ASSUME Solo, TypeInv, NEW w \in Writers, job' = [job EXCEPT ![w] = Idle]
  PROVE  JobsSolo'
BY SoloReplaced

\* What a delivery knows depends on the store only.
LEMMA SoloSame ==
  ASSUME NEW CONSTANT j, UNCHANGED storeVars, SoloJob(j)
  PROVE  SoloJob(j)'
<1>1. SoloJournal(j)'
  BY DEF SoloJob, SoloJournal, NextSequence, JournalledAs, AcceptedLine
<1>2. SoloRecord(j)'
  BY DEF SoloJob, SoloRecord, Stored, Corrected
<1>3. SoloFiles(j)'
  BY DEF SoloJob, SoloFiles
<1>4. SoloTargets(j)'
  BY DEF SoloJob, SoloTargets, HistoricalClaims, Stored, Corrected
<1> QED BY <1>1, <1>2, <1>3, <1>4 DEF SoloJob

\* An accepted ledger line names a stored record.
LEMMA AcceptedLineStored ==
  ASSUME SoloInv, NEW r \in RecordIds, AcceptedLine(r)
  PROVE  Stored(r)
BY DEF SoloInv, OwnInv, ReferencesHold, JournalledRecordsStored, AcceptedLine,
       NamesRecord

\* A corrected record is stored.
LEMMA CorrectedStored ==
  ASSUME SoloInv, NEW r \in RecordIds, Corrected(r)
  PROVE  Stored(r)
BY DEF SoloInv, OwnInv, ReferencesHold, CorrectionsOwned

\* No step takes a claim out of those a delivery found.
LEMMA ClaimsGrow ==
  ASSUME Solo, SoloInv, [Next]_vars, NEW CONSTANT e
  PROVE  HistoricalClaims(e) \subseteq HistoricalClaims(e)'
BY KeptStep DEF Kept, HistoricalClaims, Stored

\* The deliveries that leave the store as it is.
LEMMA SoloReads ==
  ASSUME Solo, SoloInv, NEW w \in Writers, UNCHANGED storeVars,
         \/ \E e \in Events, operation \in Operations : Deliver(w, e, operation)
         \/ ReadRecord(w) \/ WriteRecord(w)
         \/ ReadIndex(w) \/ ProjectLearning(w)
  PROVE  JobsSolo'
<1>t. TypeInv
  BY DEF SoloInv, OwnInv
<1> USE DEF AdmissionSteps, RecordSteps, QuarantineSteps, AfterEntrySteps,
            CorrectionSteps
<1>1. ASSUME NEW e \in Events, NEW operation \in Operations, Deliver(w, e, operation)
      PROVE  JobsSolo'
  <2>1. PICK j : j =
           [step |-> IF e.clean THEN "read_record" ELSE "write_quarantine",
            event |-> e, operation |-> operation,
            observed_at |-> clock, sequence |-> NextSequence,
            disposition |-> IF e.clean THEN "accepted" ELSE "quarantined",
            index |-> {}, targets |-> {}, target |-> Absent, issued_at |-> 0]
    OBVIOUS
  <2>2. job' = [job EXCEPT ![w] = j]
    BY <1>1, <2>1 DEF Deliver
  <2>3. SoloJob(j)
    BY <2>1 DEF SoloJob, SoloJournal, SoloRecord, SoloFiles, SoloTargets
  <2> QED BY <1>t, <2>2, <2>3, SoloSame, SoloReplaced
<1>a. ASSUME job[w] # Idle
      PROVE  job[w] \in Jobs /\ SoloJob(job[w]) /\ RecordId(job[w].event) \in RecordIds
  BY <1>a, <1>t, AtWork, EventTyped
<1>2. ASSUME ReadRecord(w)
      PROVE  JobsSolo'
  <2>1. PICK i \in Jobs : i = job[w] /\ i # Idle /\ i.step = "read_record" /\ SoloJob(i)
                          /\ RecordId(i.event) \in RecordIds
    BY <1>2, <1>a DEF ReadRecord, At
  <2> DEFINE r == RecordId(i.event)
  <2>2. PICK j :
          /\ job' = [job EXCEPT ![w] = j]
          /\ \/ ~Stored(r) /\ j = [i EXCEPT !.step = "write_record"]
             \/ /\ Stored(r) /\ records[r].content_hash = i.event.payload
                /\ j = [[i EXCEPT !.step = "project_learning"]
                        EXCEPT !.disposition = "duplicate"]
             \/ /\ Stored(r) /\ records[r].content_hash # i.event.payload
                /\ j = [[i EXCEPT !.step = "write_quarantine"]
                        EXCEPT !.disposition = "quarantined"]
    <3> DEFINE d(disposition, step) ==
          [[job[w] EXCEPT !.step = step] EXCEPT !.disposition = disposition]
    <3>1. \/ ~Stored(r) /\ Goto(w, "write_record")
          \/ /\ Stored(r) /\ records[r].content_hash = i.event.payload
             /\ job' = [job EXCEPT ![w] = d("duplicate", "project_learning")]
          \/ /\ Stored(r) /\ records[r].content_hash # i.event.payload
             /\ job' = [job EXCEPT ![w] = d("quarantined", "write_quarantine")]
      BY <1>2, <2>1 DEF ReadRecord, Stored
    <3> QED BY <2>1, <3>1 DEF Goto
  <2>3. CASE ~Stored(r) /\ j = [i EXCEPT !.step = "write_record"]
    <3>1. ~AcceptedLine(r)
      BY <2>1, <2>3, AcceptedLineStored
    <3>2. /\ j.step = "write_record" /\ j.event = i.event
          /\ j.disposition = i.disposition /\ j.sequence = i.sequence
          /\ j.targets = i.targets
      BY <2>1, <2>3 DEF Jobs
    <3>3. SoloJob(j)
      BY <2>1, <2>3, <3>1, <3>2
      DEF SoloJob, SoloJournal, SoloRecord, SoloFiles, SoloTargets
    <3> QED BY <1>t, <2>2, <3>3, SoloSame, SoloReplaced
  <2>4. CASE /\ Stored(r) /\ records[r].content_hash = i.event.payload
             /\ j = [[i EXCEPT !.step = "project_learning"]
                     EXCEPT !.disposition = "duplicate"]
    <3>1. /\ j.step = "project_learning" /\ j.event = i.event
          /\ j.disposition = "duplicate" /\ j.sequence = i.sequence
          /\ j.targets = i.targets
      BY <2>1, <2>4 DEF Jobs
    <3>2. SoloJob(j)
      BY <2>1, <2>4, <3>1
      DEF SoloJob, SoloJournal, SoloRecord, SoloFiles, SoloTargets
    <3> QED BY <1>t, <2>2, <3>2, SoloSame, SoloReplaced
  <2>5. CASE /\ Stored(r) /\ records[r].content_hash # i.event.payload
             /\ j = [[i EXCEPT !.step = "write_quarantine"]
                     EXCEPT !.disposition = "quarantined"]
    <3>1. /\ j.step = "write_quarantine" /\ j.event = i.event
          /\ j.disposition = "quarantined" /\ j.sequence = i.sequence
          /\ j.targets = i.targets
      BY <2>1, <2>5 DEF Jobs
    <3>2. SoloJob(j)
      BY <2>1, <2>5, <3>1
      DEF SoloJob, SoloJournal, SoloRecord, SoloFiles, SoloTargets
    <3> QED BY <1>t, <2>2, <3>2, SoloSame, SoloReplaced
  <2> QED BY <2>2, <2>3, <2>4, <2>5
<1>3. ASSUME WriteRecord(w)
      PROVE  JobsSolo'
  <2>1. PICK i \in Jobs : i = job[w] /\ i # Idle /\ i.step = "write_record" /\ SoloJob(i)
                          /\ RecordDocument(i.event) # Absent
    BY <1>3, <1>a, <1>t, EventTyped, AbsentIsNoDocument DEF WriteRecord, At
  <2>2. ~Stored(RecordId(i.event))
    BY <2>1 DEF SoloJob, SoloRecord
  <2>3. PICK j : /\ job' = [job EXCEPT ![w] = j]
                 /\ j = [i EXCEPT !.step = "replace_record"]
    BY <1>3, <2>1, <2>2 DEF WriteRecord, WriteOnce, Goto, Stored
  <2>4. /\ j.step = "replace_record" /\ j.event = i.event
        /\ j.disposition = i.disposition /\ j.sequence = i.sequence
        /\ j.targets = i.targets
    BY <2>1, <2>3 DEF Jobs
  <2>5. SoloJob(j)
    BY <2>1, <2>4 DEF SoloJob, SoloJournal, SoloRecord, SoloFiles, SoloTargets
  <2> QED BY <1>t, <2>3, <2>5, SoloSame, SoloReplaced
<1>4. ASSUME ReadIndex(w)
      PROVE  JobsSolo'
  <2>1. PICK i \in Jobs : i = job[w] /\ i # Idle /\ i.step = "read_index" /\ SoloJob(i)
    BY <1>4, <1>a DEF ReadIndex, At
  <2>2. PICK j :
          /\ job' = [job EXCEPT ![w] = j]
          /\ \/ j = [i EXCEPT !.step = "project_learning"]
             \/ j = [[i EXCEPT !.step = "replace_index"] EXCEPT !.index = index]
    BY <1>4, <2>1 DEF ReadIndex, Goto
  <2>3. /\ j.step \in {"project_learning", "replace_index"} /\ j.event = i.event
        /\ j.disposition = i.disposition /\ j.sequence = i.sequence
        /\ j.targets = i.targets
    BY <2>1, <2>2 DEF Jobs
  <2>4. SoloJob(j)
    BY <2>1, <2>3 DEF SoloJob, SoloJournal, SoloRecord, SoloFiles, SoloTargets
  <2> QED BY <1>t, <2>2, <2>4, SoloSame, SoloReplaced
<1>5. ASSUME ProjectLearning(w)
      PROVE  JobsSolo'
  <2>1. PICK i \in Jobs : i = job[w] /\ i # Idle /\ i.step = "project_learning"
                          /\ SoloJob(i) /\ i.disposition # "quarantined"
    BY <1>5, <1>a, AtWork DEF ProjectLearning, At, JobOwned
  <2>2. PICK j :
          /\ job' = [job EXCEPT ![w] = j]
          /\ \/ /\ j = [i EXCEPT !.step = "write_observations"]
                /\ observations[RecordId(i.event)] = Absent
             \/ /\ j = [i EXCEPT !.step = "append_ledger"]
                /\ i.event.rows # Absent => observations[RecordId(i.event)] # Absent
    BY <1>5, <2>1 DEF ProjectLearning, Goto
  <2>3. /\ j.step \in {"write_observations", "append_ledger"} /\ j.event = i.event
        /\ j.step = "write_observations" => observations[RecordId(i.event)] = Absent
        /\ j.step = "append_ledger" =>
             (i.event.rows # Absent => observations[RecordId(i.event)] # Absent)
        /\ j.disposition = i.disposition /\ j.sequence = i.sequence
        /\ j.targets = i.targets
    BY <2>1, <2>2 DEF Jobs
  <2>4. SoloJob(j)
    BY <2>1, <2>3 DEF SoloJob, SoloJournal, SoloRecord, SoloFiles, SoloTargets
  <2> QED BY <1>t, <2>2, <2>4, SoloSame, SoloReplaced
<1> QED BY <1>1, <1>2, <1>3, <1>4, <1>5

\* The record and the index.
LEMMA SoloRecords ==
  ASSUME Solo, SoloInv, [Next]_vars, NEW w \in Writers,
         ReplaceRecord(w) \/ ReplaceIndex(w)
  PROVE  JobsSolo'
<1>t. TypeInv
  BY DEF SoloInv, OwnInv
<1> USE DEF AdmissionSteps, RecordSteps, QuarantineSteps, AfterEntrySteps,
            CorrectionSteps
<1>1. ASSUME ReplaceRecord(w)
      PROVE  JobsSolo'
  <2>1. PICK i \in Jobs : /\ i = job[w] /\ i # Idle /\ i.step = "replace_record"
                          /\ SoloJob(i) /\ RecordId(i.event) \in RecordIds
                          /\ RecordDocument(i.event) # Absent
    BY <1>1, <1>t, AtWork, EventTyped, AbsentIsNoDocument DEF ReplaceRecord, At
  <2>2. PICK j : j = [i EXCEPT !.step = "read_index"]
    OBVIOUS
  <2>3. job' = [job EXCEPT ![w] = j]
    BY <1>1, <2>1, <2>2 DEF ReplaceRecord, Goto
  <2>4. /\ j.step = "read_index" /\ j.event = i.event
        /\ j.disposition = i.disposition /\ j.sequence = i.sequence
        /\ j.targets = i.targets
    BY <2>1, <2>2 DEF Jobs
  <2>5. PICK r \in RecordIds : r = RecordId(i.event)
    BY <2>1
  <2>6. i.disposition = "accepted" /\ ~Stored(r) /\ ~Corrected(r)
    BY <2>1, <2>5, CorrectedStored DEF SoloJob, SoloRecord
  <2>7. /\ UNCHANGED <<corrections, ledger, observations, quarantine>>
        /\ records'[r] = RecordDocument(i.event)
    BY <1>1, <1>t, <2>1, <2>5
    DEF ReplaceRecord, TypeInv, TypeOK, StoreTypeOK
  <2>8. SoloJournal(j)'
    BY <2>1, <2>4, <2>7
    DEF SoloJob, SoloJournal, NextSequence, AcceptedLine
  <2>9. SoloRecord(j)'
    BY <2>4, <2>5, <2>6, <2>7 DEF SoloRecord, Corrected
  <2>10. SoloFiles(j)'
    BY <2>4 DEF SoloFiles
  <2>11. SoloTargets(j)'
    BY <2>1, <2>4, ClaimsGrow DEF SoloJob, SoloTargets
  <2> QED BY <1>t, <2>3, <2>8, <2>9, <2>10, <2>11, SoloReplaced DEF SoloJob
<1>2. ASSUME ReplaceIndex(w)
      PROVE  JobsSolo'
  <2>1. PICK i \in Jobs : /\ i = job[w] /\ i # Idle /\ i.step = "replace_index"
                          /\ SoloJob(i)
    BY <1>2, <1>t, AtWork, EventTyped DEF ReplaceIndex, At
  <2>2. PICK j : j = [[i EXCEPT !.step = "project_learning"] EXCEPT !.index = {}]
    OBVIOUS
  <2>3. job' = [job EXCEPT ![w] = j]
    BY <1>2, <2>1, <2>2 DEF ReplaceIndex
  <2>4. /\ j.step = "project_learning" /\ j.event = i.event
        /\ j.disposition = i.disposition /\ j.sequence = i.sequence
        /\ j.targets = i.targets
    BY <2>1, <2>2 DEF Jobs
  <2>5. UNCHANGED <<records, corrections, ledger, observations, quarantine>>
    BY <1>2 DEF ReplaceIndex
  <2>6. SoloJournal(j)'
    BY <2>1, <2>4, <2>5 DEF SoloJob, SoloJournal, NextSequence, AcceptedLine
  <2>7. SoloRecord(j)'
    BY <2>1, <2>4, <2>5 DEF SoloJob, SoloRecord, Stored, Corrected
  <2>8. SoloFiles(j)'
    BY <2>4 DEF SoloFiles
  <2>9. SoloTargets(j)'
    BY <2>1, <2>4, ClaimsGrow DEF SoloJob, SoloTargets
  <2> QED BY <1>t, <2>3, <2>6, <2>7, <2>8, <2>9, SoloReplaced DEF SoloJob
<1> QED BY <1>1, <1>2

\* The learning rows and the quarantine.
LEMMA SoloSideFiles ==
  ASSUME Solo, SoloInv, [Next]_vars, NEW w \in Writers,
         \/ WriteObservations(w) \/ ReplaceObservations(w)
         \/ WriteQuarantine(w) \/ ReplaceQuarantine(w)
  PROVE  JobsSolo'
<1>t. TypeInv
  BY DEF SoloInv, OwnInv
<1> USE DEF AdmissionSteps, RecordSteps, QuarantineSteps, AfterEntrySteps,
            CorrectionSteps
<1>a. ASSUME job[w] # Idle
      PROVE  /\ job[w] \in Jobs /\ SoloJob(job[w])
             /\ job[w].event \in Events
             /\ RecordId(job[w].event) \in RecordIds
             /\ job[w].observed_at \in Nat
             /\ job[w].step \in AdmissionSteps => job[w].disposition # "quarantined"
             /\ job[w].step \in {"write_observations", "replace_observations"} =>
                  job[w].event.rows # Absent
  BY <1>a, <1>t, AtWork, EventTyped DEF JobOwned, TypeInv, JobsTyped, JobTyped
<1>b. UNCHANGED <<records, corrections, ledger>>
  BY DEF WriteObservations, ReplaceObservations, WriteQuarantine, ReplaceQuarantine
\* The parts of what the delivery knows that these steps have no part in.
<1>c. ASSUME NEW i, SoloJob(i), NEW j,
             i.step \notin AfterEntrySteps \cup RecordSteps,
             j.step \notin AfterEntrySteps \cup RecordSteps,
             j.event = i.event, j.disposition = i.disposition,
             j.sequence = i.sequence, j.targets = i.targets,
             j.step \in QuarantineSteps => i.step \in QuarantineSteps,
             SoloFiles(j)'
      PROVE  SoloJob(j)'
  <2>1. SoloJournal(j)'
    BY <1>b, <1>c DEF SoloJob, SoloJournal, NextSequence, AcceptedLine
  <2>2. SoloRecord(j)'
    BY <1>b, <1>c DEF SoloJob, SoloRecord, Stored, Corrected
  <2>3. SoloTargets(j)'
    BY <1>c, ClaimsGrow DEF SoloJob, SoloTargets
  <2> QED BY <1>c, <2>1, <2>2, <2>3 DEF SoloJob
<1>1. ASSUME WriteObservations(w)
      PROVE  JobsSolo'
  <2>1. PICK i \in Jobs : /\ i = job[w] /\ i # Idle /\ i.step = "write_observations"
                          /\ SoloJob(i) /\ i.event.rows # Absent
    BY <1>1, <1>a DEF WriteObservations, At
  <2>2. observations[RecordId(i.event)] = Absent
    BY <2>1 DEF SoloJob, SoloFiles
  <2>3. PICK j : /\ job' = [job EXCEPT ![w] = j]
                 /\ j = [i EXCEPT !.step = "replace_observations"]
    BY <1>1, <2>1, <2>2 DEF WriteObservations, WriteOnce, Goto
  <2>4. /\ j.step = "replace_observations" /\ j.event = i.event
        /\ j.disposition = i.disposition /\ j.sequence = i.sequence
        /\ j.targets = i.targets
    BY <2>1, <2>3 DEF Jobs
  <2>5. SoloFiles(j)'
    BY <1>1, <2>2, <2>4 DEF WriteObservations, SoloFiles
  <2>6. SoloJob(j)'
    BY <1>c, <2>1, <2>4, <2>5
  <2> QED BY <1>t, <2>3, <2>6, SoloReplaced
<1>2. ASSUME ReplaceObservations(w)
      PROVE  JobsSolo'
  <2>1. PICK i \in Jobs : /\ i = job[w] /\ i # Idle /\ i.step = "replace_observations"
                          /\ SoloJob(i) /\ i.event.rows # Absent
                          /\ i.disposition # "quarantined"
                          /\ RecordId(i.event) \in RecordIds
    BY <1>2, <1>a DEF ReplaceObservations, At
  <2>2. PICK j : j = [i EXCEPT !.step = "append_ledger"]
    OBVIOUS
  <2>3. job' = [job EXCEPT ![w] = j]
    BY <1>2, <2>1, <2>2 DEF ReplaceObservations, Goto
  <2>4. /\ j.step = "append_ledger" /\ j.event = i.event
        /\ j.disposition = i.disposition /\ j.sequence = i.sequence
        /\ j.targets = i.targets
    BY <2>1, <2>2 DEF Jobs
  <2>5. observations'[RecordId(i.event)] # Absent
    BY <1>2, <1>t, <2>1 DEF ReplaceObservations, TypeInv, TypeOK, StoreTypeOK
  <2>6. SoloFiles(j)'
    BY <2>1, <2>4, <2>5 DEF SoloFiles
  <2>7. SoloJob(j)'
    BY <1>c, <2>1, <2>4, <2>6
  <2> QED BY <1>t, <2>3, <2>7, SoloReplaced
<1>3. ASSUME WriteQuarantine(w)
      PROVE  JobsSolo'
  <2>1. CASE Collide(w)
    BY <1>t, <2>1, SoloStop DEF Collide
  <2>2. CASE ~Collide(w)
    <3>1. PICK i \in Jobs : /\ i = job[w] /\ i # Idle /\ i.step = "write_quarantine"
                            /\ SoloJob(i) /\ i.observed_at # Absent
      BY <1>3, <1>a, AbsentIsNoDocument DEF WriteQuarantine, At
    <3>2. PICK j :
            /\ job' = [job EXCEPT ![w] = j]
            /\ \/ /\ j = [i EXCEPT !.step = "replace_quarantine"]
                  /\ quarantine[i.event] = Absent
               \/ /\ j = [i EXCEPT !.step = "append_ledger"]
                  /\ quarantine[i.event] # Absent
      BY <1>3, <2>2, <3>1 DEF WriteQuarantine, WriteOnce, Goto
    <3>3. /\ j.step \in {"replace_quarantine", "append_ledger"} /\ j.event = i.event
          /\ j.step = "replace_quarantine" => quarantine[i.event] = Absent
          /\ j.step = "append_ledger" => quarantine[i.event] # Absent
          /\ j.disposition = i.disposition /\ j.sequence = i.sequence
          /\ j.targets = i.targets
      BY <3>1, <3>2 DEF Jobs
    <3>4. i.disposition = "quarantined"
      BY <3>1 DEF SoloJob, SoloRecord
    <3>5. SoloFiles(j)'
      BY <1>3, <3>3, <3>4 DEF WriteQuarantine, SoloFiles
    <3>6. SoloJob(j)'
      BY <1>c, <3>1, <3>3, <3>5
    <3> QED BY <1>t, <3>2, <3>6, SoloReplaced
  <2> QED BY <2>1, <2>2
<1>4. ASSUME ReplaceQuarantine(w)
      PROVE  JobsSolo'
  <2>1. PICK i \in Jobs : /\ i = job[w] /\ i # Idle /\ i.step = "replace_quarantine"
                          /\ SoloJob(i) /\ i.event \in Events
                          /\ i.observed_at # Absent
    BY <1>4, <1>a, AbsentIsNoDocument DEF ReplaceQuarantine, At
  <2>2. PICK j : j = [i EXCEPT !.step = "append_ledger"]
    OBVIOUS
  <2>3. job' = [job EXCEPT ![w] = j]
    BY <1>4, <2>1, <2>2 DEF ReplaceQuarantine, Goto
  <2>4. /\ j.step = "append_ledger" /\ j.event = i.event
        /\ j.disposition = i.disposition /\ j.sequence = i.sequence
        /\ j.targets = i.targets
    BY <2>1, <2>2 DEF Jobs
  <2>5. quarantine'[i.event] # Absent
    BY <1>4, <1>t, <2>1 DEF ReplaceQuarantine, TypeInv, TypeOK, StoreTypeOK
  <2>6. i.disposition = "quarantined"
    BY <2>1 DEF SoloJob, SoloRecord
  <2>7. SoloFiles(j)'
    BY <2>4, <2>5, <2>6 DEF SoloFiles
  <2>8. SoloJob(j)'
    BY <1>c, <2>1, <2>4, <2>7
  <2> QED BY <1>t, <2>3, <2>8, SoloReplaced
<1> QED BY <1>1, <1>2, <1>3, <1>4

\* The ledger line.
LEMMA SoloAppend ==
  ASSUME Solo, SoloInv, [Next]_vars, NEW w \in Writers, AppendLedger(w)
  PROVE  JobsSolo'
<1>t. TypeInv
  BY DEF SoloInv, OwnInv
<1> USE DEF AdmissionSteps, RecordSteps, QuarantineSteps, AfterEntrySteps,
            CorrectionSteps
<1>1. PICK i \in Jobs : /\ i = job[w] /\ i # Idle /\ i.step = "append_ledger"
                        /\ SoloJob(i)
  BY <1>t, AtWork, EventTyped DEF AppendLedger, At
<1>2. PICK j :
        /\ job' = [job EXCEPT ![w] = j]
        /\ \/ /\ j = [i EXCEPT !.step = "find_claims"]
              /\ i.disposition = "accepted"
              /\ IsHistorical(i.event)
           \/ j = [i EXCEPT !.step = "reply"]
  BY <1>1 DEF AppendLedger, Goto
<1>3. /\ j.step \in {"find_claims", "reply"} /\ j.event = i.event
      /\ j.disposition = i.disposition /\ j.sequence = i.sequence
      /\ j.targets = i.targets
      /\ j.step = "find_claims" =>
           i.disposition = "accepted" /\ IsHistorical(i.event)
  BY <1>1, <1>2 DEF Jobs
<1>4. UNCHANGED <<records, observations, quarantine, corrections>>
  BY DEF AppendLedger
<1>5. JournalledAs(i.event, i.disposition)'
  <2>1. /\ Len(ledger) + 1 \in DOMAIN ledger'
        /\ ledger'[Len(ledger) + 1] = Entry(w)
        /\ Entry(w) # Torn
    <3>1. ledger' = Append(ledger, Entry(w))
      BY DEF SoloInv, AppendLedger, AppendLine, Extend
    <3> QED BY <1>1, <3>1, Appended, LedgerTyped
  <2>2. Entry(w).event = i.event /\ Entry(w).disposition = i.disposition
    BY <1>1 DEF Entry
  <2> QED BY <2>1, <2>2 DEF JournalledAs
<1>6. SoloJournal(j)'
  BY <1>3, <1>5 DEF SoloJournal
<1>7. SoloRecord(j)'
  BY <1>1, <1>3, <1>4 DEF SoloJob, SoloRecord, Stored, Corrected
<1>8. SoloFiles(j)'
  BY <1>1, <1>3, <1>4 DEF SoloJob, SoloFiles
<1>9. SoloTargets(j)'
  BY <1>1, <1>3, ClaimsGrow DEF SoloJob, SoloTargets
<1> QED BY <1>t, <1>2, <1>6, <1>7, <1>8, <1>9, SoloReplaced DEF SoloJob

\* The corrections.
LEMMA SoloCorrections ==
  ASSUME Solo, SoloInv, [Next]_vars, NEW w \in Writers,
         \/ FindClaims(w) \/ FindPredecessors(w)
         \/ WriteCorrection(w) \/ ReplaceCorrection(w) \/ CorrectionsDone(w)
  PROVE  JobsSolo'
<1>t. TypeInv
  BY DEF SoloInv, OwnInv
<1> USE DEF AdmissionSteps, RecordSteps, QuarantineSteps, AfterEntrySteps,
            CorrectionSteps
<1>a. ASSUME job[w] # Idle
      PROVE  /\ job[w] \in Jobs /\ SoloJob(job[w])
             /\ RecordId(job[w].event) \in RecordIds
             /\ job[w].event.event_id \in EventIds
  BY <1>a, <1>t, AtWork, EventTyped DEF EventIds
<1>b. UNCHANGED <<records, observations, quarantine, ledger>>
  BY DEF FindClaims, FindPredecessors, WriteCorrection, ReplaceCorrection,
         CorrectionsDone
\* These steps are over targets only.
<1>c. ASSUME NEW i, SoloJob(i), NEW j,
             i.step \in CorrectionSteps, j.step \in AfterEntrySteps,
             j.event = i.event, j.disposition = i.disposition,
             ~Corrected(RecordId(i.event))',
             SoloTargets(j)'
      PROVE  SoloJob(j)'
  <2>1. SoloJournal(j)'
    BY <1>b, <1>c DEF SoloJob, SoloJournal, JournalledAs
  <2>2. SoloRecord(j)'
    BY <1>b, <1>c DEF SoloJob, SoloRecord, SoloTargets, Stored
  <2>3. SoloFiles(j)'
    BY <1>b, <1>c DEF SoloJob, SoloFiles
  <2> QED BY <1>c, <2>1, <2>2, <2>3 DEF SoloJob
<1>d. ASSUME NEW i, SoloJob(i), i.step \in CorrectionSteps
      PROVE  /\ ~Corrected(RecordId(i.event))
             /\ i.disposition = "accepted"
             /\ IsHistorical(i.event)
  BY <1>d DEF SoloJob, SoloRecord, SoloTargets
<1>1. ASSUME FindClaims(w)
      PROVE  JobsSolo'
  <2>1. PICK i \in Jobs : i = job[w] /\ i # Idle /\ i.step = "find_claims" /\ SoloJob(i)
    BY <1>1, <1>a DEF FindClaims, At
  <2>2. PICK j : j = [[i EXCEPT !.step = "find_predecessors"]
                      EXCEPT !.targets = HistoricalClaims(i.event)]
    OBVIOUS
  <2>3. job' = [job EXCEPT ![w] = j]
    BY <1>1, <2>1, <2>2 DEF FindClaims
  <2>4. /\ j.step = "find_predecessors" /\ j.event = i.event
        /\ j.disposition = i.disposition
        /\ j.targets = HistoricalClaims(i.event)
    BY <2>1, <2>2 DEF Jobs
  <2>5. UNCHANGED corrections
    BY <1>1 DEF FindClaims
  <2>6. SoloTargets(j)'
    BY <1>d, <2>1, <2>4, ClaimsGrow DEF SoloTargets
  <2>7. ~Corrected(RecordId(i.event))'
    BY <1>d, <2>1, <2>5 DEF Corrected
  <2>8. SoloJob(j)'
    BY <1>c, <2>1, <2>4, <2>6, <2>7
  <2> QED BY <1>t, <2>3, <2>8, SoloReplaced
<1>2. ASSUME FindPredecessors(w)
      PROVE  JobsSolo'
  <2>1. PICK i \in Jobs : /\ i = job[w] /\ i # Idle /\ i.step = "find_predecessors"
                          /\ SoloJob(i)
    BY <1>2, <1>a DEF FindPredecessors, At
  <2>2. PICK live : live = {r \in i.targets : ~Corrected(r)}
    OBVIOUS
  <2>3. PICK j : j = [[[i EXCEPT !.step = "write_correction"]
                       EXCEPT !.targets = live] EXCEPT !.issued_at = clock]
    OBVIOUS
  <2>4. job' = [job EXCEPT ![w] = j]
    BY <1>2, <2>1, <2>2, <2>3 DEF FindPredecessors
  <2>5. /\ j.step = "write_correction" /\ j.event = i.event
        /\ j.disposition = i.disposition
        /\ j.targets = live
    BY <2>1, <2>3 DEF Jobs
  <2>6. UNCHANGED corrections
    BY <1>2 DEF FindPredecessors
  <2>7. \A t \in live : t \in i.targets /\ ~Corrected(t)'
    BY <2>2, <2>6 DEF Corrected
  <2>8. i.targets \subseteq HistoricalClaims(i.event)'
    BY <2>1, ClaimsGrow DEF SoloJob, SoloTargets
  <2>9. SoloTargets(j)'
    BY <1>d, <2>1, <2>5, <2>7, <2>8 DEF SoloTargets
  <2>10. ~Corrected(RecordId(i.event))'
    BY <1>d, <2>1, <2>6 DEF Corrected
  <2>11. SoloJob(j)'
    BY <1>c, <2>1, <2>5, <2>9, <2>10
  <2> QED BY <1>t, <2>4, <2>11, SoloReplaced
<1>3. ASSUME WriteCorrection(w)
      PROVE  JobsSolo'
  <2>1. PICK i \in Jobs : /\ i = job[w] /\ i # Idle /\ i.step = "write_correction"
                          /\ SoloJob(i) /\ i.event.event_id \in EventIds
                          /\ i.issued_at # Absent
    BY <1>3, <1>t, <1>a, EventTyped, AbsentIsNoDocument DEF WriteCorrection, At
  <2>2. \A t \in i.targets : corrections[<<t, i.event.event_id>>] = Absent
    BY <2>1 DEF SoloJob, SoloTargets, Corrected
  <2>3. PICK t \in i.targets :
          job' = [job EXCEPT ![w] =
            [[job[w] EXCEPT !.step = "replace_correction"] EXCEPT !.target = t]]
    BY <1>3, <2>1, <2>2 DEF WriteCorrection
  <2>4. PICK j : j = [[i EXCEPT !.step = "replace_correction"] EXCEPT !.target = t]
    OBVIOUS
  <2>5. job' = [job EXCEPT ![w] = j]
    BY <2>1, <2>3, <2>4
  <2>6. /\ j.step = "replace_correction" /\ j.event = i.event
        /\ j.disposition = i.disposition
        /\ j.targets = i.targets /\ j.target = t
    BY <2>1, <2>4 DEF Jobs
  <2>7. SoloJob(j)
    BY <2>1, <2>3, <2>6
    DEF SoloJob, SoloJournal, SoloRecord, SoloFiles, SoloTargets
  <2>8. UNCHANGED storeVars
    BY <1>3 DEF WriteCorrection
  <2> QED BY <1>t, <2>5, <2>7, <2>8, SoloSame, SoloReplaced
<1>4. ASSUME ReplaceCorrection(w)
      PROVE  JobsSolo'
  <2>1. PICK i \in Jobs : /\ i = job[w] /\ i # Idle /\ i.step = "replace_correction"
                          /\ SoloJob(i) /\ RecordId(i.event) \in RecordIds
                          /\ i.event.event_id \in EventIds
    BY <1>4, <1>a DEF ReplaceCorrection, At
  <2>2. PICK t : t = i.target
    OBVIOUS
  <2>3. PICK j : j = [[[i EXCEPT !.step = "write_correction"]
                       EXCEPT !.targets = i.targets \ {t}] EXCEPT !.target = Absent]
    OBVIOUS
  <2>4. job' = [job EXCEPT ![w] = j]
    BY <1>4, <2>1, <2>2, <2>3 DEF ReplaceCorrection
  <2>5. /\ j.step = "write_correction" /\ j.event = i.event
        /\ j.disposition = i.disposition
        /\ j.targets = i.targets \ {t}
    BY <2>1, <2>3 DEF Jobs
  <2>6. /\ t \in RecordIds /\ t # RecordId(i.event)
        /\ i.targets \subseteq HistoricalClaims(i.event)
        /\ i.targets \subseteq RecordIds
        /\ \A u \in i.targets : ~Corrected(u)
    BY <2>1, <2>2 DEF SoloJob, SoloTargets, HistoricalClaims
  <2>7. corrections' = [corrections EXCEPT ![<<t, i.event.event_id>>] = i.issued_at]
    BY <1>4, <2>1, <2>2 DEF ReplaceCorrection
  <2>8. ASSUME NEW u \in RecordIds, u # t, ~Corrected(u)
        PROVE  ~Corrected(u)'
    <3> SUFFICES ASSUME NEW id \in EventIds
                 PROVE  corrections'[<<u, id>>] = corrections[<<u, id>>]
      BY <2>8 DEF Corrected
    <3>1. /\ <<u, id>> \in CorrectionIds
          /\ <<u, id>> # <<t, i.event.event_id>>
      BY <2>8 DEF CorrectionIds
    <3> QED
      BY <1>t, <2>7, <3>1 DEF TypeInv, TypeOK, StoreTypeOK
  <2>9. i.targets \subseteq HistoricalClaims(i.event)'
    BY <2>6, ClaimsGrow
  <2>10. SoloTargets(j)'
    BY <1>d, <2>1, <2>5, <2>6, <2>8, <2>9 DEF SoloTargets
  <2>11. ~Corrected(RecordId(i.event))'
    <3>1. PICK n \in RecordIds : n = RecordId(i.event)
      BY <2>1
    <3> QED BY <1>d, <2>1, <2>6, <2>8, <3>1
  <2>12. SoloJob(j)'
    BY <1>c, <2>1, <2>5, <2>10, <2>11
  <2> QED BY <1>t, <2>4, <2>12, SoloReplaced
<1>5. ASSUME CorrectionsDone(w)
      PROVE  JobsSolo'
  <2>1. PICK i \in Jobs : /\ i = job[w] /\ i # Idle /\ i.step = "write_correction"
                          /\ SoloJob(i)
    BY <1>5, <1>a DEF CorrectionsDone, At
  <2>2. PICK j : j = [i EXCEPT !.step = "reply"]
    OBVIOUS
  <2>3. job' = [job EXCEPT ![w] = j]
    BY <1>5, <2>1, <2>2 DEF CorrectionsDone, Goto
  <2>4. /\ j.step = "reply" /\ j.event = i.event
        /\ j.disposition = i.disposition
        /\ j.targets = i.targets
    BY <2>1, <2>2 DEF Jobs
  <2>5. SoloJob(j)
    BY <2>1, <2>4 DEF SoloJob, SoloJournal, SoloRecord, SoloFiles, SoloTargets
  <2>6. UNCHANGED storeVars
    BY <1>5 DEF CorrectionsDone
  <2> QED BY <1>t, <2>3, <2>5, <2>6, SoloSame, SoloReplaced
<1> QED BY <1>1, <1>2, <1>3, <1>4, <1>5

\* After each action, the delivery knows what its next step relies on.
LEMMA JobsSoloStep ==
  ASSUME Solo, SoloInv, [Next]_vars
  PROVE  JobsSolo'
<1>t. TypeInv
  BY DEF SoloInv, OwnInv
<1>1. ASSUME NEW w \in Writers, NEW e \in Events, NEW operation \in Operations,
             Deliver(w, e, operation)
      PROVE  JobsSolo'
  BY <1>1, SoloReads DEF Deliver
<1>2. ASSUME NEW w \in Writers,
             \/ ReadRecord(w) \/ WriteRecord(w)
             \/ ReadIndex(w) \/ ProjectLearning(w)
      PROVE  JobsSolo'
  <2>1. UNCHANGED storeVars
    BY <1>2 DEF ReadRecord, WriteRecord, ReadIndex, ProjectLearning
  <2> QED BY <1>2, <2>1, SoloReads
<1>3. ASSUME NEW w \in Writers, ReplaceRecord(w) \/ ReplaceIndex(w)
      PROVE  JobsSolo'
  BY <1>3, SoloRecords
<1>4. ASSUME NEW w \in Writers,
             \/ WriteObservations(w) \/ ReplaceObservations(w)
             \/ WriteQuarantine(w) \/ ReplaceQuarantine(w)
      PROVE  JobsSolo'
  BY <1>4, SoloSideFiles
<1>5. ASSUME NEW w \in Writers, AppendLedger(w)
      PROVE  JobsSolo'
  BY <1>5, SoloAppend
<1>6. ASSUME NEW w \in Writers,
             \/ FindClaims(w) \/ FindPredecessors(w)
             \/ WriteCorrection(w) \/ ReplaceCorrection(w) \/ CorrectionsDone(w)
      PROVE  JobsSolo'
  BY <1>6, SoloCorrections
<1>7. ASSUME NEW w \in Writers, Reply(w) \/ Interrupt(w)
      PROVE  JobsSolo'
  BY <1>7, <1>t, SoloStop DEF Reply, Interrupt
<1>8. CASE Tick \/ UNCHANGED vars
  <2>1. UNCHANGED storeVars /\ UNCHANGED job
    BY <1>8 DEF Tick, vars
  <2> SUFFICES ASSUME NEW w \in Writers, job'[w] # Idle
               PROVE  SoloJob(job[w])'
    BY DEF JobsSolo
  <2>2. PICK j : j = job[w]
    OBVIOUS
  <2>3. SoloJob(j)
    BY <2>1, <2>2, AtWork
  <2>4. SoloJob(j)'
    BY <2>1, <2>3, SoloSame
  <2>5. job'[w] = j
    BY <2>1, <2>2
  <2> QED BY <2>4, <2>5
<1> QED
  BY ONLY <1>1, <1>2, <1>3, <1>4, <1>5, <1>6, <1>7, <1>8, [Next]_vars
  DEF Next, Progress

-----------------------------------------------------------------------------
\* An empty store and an idle writer satisfy the invariant.
LEMMA SoloInit == Init => SoloInv
<1> SUFFICES ASSUME Init PROVE SoloInv
  OBVIOUS
<1>1. ClaimSurvives
  <2> SUFFICES ASSUME NEW r \in RecordIds, NEW id \in EventIds
               PROVE  corrections[<<r, id>>] = Absent
    BY DEF ClaimSurvives
  <2>1. <<r, id>> \in CorrectionIds
    BY DEF CorrectionIds
  <2> QED BY <2>1 DEF Init, StoreInit
<1>2. terminated /\ LedgerParses /\ LedgerNumbered /\ AcceptedOnce
  BY DEF Init, StoreInit, LedgerParses, LedgerNumbered, AcceptedOnce
<1>3. AnswersStored /\ OnlyQuarantineCollides
  BY DEF Init, AnswersStored, OnlyQuarantineCollides
<1>4. \A w \in Writers : job[w] = Idle
  BY DEF Init
<1> QED BY <1>1, <1>2, <1>3, <1>4, OwnInit DEF SoloInv

\* The invariant for one writer is inductive.
LEMMA SoloStep ==
  ASSUME Solo
  PROVE  SoloInv /\ [Next]_vars => SoloInv'
<1> SUFFICES ASSUME SoloInv, [Next]_vars PROVE SoloInv'
  OBVIOUS
<1>1. OwnInv'
  BY OwnStep DEF SoloInv
<1> QED
  BY <1>1, JobsSoloStep, LedgerStep, ClaimSurvivesStep, AnswersStoredStep,
     CollisionStep
  DEF SoloInv, JobsSolo

\* One writer, interrupted anywhere but inside a ledger append, keeps SoloInv.
THEOREM SoloInvariant ==
  ASSUME Solo
  PROVE  Spec => []SoloInv
BY SoloInit, SoloStep, PTL DEF Spec

\* After every step of every delivery, and so after a crash at any of them,
\* verify_store finds nothing wrong with the store of a single writer.
THEOREM StoreAlwaysVerifies ==
  ASSUME Solo
  PROVE  Spec => []StoreVerifies
<1>1. SoloInv => StoreVerifies
  BY DEF SoloInv, OwnInv, ReferencesHold, StoreVerifies
<1> QED BY SoloInvariant, <1>1, PTL

\* A single writer journals at most one admission of a record identity,
\* whatever is redelivered to it and wherever it is interrupted.
THEOREM AcceptedAtMostOnce ==
  ASSUME Solo
  PROVE  Spec => []AcceptedOnce
<1>1. SoloInv => AcceptedOnce
  BY DEF SoloInv
<1> QED BY SoloInvariant, <1>1, PTL

\* Whatever a single writer answered for is in its store: the record, its
\* learning rows, or the quarantine document.
THEOREM AnswersAlwaysStored ==
  ASSUME Solo
  PROVE  Spec => []AnswersStored
<1>1. SoloInv => AnswersStored
  BY DEF SoloInv
<1> QED BY SoloInvariant, <1>1, PTL

\* Corrections by a single writer leave every corrected event a live claim.
THEOREM ClaimAlwaysSurvives ==
  ASSUME Solo
  PROVE  Spec => []ClaimSurvives
<1>1. SoloInv => ClaimSurvives
  BY DEF SoloInv
<1> QED BY SoloInvariant, <1>1, PTL

\* The write-once check of a single writer refuses quarantine documents only.
THEOREM QuarantineAloneCollides ==
  ASSUME Solo
  PROVE  Spec => []OnlyQuarantineCollides
<1>1. SoloInv => OnlyQuarantineCollides
  BY DEF SoloInv
<1> QED BY SoloInvariant, <1>1, PTL

\* A single writer overwrites no object file and no ledger line.
THEOREM NothingEverOverwritten ==
  ASSUME Solo
  PROVE  Spec => NothingOverwritten
<1>1. SoloInv /\ [Next]_vars => [Kept]_vars
  BY KeptStep
<1> QED BY SoloInvariant, <1>1, PTL DEF NothingOverwritten, Spec, Kept


-----------------------------------------------------------------------------
(***************************************************************************)
(* Until a first interruption, nothing is left undone.                     *)
(***************************************************************************)

\* The delivery under way is the only one there is.
LEMMA Underway ==
  ASSUME Solo, SoloInv, [Next]_vars, interrupts' = interrupts,
         NEW w \in Writers, job[w] # Idle
  PROVE  \/ Progress(w)
         \/ UNCHANGED <<storeVars, job>>
<1>1. \A v \in Writers : v = w
  BY DEF Solo, SingleWriter
<1>2. interrupts \in Nat
  BY ConstantsAssumption DEF SoloInv, OwnInv, TypeInv, TypeOK
<1>3. \A v \in Writers : ~Interrupt(v)
  BY <1>2 DEF Interrupt
<1>4. \A v \in Writers, e \in Events, operation \in Operations :
        ~Deliver(v, e, operation)
  BY <1>1 DEF Deliver
<1>5. ASSUME NEW v \in Writers, Progress(v)
      PROVE  Progress(w)
  BY <1>1, <1>5
<1>6. CASE Tick \/ UNCHANGED vars
  BY <1>6 DEF Tick, vars
<1> QED BY <1>3, <1>4, <1>5, <1>6 DEF Next

\* A record that appears is the one under way, and owed everything.
LEMMA NewRecord ==
  ASSUME Solo, SoloInv, [Next]_vars, NEW r \in RecordIds, ~Stored(r), Stored(r)'
  PROVE  \E w \in Writers :
           /\ job[w] # Idle
           /\ RecordId(job[w].event) = r
           /\ job'[w] # Idle
           /\ job'[w] = [job[w] EXCEPT !.step = "read_index"]
           /\ job'[w].step = "read_index"
           /\ job'[w].event = job[w].event
           /\ job'[w].disposition = "accepted"
<1>1. PICK w \in Writers : ReplaceRecord(w)
  BY StoreSteps
  DEF ReplaceIndex, ReplaceObservations, ReplaceQuarantine, AppendLedger,
      ReplaceCorrection, Interrupt, Stored
<1>2. /\ job[w] # Idle /\ job[w].step = "replace_record"
      /\ job' = [job EXCEPT ![w] = [job[w] EXCEPT !.step = "read_index"]]
      /\ records' = [records EXCEPT
           ![RecordId(job[w].event)] = RecordDocument(job[w].event)]
  BY <1>1 DEF ReplaceRecord, At, Goto
<1>3. /\ job[w] \in Jobs
      /\ job[w].disposition = "accepted"
      /\ w \in DOMAIN job
      /\ records \in [RecordIds -> RecordDocuments \cup {Absent}]
  BY <1>2, AtWork DEF SoloJob, SoloRecord, RecordSteps, TypeInv, TypeOK, StoreTypeOK
<1>4. job'[w] = [job[w] EXCEPT !.step = "read_index"]
  BY <1>2, <1>3
<1>5. /\ job'[w] \in Jobs /\ job'[w].step = "read_index"
      /\ job'[w].event = job[w].event
      /\ job'[w].disposition = "accepted"
  BY <1>3, <1>4 DEF Jobs, Steps
<1>6. job'[w] # Idle
  BY <1>5, ConstantsAssumption
<1>7. RecordId(job[w].event) = r
  BY <1>2, <1>3 DEF Stored
<1> QED BY <1>2, <1>4, <1>5, <1>6, <1>7

\* What the steps between the record file and the ledger line do to a job.
LEMMA BeforeEntry ==
  ASSUME Solo, SoloInv, [Next]_vars, NEW w \in Writers, job[w] # Idle,
         Progress(w), job[w].disposition = "accepted",
         job[w].step \notin RecordSteps \cup AfterEntrySteps \cup {"append_ledger"}
  PROVE  /\ job'[w] # Idle
         /\ job'[w].disposition = "accepted"
         /\ job'[w].event = job[w].event
         /\ job'[w].step \notin RecordSteps \cup AfterEntrySteps
<1> USE DEF RecordSteps, AfterEntrySteps, CorrectionSteps, QuarantineSteps
<1>1. PICK i \in Jobs : i = job[w]
  BY AtWork DEF TypeInv, JobsTyped
<1>2. w \in DOMAIN job
  BY AtWork DEF TypeInv, JobsTyped
<1>3. i.step \notin QuarantineSteps
  BY <1>1, AtWork DEF SoloJob, SoloRecord
<1>4. i.step = "write_observations" => observations[RecordId(i.event)] = Absent
  BY <1>1, AtWork DEF SoloJob, SoloFiles
<1>5. \/ job'[w] = [[i EXCEPT !.step = "replace_index"] EXCEPT !.index = index]
      \/ job'[w] = [[i EXCEPT !.step = "project_learning"] EXCEPT !.index = {}]
      \/ \E step \in {"project_learning", "write_observations",
                      "replace_observations", "append_ledger"} :
           job'[w] = [i EXCEPT !.step = step]
  <2>1. CASE ReadIndex(w) \/ ReplaceIndex(w)
    BY <1>1, <1>2, <2>1 DEF ReadIndex, ReplaceIndex, Goto
  <2>2. CASE ProjectLearning(w) \/ ReplaceObservations(w)
    BY <1>1, <1>2, <2>2 DEF ProjectLearning, ReplaceObservations, Goto
  <2>3. CASE WriteObservations(w)
    BY <1>1, <1>2, <1>4, <2>3 DEF WriteObservations, WriteOnce, Goto, At
  <2> QED
    BY <1>1, <1>3, <2>1, <2>2, <2>3, StepTaken DEF At
<1>6. PICK j : j = job'[w]
  OBVIOUS
<1>7. /\ j \in Jobs
      /\ j.disposition = i.disposition /\ j.event = i.event
      /\ j.step \in {"replace_index", "project_learning", "write_observations",
                     "replace_observations", "append_ledger"}
  <2>1. index \subseteq RecordIds
    BY DEF SoloInv, OwnInv, TypeInv, TypeOK, StoreTypeOK
  <2>2. CASE j = [[i EXCEPT !.step = "replace_index"] EXCEPT !.index = index]
    BY <2>1, <2>2 DEF Jobs, Steps
  <2>3. CASE j = [[i EXCEPT !.step = "project_learning"] EXCEPT !.index = {}]
    BY <2>3 DEF Jobs, Steps
  <2>4. CASE \E step \in {"project_learning", "write_observations",
                      "replace_observations", "append_ledger"} :
               j = [i EXCEPT !.step = step]
    BY <2>4 DEF Jobs, Steps
  <2> QED BY <1>5, <1>6, <2>2, <2>3, <2>4
<1>8. j # Idle
  BY <1>7, ConstantsAssumption
<1> QED BY <1>1, <1>6, <1>7, <1>8


\* Each record is journalled, or about to be.
LEMMA RecordsJournalledStep ==
  ASSUME Solo, SoloInv, RecordsJournalled, [Next]_vars, interrupts' = interrupts
  PROVE  RecordsJournalled'
<1> SUFFICES ASSUME NEW r \in RecordIds, Stored(r)'
             PROVE  \/ AcceptedLine(r)'
                    \/ \E w \in Writers : job'[w] # Idle /\ Journals(job'[w], r)
  BY DEF RecordsJournalled, Journals
<1>1. CASE ~Stored(r)
  BY <1>1, NewRecord
  DEF Journals, RecordSteps, AfterEntrySteps, CorrectionSteps
<1>2. CASE AcceptedLine(r)
  <2>1. PICK i \in DOMAIN ledger : /\ ledger[i] # Torn
                                   /\ ledger[i].disposition = "accepted"
                                   /\ RecordId(ledger[i].event) = r
    BY <1>2 DEF AcceptedLine
  <2>2. i \in DOMAIN ledger' /\ ledger'[i] = ledger[i]
    BY KeptStep DEF Kept
  <2> QED BY <2>1, <2>2 DEF AcceptedLine
<1>3. ASSUME NEW w \in Writers, job[w] # Idle, Journals(job[w], r)
      PROVE  AcceptedLine(r)' \/ (job'[w] # Idle /\ Journals(job'[w], r))
  <2>1. CASE UNCHANGED <<storeVars, job>>
    BY <1>3, <2>1
  <2>2. CASE Progress(w) /\ job[w].step = "append_ledger"
    <3>1. AppendLedger(w)
      BY <2>2, StepTaken DEF At
    <3>2. ledger' = Append(ledger, Entry(w))
      BY <3>1 DEF SoloInv, AppendLedger, AppendLine, Extend
    <3>3. /\ Len(ledger) + 1 \in DOMAIN ledger'
          /\ ledger'[Len(ledger) + 1] = Entry(w)
          /\ Entry(w) # Torn
      BY <1>3, <3>2, Appended, LedgerTyped
    <3>4. Entry(w).disposition = "accepted" /\ RecordId(Entry(w).event) = r
      BY <1>3 DEF Journals, Entry
    <3> QED BY <3>3, <3>4 DEF AcceptedLine
  <2>3. CASE Progress(w) /\ job[w].step # "append_ledger"
    BY <1>3, <2>3, BeforeEntry DEF Journals
  <2> QED BY <1>3, <2>1, <2>2, <2>3, Underway
<1> QED BY <1>1, <1>2, <1>3 DEF RecordsJournalled

\* No step changes what a delivery was asked to do, and only one of them makes
\* it replace the index.
LEMMA DeliveryKept ==
  ASSUME SoloInv, NEW w \in Writers, job[w] # Idle, Progress(w), job'[w] # Idle
  PROVE  /\ job'[w].operation = job[w].operation
         /\ job'[w].step = "replace_index" => ReadIndex(w)
<1>1. PICK i \in Jobs : i = job[w]
  BY DEF SoloInv, OwnInv, TypeInv, TypeOK
<1>2. job \in [Writers -> Jobs \cup {Idle}]
  BY DEF SoloInv, OwnInv, TypeInv, TypeOK
<1>3. CASE ReadRecord(w) \/ WriteRecord(w) \/ ReplaceRecord(w)
  BY <1>1, <1>2, <1>3
  DEF ReadRecord, WriteRecord, ReplaceRecord, WriteOnce, Goto, Collide, Jobs
<1>4. CASE \/ ReplaceIndex(w) \/ ProjectLearning(w)
           \/ WriteObservations(w) \/ ReplaceObservations(w)
  BY <1>1, <1>2, <1>4
  DEF ReplaceIndex, ProjectLearning, WriteObservations, ReplaceObservations,
      WriteOnce, Goto, Collide, Jobs
<1>5. CASE WriteQuarantine(w) \/ ReplaceQuarantine(w) \/ AppendLedger(w)
  BY <1>1, <1>2, <1>5
  DEF WriteQuarantine, ReplaceQuarantine, AppendLedger, WriteOnce, Goto,
      Collide, Jobs
<1>6. CASE FindClaims(w) \/ FindPredecessors(w)
  <2>1. \/ \E claims : job'[w] = [[i EXCEPT !.step = "find_predecessors"]
                                  EXCEPT !.targets = claims]
        \/ \E live : job'[w] = [[[i EXCEPT !.step = "write_correction"]
                                 EXCEPT !.targets = live] EXCEPT !.issued_at = clock]
    <3>1. PICK claims, live : /\ claims = HistoricalClaims(i.event)
                              /\ live = {r \in i.targets : ~Corrected(r)}
      OBVIOUS
    <3> QED BY <1>1, <1>2, <1>6, <3>1 DEF FindClaims, FindPredecessors
  <2> QED BY <1>1, <2>1 DEF Jobs
<1>7. CASE CorrectionsDone(w) \/ Reply(w)
  BY <1>1, <1>2, <1>7 DEF CorrectionsDone, Reply, Goto, Jobs
<1>8. CASE WriteCorrection(w) \/ ReplaceCorrection(w)
  <2>1. CASE WriteCorrection(w)
    <3>1. PICK t \in i.targets :
            \/ job'[w] = [[i EXCEPT !.step = "replace_correction"] EXCEPT !.target = t]
            \/ \E rest : job'[w] = [i EXCEPT !.targets = rest]
      BY <1>1, <1>2, <2>1 DEF WriteCorrection, Collide
    <3>2. i.step = "write_correction"
      BY <1>1, <2>1 DEF WriteCorrection, At
    <3> QED BY <1>1, <3>1, <3>2 DEF Jobs
  <2>2. CASE ReplaceCorrection(w)
    <3>1. \E rest : job'[w] = [[[i EXCEPT !.step = "write_correction"]
                               EXCEPT !.targets = rest] EXCEPT !.target = Absent]
      BY <1>1, <1>2, <2>2 DEF ReplaceCorrection
    <3> QED BY <1>1, <3>1 DEF Jobs
  <2> QED BY <1>8, <2>1, <2>2
<1>9. CASE ReadIndex(w)
  BY <1>1, <1>2, <1>9 DEF ReadIndex, Goto, Jobs
<1> QED BY <1>3, <1>4, <1>5, <1>6, <1>7, <1>8, <1>9 DEF Progress

\* Each record is in the index, or about to be.
LEMMA RecordsIndexedStep ==
  ASSUME Solo, SoloInv, RecordsIndexed, [Next]_vars, interrupts' = interrupts
  PROVE  RecordsIndexed'
<1> USE DEF RecordSteps, AfterEntrySteps, CorrectionSteps
<1>a. job \in [Writers -> Jobs \cup {Idle}]
  BY DEF SoloInv, OwnInv, TypeInv, TypeOK
<1>b. \A v, w \in Writers : v = w
  BY DEF Solo, SingleWriter
<1>1. ASSUME NEW w \in Writers, ReplaceIndex(w)
      PROVE  /\ index' = index \cup {RecordId(job[w].event)}
             /\ RecordId(job[w].event) \in Admitted
             /\ job'[w] # Idle => job'[w].step = "project_learning"
  <2>1. PICK i \in Jobs : i = job[w] /\ i # Idle /\ i.step = "replace_index"
    BY <1>1, <1>a DEF ReplaceIndex, At
  <2>2. i.disposition # "quarantined" /\ RecordId(i.event) \in Admitted
    BY <2>1, AtWork DEF JobOwned, AdmissionSteps
  <2>3. job'[w] = [[i EXCEPT !.step = "project_learning"] EXCEPT !.index = {}]
    BY <1>1, <1>a, <2>1 DEF ReplaceIndex
  <2>4. job'[w].step = "project_learning"
    BY <2>3 DEF Jobs
  <2>5. index' = index \cup {RecordId(i.event)}
    BY <1>1, <2>1 DEF ReplaceIndex, RecordsIndexed
  <2> QED BY <2>1, <2>2, <2>4, <2>5
<1>2. \/ UNCHANGED index
      \/ \E w \in Writers : ReplaceIndex(w)
  BY StoreSteps
  DEF ReplaceRecord, ReplaceObservations, ReplaceQuarantine, AppendLedger,
      ReplaceCorrection, Interrupt
<1>3. index \subseteq index'
  BY <1>1, <1>2
<1>4. index' \subseteq Admitted'
  <2>1. Admitted \subseteq Admitted'
    BY AdmittedGrows DEF SoloInv, OwnInv
  <2> QED BY <1>1, <1>2, <2>1 DEF RecordsIndexed
<1>5. ASSUME NEW w \in Writers, job'[w] # Idle, job'[w].step = "replace_index"
      PROVE  job'[w].index = index'
  <2>1. CASE job[w] = Idle
    <3>1. \A v \in Writers : job[v] = Idle
      BY <1>b, <2>1
    <3>2. PICK e \in Events, operation \in Operations : Deliver(w, e, operation)
      BY <1>5, <1>b, <2>1, <3>1, AtRest DEF Next, Tick, vars
    <3>3. job'[w].step \in {"read_record", "write_quarantine"}
      BY <1>a, <3>2 DEF Deliver
    <3> QED BY <1>5, <3>3
  <2>2. CASE job[w] # Idle /\ UNCHANGED <<storeVars, job>>
    BY <1>5, <2>2 DEF RecordsIndexed
  <2>3. CASE job[w] # Idle /\ Progress(w)
    <3>1. PICK i \in Jobs : i = job[w]
      BY <1>a, <2>3
    <3>2. ReadIndex(w)
      BY <1>5, <2>3, DeliveryKept
    <3>3. \/ job'[w] = [[i EXCEPT !.step = "replace_index"] EXCEPT !.index = index]
          \/ job'[w] = [i EXCEPT !.step = "project_learning"]
      BY <1>a, <3>1, <3>2 DEF ReadIndex, Goto
    <3>4. job'[w].index = index
      BY <1>5, <3>1, <3>3 DEF Jobs
    <3>5. index' = index
      BY <3>2 DEF ReadIndex
    <3> QED BY <3>4, <3>5
  <2> QED BY <2>1, <2>2, <2>3, Underway
<1>6. ASSUME NEW r \in RecordIds, Stored(r)'
      PROVE  \/ r \in index'
             \/ \E w \in Writers : job'[w] # Idle /\ Indexes(job'[w], r)
  <2>1. CASE ~Stored(r)
    BY <1>6, <2>1, NewRecord DEF Indexes
  <2>2. CASE r \in index
    BY <1>3, <2>2
  <2>3. ASSUME NEW w \in Writers, job[w] # Idle, Indexes(job[w], r)
        PROVE  r \in index' \/ (job'[w] # Idle /\ Indexes(job'[w], r))
    <3>1. PICK i \in Jobs : i = job[w]
      BY <1>a, <2>3
    <3>2. CASE UNCHANGED <<storeVars, job>>
      BY <2>3, <3>2
    <3>3. CASE ReadIndex(w)
      <4>1. \/ r \in index
            \/ job'[w] = [[i EXCEPT !.step = "replace_index"] EXCEPT !.index = index]
        BY <1>a, <2>3, <3>1, <3>3 DEF ReadIndex, Indexes
      <4>2. CASE job'[w] = [[i EXCEPT !.step = "replace_index"] EXCEPT !.index = index]
        <5>1. PICK j : j = job'[w]
          OBVIOUS
        <5>2. /\ j \in Jobs /\ j.step = "replace_index" /\ j.event = i.event
          <6>1. index \subseteq RecordIds
            BY DEF SoloInv, OwnInv, TypeInv, TypeOK, StoreTypeOK
          <6> QED BY <4>2, <5>1, <6>1 DEF Jobs, Steps
        <5> QED BY <2>3, <3>1, <5>1, <5>2, ConstantsAssumption DEF Indexes
      <4> QED BY <1>3, <4>1, <4>2
    <3>4. CASE ReplaceIndex(w)
      BY <1>1, <2>3, <3>4 DEF Indexes
    <3>5. Progress(w) => ReadIndex(w) \/ ReplaceIndex(w)
      BY <2>3, StepTaken DEF Indexes, At
    <3> QED BY <2>3, <3>2, <3>3, <3>4, <3>5, Underway
  <2> QED BY <1>6, <2>1, <2>2, <2>3 DEF RecordsIndexed
<1> QED BY <1>4, <1>5, <1>6 DEF RecordsIndexed, Indexes, Stored


\* A delivery that is to correct a live claim goes on until it has.
LEMMA ReplacesStep ==
  ASSUME Solo, SoloInv, ClaimsReplaced, [Next]_vars, interrupts' = interrupts,
         NEW r \in RecordIds, NEW s \in RecordIds, Rivals(r, s), Rivals(r, s)',
         NEW w \in Writers, job[w] # Idle, Replaces(job[w], r, s)
  PROVE  job'[w] # Idle /\ Replaces(job'[w], r, s)
<1> USE DEF RecordSteps, AfterEntrySteps, CorrectionSteps
<1>1. PICK i \in Jobs : i = job[w] /\ SoloJob(i)
  BY AtWork DEF TypeInv, JobsTyped
<1>2. /\ job \in [Writers -> Jobs \cup {Idle}]
      /\ corrections \in [CorrectionIds -> Nat \cup {Absent}]
      /\ clock \in Nat
  BY ConstantsAssumption DEF SoloInv, OwnInv, TypeInv, TypeOK, StoreTypeOK
<1>3. /\ i.event \in Events
      /\ i.event.event_id \in EventIds
      /\ i.operation = "ingest_or_correct"
      /\ i.disposition = "accepted"
      /\ RecordId(i.event) = r
      /\ i.step \notin RecordSteps \cup {"reply"}
      /\ i.step \in {"find_predecessors", "write_correction", "replace_correction"} =>
           s \in i.targets
  BY <1>1 DEF Jobs, EventIds, Replaces, ClaimsReplaced
<1>4. records[r] = RecordDocument(i.event)
  BY <1>1, <1>3 DEF SoloJob, SoloRecord
<1>5. /\ IsHistorical(i.event)
      /\ s \in HistoricalClaims(i.event)
      /\ ~Corrected(s) /\ ~Corrected(s)'
  BY <1>3, <1>4
  DEF Rivals, IsLive, IsHistorical, HistoricalClaims, RecordDocument
\* It is enough that the job keeps its delivery, and its target if it has any.
<1>6. ASSUME NEW j \in Jobs, j = job'[w], j.event = i.event,
             j.disposition = i.disposition,
             j.step \notin RecordSteps \cup {"reply"},
             j.step \in {"find_predecessors", "write_correction",
                         "replace_correction"} => s \in j.targets
      PROVE  job'[w] # Idle /\ Replaces(job'[w], r, s)
  BY <1>3, <1>6, ConstantsAssumption DEF Replaces
<1>7. CASE UNCHANGED <<storeVars, job>>
  BY <1>7
<1>8. CASE Progress(w) /\ i.step \notin AfterEntrySteps \cup {"append_ledger"}
  <2>1. /\ job'[w] # Idle
        /\ job'[w].disposition = "accepted"
        /\ job'[w].event = job[w].event
        /\ job'[w].step \notin RecordSteps \cup AfterEntrySteps
    BY <1>1, <1>3, <1>8, BeforeEntry
  <2> QED BY <1>1, <1>3, <2>1 DEF Replaces
<1>9. CASE AppendLedger(w)
  <2>1. job'[w] = [i EXCEPT !.step = "find_claims"]
    BY <1>1, <1>2, <1>3, <1>5, <1>9 DEF AppendLedger, Goto
  <2>2. PICK j : j = job'[w]
    OBVIOUS
  <2>3. /\ j \in Jobs /\ j.step = "find_claims" /\ j.event = i.event
        /\ j.disposition = i.disposition
    BY <2>1, <2>2 DEF Jobs, Steps
  <2> QED BY <1>6, <2>2, <2>3
<1>10. CASE FindClaims(w)
  <2>1. PICK j : j = [[i EXCEPT !.step = "find_predecessors"]
                      EXCEPT !.targets = HistoricalClaims(i.event)]
    OBVIOUS
  <2>2. j = job'[w]
    BY <1>1, <1>2, <1>10, <2>1 DEF FindClaims
  <2>3. HistoricalClaims(i.event) \subseteq RecordIds
    BY DEF HistoricalClaims
  <2>4. /\ j \in Jobs /\ j.step = "find_predecessors" /\ j.event = i.event
        /\ j.disposition = i.disposition /\ j.targets = HistoricalClaims(i.event)
    BY <2>1, <2>3 DEF Jobs, Steps
  <2> QED BY <1>5, <1>6, <2>2, <2>4
<1>11. CASE FindPredecessors(w)
  <2>1. PICK live : live = {t \in i.targets : ~Corrected(t)}
    OBVIOUS
  <2>2. PICK j : j = [[[i EXCEPT !.step = "write_correction"]
                       EXCEPT !.targets = live] EXCEPT !.issued_at = clock]
    OBVIOUS
  <2>3. j = job'[w]
    BY <1>1, <1>2, <1>11, <2>1, <2>2 DEF FindPredecessors
  <2>4. /\ j \in Jobs /\ j.step = "write_correction" /\ j.event = i.event
        /\ j.disposition = i.disposition /\ j.targets = live
    BY <1>2, <2>1, <2>2 DEF Jobs, Steps
  <2>5. s \in live
    BY <1>1, <1>3, <1>5, <1>11, <2>1 DEF FindPredecessors, At
  <2> QED BY <1>6, <2>3, <2>4, <2>5
<1>12. CASE WriteCorrection(w)
  <2>1. \A t \in i.targets : corrections[<<t, i.event.event_id>>] = Absent
    BY <1>1, <1>3, <1>12 DEF WriteCorrection, At, SoloJob, SoloTargets, Corrected
  <2>2. i.issued_at # Absent
    BY AbsentIsNoDocument DEF Jobs
  <2>3. PICK t \in i.targets :
          job'[w] = [[i EXCEPT !.step = "replace_correction"] EXCEPT !.target = t]
    BY <1>1, <1>2, <1>12, <2>1, <2>2 DEF WriteCorrection
  <2>4. PICK j : j = [[i EXCEPT !.step = "replace_correction"] EXCEPT !.target = t]
    OBVIOUS
  <2>5. /\ j \in Jobs /\ j.step = "replace_correction" /\ j.event = i.event
        /\ j.disposition = i.disposition /\ j.targets = i.targets
    BY <2>4 DEF Jobs, Steps
  <2>6. s \in i.targets
    BY <1>1, <1>3, <1>12 DEF WriteCorrection, At
  <2> QED BY <1>6, <2>3, <2>4, <2>5, <2>6
<1>13. CASE ReplaceCorrection(w)
  <2>1. PICK t : t = i.target
    OBVIOUS
  <2>2. PICK j : j = [[[i EXCEPT !.step = "write_correction"]
                       EXCEPT !.targets = i.targets \ {t}] EXCEPT !.target = Absent]
    OBVIOUS
  <2>3. /\ j = job'[w]
        /\ corrections' = [corrections EXCEPT ![<<t, i.event.event_id>>] = i.issued_at]
    BY <1>1, <1>2, <1>13, <2>1, <2>2 DEF ReplaceCorrection
  <2>4. /\ j \in Jobs /\ j.step = "write_correction" /\ j.event = i.event
        /\ j.disposition = i.disposition /\ j.targets = i.targets \ {t}
    BY <2>2 DEF Jobs, Steps
  <2>5. s \in i.targets
    BY <1>1, <1>3, <1>13 DEF ReplaceCorrection, At
  <2>6. s # t
    <3>1. SUFFICES ASSUME s = t PROVE FALSE
      OBVIOUS
    <3>2. <<s, i.event.event_id>> \in CorrectionIds
      BY <1>3 DEF CorrectionIds
    <3>3. corrections'[<<s, i.event.event_id>>] = i.issued_at
      BY <1>2, <2>3, <3>1, <3>2
    <3>4. i.issued_at # Absent
      BY AbsentIsNoDocument DEF Jobs
    <3> QED BY <1>3, <1>5, <3>3, <3>4 DEF Corrected
  <2> QED BY <1>6, <2>3, <2>4, <2>5, <2>6
<1>14. ~CorrectionsDone(w) /\ ~Reply(w)
  BY <1>1, <1>3 DEF CorrectionsDone, Reply, At
<1>15. CASE Progress(w) /\ i.step \in AfterEntrySteps \cup {"append_ledger"}
  BY <1>1, <1>9, <1>10, <1>11, <1>12, <1>13, <1>14, <1>15, StepTaken
  DEF At
<1> QED BY <1>7, <1>8, <1>15, Underway

\* Two live claims of one event are one claim too many, which the delivery of
\* the later one is about to correct.
LEMMA ClaimsReplacedStep ==
  ASSUME Solo, SoloInv, ClaimsReplaced, [Next]_vars, interrupts' = interrupts,
         "ingest" \notin Operations
  PROVE  ClaimsReplaced'
<1>a. job \in [Writers -> Jobs \cup {Idle}]
  BY DEF SoloInv, OwnInv, TypeInv, TypeOK
<1>1. ASSUME NEW w \in Writers, job'[w] # Idle
      PROVE  job'[w].operation = "ingest_or_correct"
  <2>1. CASE job'[w] = job[w]
    BY <1>1, <2>1 DEF ClaimsReplaced
  <2>2. ASSUME NEW v \in Writers, NEW e \in Events, NEW operation \in Operations,
               Deliver(v, e, operation)
        PROVE  job'[w].operation = "ingest_or_correct"
    <3>1. operation = "ingest_or_correct"
      BY ConstantsAssumption
    <3>2. CASE v = w
      BY <1>a, <2>2, <3>1, <3>2 DEF Deliver
    <3>3. CASE v # w
      BY <1>a, <1>1, <2>2, <3>3 DEF Deliver, ClaimsReplaced
    <3> QED BY <3>2, <3>3
  <2>3. CASE job[w] # Idle /\ Progress(w)
    BY <1>1, <2>3, DeliveryKept DEF ClaimsReplaced
  <2>4. CASE job[w] = Idle
    <3>1. \A v \in Writers : v = w
      BY DEF Solo, SingleWriter
    <3>2. \A v \in Writers : ~Progress(v) /\ ~Interrupt(v)
      BY <2>4, <3>1, AtRest
    <3> QED BY <2>1, <2>2, <3>2 DEF Next, Tick, vars
  <2> QED BY <2>1, <2>3, <2>4, Underway
<1>2. ASSUME NEW r \in RecordIds, NEW s \in RecordIds, Rivals(r, s)'
      PROVE  \E w \in Writers :
               /\ job'[w] # Idle
               /\ Replaces(job'[w], r, s) \/ Replaces(job'[w], s, r)
  <2>1. CASE ~Stored(r) \/ ~Stored(s)
    BY <1>2, <2>1, NewRecord
    DEF Rivals, IsLive, Replaces, RecordSteps, CorrectionSteps
  <2>2. CASE Stored(r) /\ Stored(s)
    <3>1. records'[r] = records[r] /\ records'[s] = records[s]
      BY <2>2, KeptStep DEF Kept
    <3>2. ASSUME NEW q \in RecordIds, ~Corrected(q)'
          PROVE  ~Corrected(q)
      BY <3>2, KeptStep DEF Kept, Corrected, CorrectionIds
    <3>3. Rivals(r, s) /\ Rivals(s, r) /\ Rivals(s, r)'
      BY <1>2, <2>2, <3>1, <3>2 DEF Rivals, IsLive
    <3> QED BY <1>2, <3>3, ReplacesStep DEF ClaimsReplaced
  <2> QED BY <2>1, <2>2
<1> QED BY <1>1, <1>2 DEF ClaimsReplaced, Replaces

\* Interruptions are only ever used up.
LEMMA InterruptsLeft ==
  ASSUME [Next]_vars, TypeInv
  PROVE  /\ interrupts \in 0 .. MaxInterrupts
         /\ interrupts' = interrupts \/ interrupts' = interrupts - 1
<1>1. ASSUME NEW w \in Writers, Progress(w)
      PROVE  interrupts' = interrupts
  BY <1>1
  DEF Progress, ReadRecord, WriteRecord, ReplaceRecord, ReadIndex, ReplaceIndex,
      ProjectLearning, WriteObservations, ReplaceObservations,
      WriteQuarantine, ReplaceQuarantine, AppendLedger, FindClaims,
      FindPredecessors, WriteCorrection, ReplaceCorrection, CorrectionsDone, Reply
<1>2. interrupts' = interrupts \/ interrupts' = interrupts - 1
  BY <1>1 DEF Next, Deliver, Interrupt, Tick, vars
<1> QED BY <1>2 DEF TypeInv, TypeOK

\* A single writer that has not been interrupted leaves nothing undone.
LEMMA UninterruptedInvariant ==
  ASSUME Solo
  PROVE  Spec => []UninterruptedInv
<1>1. Init => UninterruptedInv
  <2> SUFFICES ASSUME Init PROVE UninterruptedInv
    OBVIOUS
  <2>1. /\ \A r \in RecordIds : ~Stored(r)
        /\ index = {}
        /\ \A w \in Writers : job[w] = Idle
    BY DEF Init, StoreInit, Stored
  <2> QED BY <2>1 DEF UninterruptedInv, RecordsJournalled, RecordsIndexed,
                      ClaimsReplaced, Rivals, IsLive
<1>2. SoloInv /\ UninterruptedInv /\ [Next]_vars => UninterruptedInv'
  <2> SUFFICES ASSUME SoloInv, UninterruptedInv, [Next]_vars,
                      interrupts' = MaxInterrupts
               PROVE  /\ RecordsJournalled'
                      /\ RecordsIndexed'
                      /\ "ingest" \notin Operations => ClaimsReplaced'
    BY DEF UninterruptedInv
  <2>1. interrupts' = interrupts
    BY InterruptsLeft, ConstantsAssumption DEF SoloInv, OwnInv
  <2>2. /\ RecordsJournalled
        /\ RecordsIndexed
        /\ "ingest" \notin Operations => ClaimsReplaced
    BY <2>1 DEF UninterruptedInv
  <2> QED BY <2>1, <2>2, RecordsJournalledStep, RecordsIndexedStep,
             ClaimsReplacedStep
<1> QED BY <1>1, <1>2, SoloInvariant, PTL DEF Spec

\* The records of a quiet store were admitted one by one.
LEMMA AdmissionsCounted ==
  ASSUME SoloInv,
         NEW Accepted, Accepted = {i \in DOMAIN ledger : ledger[i].disposition = "accepted"},
         {RecordId(ledger[i].event) : i \in Accepted} = Admitted
  PROVE  Cardinality(Accepted) = Cardinality(Admitted)
<1> DEFINE admitted == [i \in Accepted |-> RecordId(ledger[i].event)]
<1>1. IsFiniteSet(Accepted)
  <2>1. PICK n \in Nat : DOMAIN ledger = 1 .. n
    BY LedgerTyped
  <2>2. IsFiniteSet(1 .. n)
    BY FS_Interval
  <2>3. Accepted \subseteq 1 .. n
    BY <2>1
  <2> QED BY <2>2, <2>3, FS_Subset
<1>2. \A i, j \in Accepted : admitted[i] = admitted[j] => i = j
  BY LedgerTyped DEF SoloInv, AcceptedOnce
<1>3. /\ admitted \in [Accepted -> Admitted]
      /\ \A r \in Admitted : \E i \in Accepted : admitted[i] = r
  OBVIOUS
<1> HIDE DEF admitted
<1>4. admitted \in Injection(Accepted, Admitted)
  BY <1>2, <1>3, Fun_IsInj
<1>5. admitted \in Surjection(Accepted, Admitted)
  BY <1>3, Fun_IsSurj
<1> QED BY <1>1, <1>4, <1>5, FS_Surjection

\* Between two deliveries, until something is interrupted, the ledger of a
\* single writer accepts each stored record once and nothing else, and its
\* index lists them all.
THEOREM JournalAlwaysMatches ==
  ASSUME Solo
  PROVE  Spec => []JournalMatchesCorpus
<1>1. SoloInv /\ UninterruptedInv => JournalMatchesCorpus
  <2> SUFFICES ASSUME SoloInv, RecordsJournalled, RecordsIndexed, Quiet
               PROVE  JournalMatchesCorpus
    BY DEF UninterruptedInv, JournalMatchesCorpus
  <2>1. PICK Accepted :
          Accepted = {i \in DOMAIN ledger : ledger[i].disposition = "accepted"}
    OBVIOUS
  <2>2. \A r \in Admitted : \E i \in Accepted : RecordId(ledger[i].event) = r
    BY <2>1 DEF Quiet, RecordsJournalled, Admitted, AcceptedLine
  <2>3. \A i \in Accepted : RecordId(ledger[i].event) \in Admitted
    <3> SUFFICES ASSUME NEW i \in Accepted
                 PROVE  RecordId(ledger[i].event) \in Admitted
      OBVIOUS
    <3>1. ledger[i] \in LedgerEntries /\ ledger[i] # Torn
      BY <2>1, LedgerTyped
    <3>2. RecordId(ledger[i].event) \in RecordIds
      BY <3>1 DEF LedgerEntries, RecordIds
    <3>3. Stored(RecordId(ledger[i].event))
      BY <2>1, <3>1
      DEF SoloInv, OwnInv, ReferencesHold, JournalledRecordsStored, NamesRecord
    <3> QED BY <3>2, <3>3 DEF Admitted
  <2>4. {RecordId(ledger[i].event) : i \in Accepted} = Admitted
    BY <2>2, <2>3
  <2>5. index = Admitted
    BY DEF Quiet, RecordsIndexed, Admitted
  <2> QED BY <2>1, <2>4, <2>5, AdmissionsCounted DEF JournalMatchesCorpus, Admitted
<1> QED BY <1>1, SoloInvariant, UninterruptedInvariant, PTL

\* Between two deliveries, until something is interrupted, a single writer
\* that corrects what it replaces leaves an event one live claim.
THEOREM OneClaimStaysLive ==
  ASSUME Solo, "ingest" \notin Operations
  PROVE  Spec => [](interrupts = MaxInterrupts => OneLiveClaim)
<1>1. SoloInv /\ UninterruptedInv => (interrupts = MaxInterrupts => OneLiveClaim)
  <2> SUFFICES ASSUME ClaimsReplaced, SoloInv, Quiet,
                      NEW e \in Events, NEW f \in Events,
                      IsHistorical(e), e.stream = f.stream,
                      e.event_id = f.event_id, e.payload # f.payload,
                      LiveClaim(e), LiveClaim(f)
               PROVE  FALSE
    BY DEF UninterruptedInv, OneLiveClaim
  <2>1. PICK r \in RecordIds, s \in RecordIds : r = RecordId(e) /\ s = RecordId(f)
    BY DEF RecordIds
  <2>2. /\ records[r] = RecordDocument(e) /\ records[s] = RecordDocument(f)
        /\ ~Corrected(r) /\ ~Corrected(s)
    BY <2>1 DEF LiveClaim
  <2>3. RecordDocument(e) # Absent /\ RecordDocument(f) # Absent
    BY AbsentIsNoDocument DEF RecordDocuments
  <2>4. Rivals(r, s)
    BY <2>2, <2>3 DEF Rivals, IsLive, Stored, RecordDocument, IsHistorical
  <2> QED BY <2>4 DEF ClaimsReplaced, Quiet
<1> QED BY <1>1, SoloInvariant, UninterruptedInvariant, PTL
=============================================================================
