-------------------------- MODULE RefinementProofs --------------------------
(***************************************************************************)
(* A single writer, interrupted anywhere but inside a ledger append, keeps *)
(* the promise of CorpusPromise: each file operation the promise speaks of *)
(* is a step of it, and every other step of the service is a stutter.      *)
(***************************************************************************)
EXTENDS SoloProofs

USE DEF environment, storeVars

\* The variables of the promise, as the service holds them.
retiredClaims == {c \in CorrectionIds : corrections[c] # Absent}
toldAnswers == {a \in answers : a[2] # "collision"}

\* The identities of the promise are those of the store.
LEMMA SameIdentities ==
  /\ Promise!RecordIds = RecordIds
  /\ Promise!EventIds = EventIds
  /\ \A e : Promise!RecordId(e) = RecordId(e)
  /\ \A e : Promise!RecordDocument(e) = RecordDocument(e)
  /\ \A e : Promise!IsHistorical(e) <=> IsHistorical(e)
  /\ Promise!Dispositions = Dispositions
BY DEF Promise!RecordIds, Promise!EventIds, Promise!RecordId,
       Promise!RecordDocument, Promise!IsHistorical, Promise!Dispositions,
       RecordIds, EventIds, RecordId, RecordDocument, IsHistorical, Dispositions

\* An empty store is a promise nothing was asked of yet.
LEMMA RefinesInit == Init => Promise!Init
BY SameIdentities DEF Init, StoreInit, Promise!Init

-----------------------------------------------------------------------------
(***************************************************************************)
(* The file operations the promise speaks of.                              *)
(***************************************************************************)

\* The record file of a new record is its admission.
LEMMA AdmitStep ==
  ASSUME SoloInv, NEW w \in Writers, ReplaceRecord(w)
  PROVE  Promise!Next
<1>1. PICK e \in Events : e = job[w].event
  BY AtWork, EventTyped DEF ReplaceRecord, At
<1>2. e.clean /\ ~Stored(RecordId(e))
  BY <1>1, AtWork DEF ReplaceRecord, At, SoloJob, SoloRecord, RecordSteps, JobOwned
<1>3. UNCHANGED <<retiredClaims, ledger, toldAnswers>>
  BY DEF ReplaceRecord, retiredClaims, toldAnswers
<1>4. Promise!Admit(e)
  BY <1>1, <1>2, <1>3, SameIdentities
  DEF Promise!Admit, ReplaceRecord, Stored, retiredClaims, toldAnswers
<1> QED BY <1>4 DEF Promise!Next

\* A ledger line is the journal entry its delivery has a right to.
LEMMA JournalLineStep ==
  ASSUME SoloInv, NEW w \in Writers, AppendLedger(w),
         ledger' = Append(ledger, Entry(w))
  PROVE  Promise!Next
<1>1. PICK e \in Events, d \in Dispositions :
        e = job[w].event /\ d = job[w].disposition
  <2>1. job[w] \in Jobs
    BY AtWork, EventTyped DEF AppendLedger, At
  <2> QED BY <2>1 DEF Jobs
<1>2. /\ job[w].step = "append_ledger"
      /\ SoloJob(job[w])
      /\ JobOwned(job[w], Admitted)
  BY AtWork DEF AppendLedger, At
<1>3. Entry(w) = [sequence |-> Len(ledger) + 1, event |-> e, disposition |-> d]
  BY <1>1, <1>2
  DEF Entry, SoloJob, SoloJournal, AfterEntrySteps, CorrectionSteps, NextSequence
<1>4. Promise!Justified(e, d)
  <2>1. CASE d = "accepted"
    <3>1. records[RecordId(e)] = RecordDocument(e) /\ ~AcceptedLine(RecordId(e))
      BY <1>1, <1>2, <2>1
      DEF SoloJob, SoloJournal, SoloRecord, AfterEntrySteps, CorrectionSteps,
          RecordSteps
    <3>2. \A i \in DOMAIN ledger : ledger[i].disposition = "accepted" =>
            RecordId(ledger[i].event) # RecordId(e)
      BY <3>1, LedgerTyped DEF AcceptedLine
    <3> QED BY <2>1, <3>1, <3>2, SameIdentities DEF Promise!Justified
  <2>2. CASE d = "duplicate"
    BY <1>1, <1>2, <2>2, SameIdentities
    DEF Promise!Justified, SoloJob, SoloRecord, JobOwned, Stored
  <2>3. CASE d = "quarantined"
    BY <1>1, <1>2, <2>3, SameIdentities
    DEF Promise!Justified, SoloJob, SoloRecord, Stored
  <2> QED BY <2>1, <2>2, <2>3 DEF Dispositions
<1>5. UNCHANGED <<records, retiredClaims, toldAnswers>>
  BY DEF AppendLedger, retiredClaims, toldAnswers
<1>6. Promise!Journal(e, d)
  BY <1>3, <1>4, <1>5 DEF Promise!Journal, retiredClaims, toldAnswers
<1> QED BY <1>1, <1>6, SameIdentities DEF Promise!Next

\* A correction file retires the claim it names, in favour of a live one.
LEMMA RetireStep ==
  ASSUME SoloInv, NEW w \in Writers, ReplaceCorrection(w)
  PROVE  Promise!Next
<1>1. PICK e \in Events, r \in RecordIds :
        /\ e = job[w].event
        /\ r = job[w].target
        /\ r \in HistoricalClaims(e)
        /\ ~Corrected(r)
        /\ IsHistorical(e)
        /\ ~Corrected(RecordId(e))
        /\ JournalledAs(e, "accepted")
  BY Correcting, AtWork, EventTyped
  DEF ReplaceCorrection, At, HistoricalClaims, IsLive
<1>2. <<r, e.event_id>> \in CorrectionIds
  BY DEF CorrectionIds, EventIds
<1>3. job[w].issued_at # Absent
  BY AtWork, EventTyped, AbsentIsNoDocument DEF ReplaceCorrection, At
<1>4. corrections \in [CorrectionIds -> Nat \cup {Absent}]
  BY DEF SoloInv, OwnInv, TypeInv, TypeOK, StoreTypeOK
<1>5. retiredClaims' = retiredClaims \cup {<<r, e.event_id>>}
  BY <1>1, <1>2, <1>3, <1>4 DEF ReplaceCorrection, retiredClaims
<1>6. \A s \in RecordIds : Corrected(s) <=> \E id \in EventIds : <<s, id>> \in retiredClaims
  BY DEF Corrected, retiredClaims, CorrectionIds
<1>7. RecordId(e) \in RecordIds
  BY DEF RecordIds
<1>8. UNCHANGED <<records, ledger, toldAnswers>>
  BY DEF ReplaceCorrection, toldAnswers
<1>9. Promise!Retire(e, r)
  BY <1>1, <1>5, <1>6, <1>7, <1>8, SameIdentities
  DEF Promise!Retire, Promise!Retired, Promise!Journalled, JournalledAs,
      HistoricalClaims, Stored, retiredClaims, toldAnswers
<1> QED BY <1>1, <1>9, SameIdentities DEF Promise!Next

\* A reply tells the producer what the journal says.
LEMMA AnswerStep ==
  ASSUME SoloInv, NEW w \in Writers, Reply(w)
  PROVE  Promise!Next
<1>1. PICK e \in Events, d \in Dispositions :
        e = job[w].event /\ d = job[w].disposition
  <2>1. job[w] \in Jobs
    BY AtWork, EventTyped DEF Reply, At
  <2> QED BY <2>1 DEF Jobs
<1>2. JournalledAs(e, d)
  BY <1>1, AtWork DEF Reply, At, SoloJob, SoloJournal, AfterEntrySteps
<1>3. toldAnswers' = toldAnswers \cup {<<e, d>>}
  BY <1>1 DEF Reply, toldAnswers, Dispositions
<1>4. UNCHANGED <<records, retiredClaims, ledger>>
  BY DEF Reply, retiredClaims
<1>5. Promise!Answer(e, d)
  BY <1>2, <1>3, <1>4
  DEF Promise!Answer, Promise!Journalled, JournalledAs, retiredClaims, toldAnswers
<1> QED BY <1>1, <1>5, SameIdentities DEF Promise!Next

\* A refused write is nothing the promise speaks of.
LEMMA RefusalTellsNothing ==
  ASSUME NEW w \in Writers, Collide(w)
  PROVE  UNCHANGED toldAnswers
BY DEF Collide, toldAnswers

-----------------------------------------------------------------------------
\* Each step of a single writer is a step of the promise or a stutter.
LEMMA RefinesStep ==
  ASSUME Solo, SoloInv, [Next]_vars
  PROVE  [Promise!Next]_(Promise!promiseVars)
<1>1. CASE \E w \in Writers : ReplaceRecord(w)
  BY <1>1, AdmitStep
<1>2. CASE \E w \in Writers : AppendLedger(w)
  <2>1. PICK w \in Writers : AppendLedger(w)
    BY <1>2
  <2>2. ledger' = Append(ledger, Entry(w))
    BY <2>1 DEF SoloInv, AppendLedger, AppendLine, Extend
  <2> QED BY <2>1, <2>2, JournalLineStep
<1>3. CASE \E w \in Writers : ReplaceCorrection(w)
  BY <1>3, RetireStep
<1>4. CASE \E w \in Writers : Reply(w)
  BY <1>4, AnswerStep
<1>5. CASE ~ \E w \in Writers : \/ ReplaceRecord(w)
                                \/ AppendLedger(w)
                                \/ ReplaceCorrection(w)
                                \/ Reply(w)
  <2>1. UNCHANGED <<records, corrections, ledger>>
    <3>1. \A w \in Writers : Interrupt(w) => UNCHANGED <<records, corrections, ledger>>
      BY DEF Solo, Interrupt
    <3> QED BY <1>5, <3>1, StoreSteps
            DEF ReplaceIndex, ReplaceObservations, ReplaceQuarantine
  <2>2. UNCHANGED toldAnswers
    BY <1>5, AnswersChange, RefusalTellsNothing DEF Refused, toldAnswers
  <2>3. UNCHANGED retiredClaims
    BY <2>1 DEF retiredClaims
  <2> QED BY <2>1, <2>2, <2>3 DEF Promise!promiseVars, retiredClaims, toldAnswers
<1> QED BY <1>1, <1>2, <1>3, <1>4, <1>5

\* The ingestion service of a single writer implements CorpusPromise: whatever
\* it does to its files is an admission, a justified journal entry, a claim
\* retired in favour of a live one, an answer that is journalled, or nothing.
THEOREM ServiceKeepsPromise ==
  ASSUME Solo
  PROVE  Spec => KeepsPromise
<1>1. SoloInv /\ [Next]_vars => [Promise!Next]_(Promise!promiseVars)
  BY RefinesStep
<1> QED
  BY SoloInvariant, RefinesInit, <1>1, PTL DEF Spec, KeepsPromise, Promise!Spec
=============================================================================
