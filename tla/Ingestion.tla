----------------------------- MODULE Ingestion -----------------------------
(***************************************************************************)
(* The ingestion service (ingestion/service.py) over the corpus store: how *)
(* one delivery of an event becomes a sequence of file operations, with    *)
(* other writers of the same store, storage failures, crashes and          *)
(* redeliveries between any two of them.                                   *)
(*                                                                         *)
(* A writer is a process that runs the service: the single-request HTTP    *)
(* ingress, a CLI command or the historical bootstrap.  Nothing in the     *)
(* service or the store excludes a second one; SingleWriter says there is  *)
(* none.                                                                   *)
(***************************************************************************)
EXTENDS CorpusStore

CONSTANTS
  Writers,          \* processes that may run the service on this store
  Idle,             \* the state of a writer between two deliveries
  Operations,       \* entry points in use: "ingest", "ingest_or_correct"
  TornAppends,      \* whether an interrupted ledger append may write a part
  MaxClock,         \* bound: readings of the clock
  MaxRedeliveries,  \* bound: deliveries of events already answered
  MaxInterrupts     \* bound: storage failures, crashes and lost responses

SingleWriter == \A u, v \in Writers : u = v

VARIABLES
  job,           \* what each writer is doing
  clock,         \* the service's clock
  outbox,        \* events whose producer still waits for an answer
  redeliveries,  \* redeliveries left
  interrupts,    \* interruptions left
  answers        \* pairs of an event and an answer given to its producer

vars == <<storeVars, job, clock, outbox, redeliveries, interrupts, answers>>
environment == <<clock, outbox, redeliveries, interrupts, answers>>

Steps ==
  {"read_record", "write_record", "replace_record", "read_index",
   "replace_index", "project_learning", "write_observations",
   "replace_observations", "write_quarantine", "replace_quarantine",
   "append_ledger", "find_claims", "find_predecessors", "write_correction",
   "replace_correction", "reply"}

Jobs ==
  [step : Steps, event : Events, operation : {"ingest", "ingest_or_correct"},
   observed_at : Nat, sequence : Nat, disposition : Dispositions,
   index : SUBSET RecordIds, targets : SUBSET RecordIds,
   target : RecordIds \cup {Absent}, issued_at : Nat]

ASSUME ConstantsAssumption ==
  /\ Idle \notin Jobs
  /\ Operations \subseteq {"ingest", "ingest_or_correct"}
  /\ TornAppends \in BOOLEAN
  /\ {MaxClock, MaxRedeliveries, MaxInterrupts} \subseteq Nat

\* "collision" is StorageError, which no caller handles: the HTTP ingress
\* drops the connection and the CLI exits with a traceback.
Answers == Dispositions \cup {"collision"}

\* Every variable keeps its type.
TypeOK ==
  /\ StoreTypeOK
  /\ job \in [Writers -> Jobs \cup {Idle}]
  /\ clock \in 0 .. MaxClock
  /\ outbox \subseteq Events
  /\ redeliveries \in 0 .. MaxRedeliveries
  /\ interrupts \in 0 .. MaxInterrupts
  /\ answers \subseteq Events \X Answers

Init ==
  /\ StoreInit
  /\ job = [w \in Writers |-> Idle]
  /\ clock = 0
  /\ outbox = Events
  /\ redeliveries = MaxRedeliveries
  /\ interrupts = MaxInterrupts
  /\ answers = {}

-----------------------------------------------------------------------------
(***************************************************************************)
(* The control of one delivery.                                            *)
(***************************************************************************)
At(w, step) == job[w] # Idle /\ job[w].step = step

Goto(w, step) == job' = [job EXCEPT ![w].step = step]

\* StorageError ends the delivery; its producer gets no answer it knows.
Collide(w) ==
  /\ answers' = answers \cup {<<job[w].event, "collision">>}
  /\ job' = [job EXCEPT ![w] = Idle]

\* Fault: a file that is there is replaced.
WriteOnceOver(w, stored, document, replace, next) ==
  /\ Goto(w, IF stored = document THEN next ELSE replace)
  /\ UNCHANGED answers

(***************************************************************************)
(* _write_once up to its decision: go on to replace the missing file, skip *)
(* one that already holds these bytes, refuse one that holds others.       *)
(***************************************************************************)
WriteOnce(w, stored, document, replace, next) ==
  \/ stored = Absent /\ Goto(w, replace) /\ UNCHANGED answers
  \/ stored = document /\ Goto(w, next) /\ UNCHANGED answers
  \/ stored \notin {Absent, document} /\ Collide(w)

-----------------------------------------------------------------------------
(***************************************************************************)
(* ingest.  The clock and the ledger are read before anything else; the    *)
(* sequence number read here is the one appended at the end.               *)
(***************************************************************************)
\* Fault: the screening sets the disposition and does not stop the delivery.
DeliverUnscreened(w, e, operation) ==
  /\ job[w] = Idle
  /\ e \in outbox
  /\ job' = [job EXCEPT ![w] =
       [step |-> "read_record", event |-> e, operation |-> operation,
        observed_at |-> clock, sequence |-> NextSequence,
        disposition |-> IF e.clean THEN "accepted" ELSE "quarantined",
        index |-> {}, targets |-> {}, target |-> Absent, issued_at |-> 0]]
  /\ UNCHANGED <<storeVars, environment>>

Deliver(w, e, operation) ==
  /\ job[w] = Idle
  /\ \/ e \in outbox /\ UNCHANGED redeliveries
     \/ /\ e \notin outbox
        /\ redeliveries > 0
        /\ redeliveries' = redeliveries - 1
  /\ job' = [job EXCEPT ![w] =
       [step |-> IF e.clean THEN "read_record" ELSE "write_quarantine",
        event |-> e, operation |-> operation,
        observed_at |-> clock, sequence |-> NextSequence,
        disposition |-> IF e.clean THEN "accepted" ELSE "quarantined",
        index |-> {}, targets |-> {}, target |-> Absent, issued_at |-> 0]]
  /\ UNCHANGED <<storeVars, clock, outbox, interrupts, answers>>

\* Faults of ReadRecord: a duplicate keeps the disposition of a new record; an
\* existing record is answered outside the dispositions; the record is looked
\* up in the index; a new record is journalled before it is written.
ReadRecordReadmits(w) ==
  /\ At(w, "read_record")
  /\ Goto(w, IF Stored(RecordId(job[w].event)) THEN "project_learning"
                                              ELSE "write_record")
  /\ UNCHANGED <<storeVars, environment>>

ReadRecordMisnamed(w) ==
  /\ At(w, "read_record")
  /\ IF Stored(RecordId(job[w].event))
       THEN job' = [job EXCEPT ![w].step = "project_learning",
                               ![w].disposition = "collision"]
       ELSE Goto(w, "write_record")
  /\ UNCHANGED <<storeVars, environment>>

ReadRecordByIndex(w) ==
  /\ At(w, "read_record")
  /\ IF RecordId(job[w].event) \in index
       THEN job' = [job EXCEPT ![w].step = "project_learning",
                               ![w].disposition = "duplicate"]
       ELSE Goto(w, "write_record")
  /\ UNCHANGED <<storeVars, environment>>

ReadRecordJournalFirst(w) ==
  /\ At(w, "read_record")
  /\ IF Stored(RecordId(job[w].event))
       THEN job' = [job EXCEPT ![w].step = "project_learning",
                               ![w].disposition = "duplicate"]
       ELSE Goto(w, "append_ledger")
  /\ UNCHANGED <<storeVars, environment>>

ReadRecord(w) ==
  /\ At(w, "read_record")
  /\ LET e == job[w].event
         stored == records[RecordId(e)]
     IN \/ /\ stored = Absent
           /\ Goto(w, "write_record")
        \/ /\ stored # Absent
           /\ stored.content_hash = e.payload
           /\ job' = [job EXCEPT ![w].step = "project_learning",
                                 ![w].disposition = "duplicate"]
        \/ /\ stored # Absent
           /\ stored.content_hash # e.payload
           /\ job' = [job EXCEPT ![w].step = "write_quarantine",
                                 ![w].disposition = "quarantined"]
  /\ UNCHANGED <<storeVars, environment>>

(***************************************************************************)
(* write_record: the record file, then the whole index rewritten with the  *)
(* record's identity added to what was read of it.                         *)
(***************************************************************************)
WriteRecord(w) ==
  /\ At(w, "write_record")
  /\ LET e == job[w].event
     IN WriteOnce(w, records[RecordId(e)], RecordDocument(e),
                  "replace_record", "read_index")
  /\ UNCHANGED <<storeVars, clock, outbox, redeliveries, interrupts>>

ReplaceRecord(w) ==
  /\ At(w, "replace_record")
  /\ LET e == job[w].event
     IN records' = [records EXCEPT ![RecordId(e)] = RecordDocument(e)]
  /\ Goto(w, "read_index")
  /\ UNCHANGED <<index, observations, quarantine, corrections, ledger,
                 terminated, environment>>

ReadIndex(w) ==
  /\ At(w, "read_index")
  /\ IF RecordId(job[w].event) \in index
       THEN Goto(w, "project_learning")
       ELSE job' = [job EXCEPT ![w].step = "replace_index", ![w].index = index]
  /\ UNCHANGED <<storeVars, environment>>

\* Fault: the index rewritten with nothing of what was read of it.
ReplaceIndexAlone(w) ==
  /\ At(w, "replace_index")
  /\ index' = {RecordId(job[w].event)}
  /\ job' = [job EXCEPT ![w].step = "project_learning", ![w].index = {}]
  /\ UNCHANGED <<records, observations, quarantine, corrections, ledger,
                 terminated, environment>>

ReplaceIndex(w) ==
  /\ At(w, "replace_index")
  /\ index' = job[w].index \cup {RecordId(job[w].event)}
  /\ job' = [job EXCEPT ![w].step = "project_learning", ![w].index = {}]
  /\ UNCHANGED <<records, observations, quarantine, corrections, ledger,
                 terminated, environment>>

\* Faults of ProjectLearning: rows are projected for new records only; a
\* duplicate that has its rows is answered and not journalled.
ProjectLearningOnce(w) ==
  /\ At(w, "project_learning")
  /\ Goto(w, IF job[w].disposition = "accepted" /\ job[w].event.rows # Absent
                THEN "write_observations"
                ELSE "append_ledger")
  /\ UNCHANGED <<storeVars, environment>>

ProjectLearningUnjournalled(w) ==
  /\ At(w, "project_learning")
  /\ LET e == job[w].event
     IN Goto(w, IF e.rows # Absent /\ observations[RecordId(e)] = Absent
                  THEN "write_observations"
                  ELSE IF job[w].disposition = "duplicate"
                         THEN "reply" ELSE "append_ledger")
  /\ UNCHANGED <<storeVars, environment>>

(***************************************************************************)
(* _project_learning, for a duplicate too: rows are written when none are  *)
(* stored; a failed projection only adds a limitation to the answer.       *)
(***************************************************************************)
ProjectLearning(w) ==
  /\ At(w, "project_learning")
  /\ LET e == job[w].event
     IN Goto(w, IF e.rows # Absent /\ observations[RecordId(e)] = Absent
                  THEN "write_observations"
                  ELSE "append_ledger")
  /\ UNCHANGED <<storeVars, environment>>

WriteObservations(w) ==
  /\ At(w, "write_observations")
  /\ LET e == job[w].event
     IN WriteOnce(w, observations[RecordId(e)], e.rows,
                  "replace_observations", "append_ledger")
  /\ UNCHANGED <<storeVars, clock, outbox, redeliveries, interrupts>>

ReplaceObservations(w) ==
  /\ At(w, "replace_observations")
  /\ LET e == job[w].event
     IN observations' = [observations EXCEPT ![RecordId(e)] = e.rows]
  /\ Goto(w, "append_ledger")
  /\ UNCHANGED <<records, index, quarantine, corrections, ledger, terminated,
                 environment>>

(***************************************************************************)
(* _quarantine: the quarantine document holds the time of the delivery,    *)
(* its identity does not.  The reason is a function of the event.          *)
(***************************************************************************)
WriteQuarantine(w) ==
  /\ At(w, "write_quarantine")
  /\ WriteOnce(w, quarantine[job[w].event], job[w].observed_at,
               "replace_quarantine", "append_ledger")
  /\ UNCHANGED <<storeVars, clock, outbox, redeliveries, interrupts>>

ReplaceQuarantine(w) ==
  /\ At(w, "replace_quarantine")
  /\ quarantine' = [quarantine EXCEPT ![job[w].event] = job[w].observed_at]
  /\ Goto(w, "append_ledger")
  /\ UNCHANGED <<records, index, observations, corrections, ledger, terminated,
                 environment>>

-----------------------------------------------------------------------------
Entry(w) ==
  [sequence |-> job[w].sequence, event |-> job[w].event,
   disposition |-> job[w].disposition]

\* Faults of AppendLedger: a delivery whose number another one took is left
\* out; a duplicate goes on to correct its predecessors.
AppendLedgerUnlessTaken(w) ==
  /\ At(w, "append_ledger")
  /\ IF job[w].sequence = NextSequence
       THEN AppendLine(Entry(w))
       ELSE UNCHANGED <<ledger, terminated>>
  /\ Goto(w, "reply")
  /\ UNCHANGED <<records, index, observations, quarantine, corrections,
                 environment>>

AppendLedgerCorrectsDuplicates(w) ==
  /\ At(w, "append_ledger")
  /\ AppendLine(Entry(w))
  /\ Goto(w, IF /\ job[w].operation = "ingest_or_correct"
                /\ job[w].disposition # "quarantined"
                /\ IsHistorical(job[w].event)
               THEN "find_claims"
               ELSE "reply")
  /\ UNCHANGED <<records, index, observations, quarantine, corrections,
                 environment>>

AppendLedger(w) ==
  /\ At(w, "append_ledger")
  /\ AppendLine(Entry(w))
  /\ Goto(w, IF /\ job[w].operation = "ingest_or_correct"
                /\ job[w].disposition = "accepted"
                /\ IsHistorical(job[w].event)
               THEN "find_claims"
               ELSE "reply")
  /\ UNCHANGED <<records, index, observations, quarantine, corrections,
                 environment>>

(***************************************************************************)
(* ingest_or_correct, after an historical claim was admitted: one          *)
(* correction for each earlier claim it replaces, all issued at one time.  *)
(* The code corrects them in the order of their file names, here in any.   *)
(***************************************************************************)
FindClaims(w) ==
  /\ At(w, "find_claims")
  /\ job' = [job EXCEPT ![w].step = "find_predecessors",
                        ![w].targets = HistoricalClaims(job[w].event)]
  /\ UNCHANGED <<storeVars, environment>>

\* The corrections are listed after the records; some may be new since.
FindPredecessors(w) ==
  /\ At(w, "find_predecessors")
  /\ job' = [job EXCEPT ![w].step = "write_correction",
                        ![w].targets = {r \in @ : ~Corrected(r)},
                        ![w].issued_at = clock]
  /\ UNCHANGED <<storeVars, environment>>

WriteCorrection(w) ==
  /\ At(w, "write_correction")
  /\ \E t \in job[w].targets :
       LET stored == corrections[<<t, job[w].event.event_id>>]
       IN \/ /\ stored = Absent
             /\ job' = [job EXCEPT ![w].step = "replace_correction",
                                   ![w].target = t]
             /\ UNCHANGED answers
          \/ /\ stored = job[w].issued_at
             /\ job' = [job EXCEPT ![w].targets = @ \ {t}]
             /\ UNCHANGED answers
          \/ /\ stored \notin {Absent, job[w].issued_at}
             /\ Collide(w)
  /\ UNCHANGED <<storeVars, clock, outbox, redeliveries, interrupts>>

ReplaceCorrection(w) ==
  /\ At(w, "replace_correction")
  /\ LET t == job[w].target
     IN /\ corrections' = [corrections EXCEPT
             ![<<t, job[w].event.event_id>>] = job[w].issued_at]
        /\ job' = [job EXCEPT ![w].step = "write_correction",
                              ![w].targets = @ \ {t}, ![w].target = Absent]
  /\ UNCHANGED <<records, index, observations, quarantine, ledger, terminated,
                 environment>>

\* Fault: one correction at most is written.
CorrectionsDoneEarly(w) ==
  /\ At(w, "write_correction")
  /\ Goto(w, "reply")
  /\ UNCHANGED <<storeVars, environment>>

CorrectionsDone(w) ==
  /\ At(w, "write_correction")
  /\ job[w].targets = {}
  /\ Goto(w, "reply")
  /\ UNCHANGED <<storeVars, environment>>

(***************************************************************************)
(* The answer: 201, 409 or 422 of the ingress, or an exit status.  All     *)
(* three settle the delivery for its producer.                             *)
(***************************************************************************)
Reply(w) ==
  /\ At(w, "reply")
  /\ answers' = answers \cup {<<job[w].event, job[w].disposition>>}
  /\ outbox' = outbox \ {job[w].event}
  /\ job' = [job EXCEPT ![w] = Idle]
  /\ UNCHANGED <<storeVars, clock, redeliveries, interrupts>>

-----------------------------------------------------------------------------
(***************************************************************************)
(* An OSError (503 of the ingress), a crash with restart, or a response    *)
(* lost on the way: the delivery ends where it is and stays in the outbox. *)
(* Files are replaced atomically; a ledger append is not atomic.           *)
(***************************************************************************)
Interrupt(w) ==
  /\ job[w] # Idle
  /\ interrupts > 0
  /\ interrupts' = interrupts - 1
  /\ job' = [job EXCEPT ![w] = Idle]
  /\ \/ UNCHANGED <<ledger, terminated>>
     \/ /\ TornAppends
        /\ At(w, "append_ledger")
        /\ AppendPart(Entry(w))
  /\ UNCHANGED <<records, index, observations, quarantine, corrections,
                 clock, outbox, redeliveries, answers>>

Tick ==
  /\ clock < MaxClock
  /\ clock' = clock + 1
  /\ UNCHANGED <<storeVars, job, outbox, redeliveries, interrupts, answers>>

Progress(w) ==
  \/ ReadRecord(w)
  \/ WriteRecord(w)
  \/ ReplaceRecord(w)
  \/ ReadIndex(w)
  \/ ReplaceIndex(w)
  \/ ProjectLearning(w)
  \/ WriteObservations(w)
  \/ ReplaceObservations(w)
  \/ WriteQuarantine(w)
  \/ ReplaceQuarantine(w)
  \/ AppendLedger(w)
  \/ FindClaims(w)
  \/ FindPredecessors(w)
  \/ WriteCorrection(w)
  \/ ReplaceCorrection(w)
  \/ CorrectionsDone(w)
  \/ Reply(w)

Next ==
  \/ \E w \in Writers, e \in Events, operation \in Operations :
       Deliver(w, e, operation)
  \/ \E w \in Writers : Progress(w)
  \/ \E w \in Writers : Interrupt(w)
  \/ Tick

Spec == Init /\ [][Next]_vars

(***************************************************************************)
(* A writer that runs finishes the delivery it is on, and a producer keeps *)
(* redelivering an event it has no answer for until a writer takes it.     *)
(***************************************************************************)
Fairness ==
  /\ \A w \in Writers : WF_vars(Progress(w))
  /\ \A e \in Events :
       SF_vars(\E w \in Writers, operation \in Operations :
                 e \in outbox /\ Deliver(w, e, operation))

FairSpec == Spec /\ Fairness

-----------------------------------------------------------------------------
(***************************************************************************)
(* Safety that holds whatever the number of writers.                       *)
(***************************************************************************)

\* Whatever the store refers to is there: a ledger entry, a set of learning
\* rows and a correction never name a record that has no file, at any point
\* of any delivery and after any interruption (the order of the writes in
\* IngestionService.ingest, and what verify_store looks for).
ReferencesHold ==
  /\ JournalledRecordsStored
  /\ ObservationsOwned
  /\ CorrectionsOwned

\* Nothing the screening refuses reaches the corpus: every record holds what
\* some clean event of its own identity put there, and no unclean event was
\* ever answered as part of the corpus (ADR-INTEL-008).
QuarantineKeepsOut ==
  /\ \A r \in RecordIds : Stored(r) =>
       \E e \in Events : /\ e.clean
                        /\ RecordId(e) = r
                        /\ records[r] = RecordDocument(e)
  /\ \A e \in Events : ~e.clean =>
       {<<e, "accepted">>, <<e, "duplicate">>} \cap answers = {}

\* An answer outlives whatever comes after it: an event answered accepted or
\* duplicate is in the corpus, with its learning rows if it projects any,
\* and a quarantined one is in the quarantine.  (Several writers keep it as
\* long as no two of them admit events of colliding digests at once: the
\* last file replaced wins.)
AnswersStored ==
  \A e \in Events :
    /\ {<<e, "accepted">>, <<e, "duplicate">>} \cap answers # {} =>
         /\ Stored(RecordId(e))
         /\ records[RecordId(e)].content_hash = e.payload
         /\ e.rows # Absent => observations[RecordId(e)] # Absent
    /\ <<e, "quarantined">> \in answers => quarantine[e] # Absent

\* Every answered delivery is in the ledger as what it was answered to be
\* (the duplicate rule of the ingestion contract, ADR-INTEL-006).
AnswersJournalled ==
  \A e \in Events, d \in Dispositions :
    <<e, d>> \in answers =>
      \E i \in DOMAIN ledger : /\ ledger[i] # Torn
                              /\ ledger[i].event = e
                              /\ ledger[i].disposition = d

-----------------------------------------------------------------------------
(***************************************************************************)
(* Safety that rests on there being one writer.                            *)
(***************************************************************************)

\* A record is admitted once: no two deliveries of one identity are both
\* journalled as accepted, however they are redelivered and interrupted.
AcceptedOnce ==
  \A i, j \in DOMAIN ledger :
    /\ ledger[i] # Torn /\ ledger[i].disposition = "accepted"
    /\ ledger[j] # Torn /\ ledger[j].disposition = "accepted"
    /\ RecordId(ledger[i].event) = RecordId(ledger[j].event)
    => i = j

\* The write-once check refuses only redeliveries of quarantined events: no
\* delivery of an event that belongs in the corpus ends in StorageError.
OnlyQuarantineCollides ==
  \A e \in Events : <<e, "collision">> \in answers => quarantine[e] # Absent

\* Corrections never retire every claim of an event: a corrected record has
\* a live one under the event identity its correction names, so that
\* derived_superseded_by has a live record to choose.
ClaimSurvives ==
  \A r \in RecordIds, id \in EventIds :
    corrections[<<r, id>>] # Absent =>
      \E s \in RecordIds : /\ s # r
                          /\ IsLive(s)
                          /\ records[s].source_event_id = id

\* No step overwrites or deletes an object file or a ledger line
\* (ADR-INTEL-005, and the prohibitions of the ingestion contract).
NothingOverwritten ==
  [][/\ \A r \in RecordIds :
          /\ Stored(r) => records'[r] = records[r]
          /\ observations[r] # Absent => observations'[r] = observations[r]
     /\ \A e \in Events : quarantine[e] # Absent => quarantine'[e] = quarantine[e]
     /\ \A c \in CorrectionIds :
          corrections[c] # Absent => corrections'[c] = corrections[c]
     /\ \A i \in DOMAIN ledger : i \in DOMAIN ledger' /\ ledger'[i] = ledger[i]
    ]_vars

-----------------------------------------------------------------------------
(***************************************************************************)
(* What the store looks like between deliveries.                           *)
(***************************************************************************)
Quiet == \A w \in Writers : job[w] = Idle

\* The record of e is its own, and nothing has replaced it.
LiveClaim(e) ==
  records[RecordId(e)] = RecordDocument(e) /\ ~Corrected(RecordId(e))

\* Once every event under an event identity is answered, at most one of its
\* historical claims is live (ingest_or_correct: a replacement corrects the
\* claim it replaces instead of minting a second active record).
OneLiveClaim ==
  Quiet =>
    \A e, f \in Events \ outbox :
      /\ IsHistorical(e) /\ e.stream = f.stream /\ e.event_id = f.event_id
      /\ e.payload # f.payload
      => ~(LiveClaim(e) /\ LiveClaim(f))

\* Until something is interrupted the ledger, the index and the records tell
\* one story between deliveries: each record was accepted once and no other
\* was, and the index lists them.
JournalMatchesCorpus ==
  Quiet /\ interrupts = MaxInterrupts =>
    LET Accepted == {i \in DOMAIN ledger : ledger[i].disposition = "accepted"}
        stored == {r \in RecordIds : Stored(r)}
    IN /\ {RecordId(ledger[i].event) : i \in Accepted} = stored
       /\ Cardinality(Accepted) = Cardinality(stored)
       /\ index = stored

\* A quarantined event can be redelivered: no delivery of it ends in
\* StorageError (ingestion contract: repeated quarantine observations are
\* idempotent).
QuarantineIdempotent ==
  \A e \in Events : ~e.clean => <<e, "collision">> \notin answers

-----------------------------------------------------------------------------
\* Every event that passes the screening is in the end admitted and its
\* producer told so, if it keeps redelivering and interruptions stop.
CleanEventsAdmitted ==
  \A e \in Events : e.clean =>
    <>[](/\ e \notin outbox
         /\ Stored(RecordId(e))
         /\ e.rows # Absent => observations[RecordId(e)] # Absent)

-----------------------------------------------------------------------------
(***************************************************************************)
(* The service keeps its promise: the records are the corpus, the files in *)
(* corrections/ retire claims, the ledger is the journal.                  *)
(***************************************************************************)
Promise == INSTANCE CorpusPromise WITH
  corpus <- records,
  retired <- {c \in CorrectionIds : corrections[c] # Absent},
  journal <- ledger,
  answered <- {a \in answers : a[2] # "collision"}

\* One writer that is interrupted anywhere but inside a ledger append does
\* what CorpusPromise allows and nothing else.
KeepsPromise == Promise!Spec
=============================================================================
