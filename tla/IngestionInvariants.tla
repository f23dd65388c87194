------------------------ MODULE IngestionInvariants ------------------------
(***************************************************************************)
(* Inductive invariants of the ingestion service: what a delivery relies   *)
(* on at each of its steps, which is what makes the properties of          *)
(* Ingestion hold from one step to the next.                               *)
(***************************************************************************)
EXTENDS Ingestion

(***************************************************************************)
(* Any number of writers: the types of what a step writes.                 *)
(***************************************************************************)
JobTyped(j) ==
  /\ j \in Jobs \cup {Idle}
  /\ j # Idle =>
       /\ j.step \in {"write_observations", "replace_observations"} =>
            j.event.rows # Absent
       /\ j.step = "replace_correction" => j.target # Absent

JobsTyped == job \in [Writers -> Jobs \cup {Idle}] /\ \A w \in Writers : JobTyped(job[w])

TypeInv ==
  /\ TypeOK
  /\ JobsTyped
  /\ ~terminated => ledger # <<>>

-----------------------------------------------------------------------------
(***************************************************************************)
(* Any number of writers: whose files there are.                           *)
(***************************************************************************)
Admitted == {r \in RecordIds : Stored(r)}

\* The steps of a delivery that is not quarantined, up to its ledger entry.
AdmissionSteps ==
  {"read_record", "write_record", "replace_record", "read_index",
   "replace_index", "project_learning", "write_observations",
   "replace_observations"}

RecordSteps == {"read_record", "write_record", "replace_record"}

\* What a delivery relies on when the records in S are there.
JobOwned(j, S) ==
  /\ j.disposition # "quarantined" => j.event.clean
  /\ j.step \in AdmissionSteps => j.disposition # "quarantined"
  /\ j.disposition # "quarantined" /\ j.step \notin RecordSteps =>
       RecordId(j.event) \in S
  /\ j.targets \subseteq S
  /\ j.target # Absent => j.target \in S

JobsOwned == \A w \in Writers : job[w] # Idle => JobOwned(job[w], Admitted)

OwnInv ==
  /\ TypeInv
  /\ JobsOwned
  /\ ReferencesHold
  /\ QuarantineKeepsOut

-----------------------------------------------------------------------------
(***************************************************************************)
(* Any number of writers: what a delivery has left behind when it answers. *)
(***************************************************************************)
QuarantineSteps == {"write_quarantine", "replace_quarantine"}

CorrectionSteps ==
  {"find_claims", "find_predecessors", "write_correction", "replace_correction"}

AfterEntrySteps == CorrectionSteps \cup {"reply"}

\* Two events of one record identity have one payload: no digests collide.
DigestsDiffer ==
  \A d, e \in Events : RecordId(d) = RecordId(e) => d.payload = e.payload

Projected == {r \in RecordIds : observations[r] # Absent}

Quarantined == {e \in Events : quarantine[e] # Absent}

\* What the lines of the ledger say that parse.
Journal ==
  {<<ledger[i].event, ledger[i].disposition>> : i \in {k \in DOMAIN ledger : ledger[k] # Torn}}

\* What a delivery has filed once nothing but its ledger entry is left: its
\* learning rows are in P or its quarantine document is in Q.
JobFiled(j, P, Q) ==
  /\ j.step \in QuarantineSteps => j.disposition = "quarantined"
  /\ j.step \in AfterEntrySteps \cup {"append_ledger"} =>
       /\ j.disposition = "quarantined" => j.event \in Q
       /\ j.disposition # "quarantined" /\ j.event.rows # Absent =>
            RecordId(j.event) \in P

\* And once it is journalled: its ledger entry is in S.
JobJournalled(j, S) ==
  j.step \in AfterEntrySteps => <<j.event, j.disposition>> \in S

JobsFiled ==
  \A w \in Writers : job[w] # Idle => JobFiled(job[w], Projected, Quarantined)

JobsJournalled ==
  \A w \in Writers : job[w] # Idle => JobJournalled(job[w], Journal)

\* Without collisions: an answer finds everything in its place.
FiledInv ==
  /\ OwnInv
  /\ JobsFiled
  /\ AnswersStored

\* With ledger appends that are whole or not made: an answer finds its line.
JournalInv ==
  /\ TypeInv
  /\ terminated
  /\ JobsJournalled
  /\ AnswersJournalled

-----------------------------------------------------------------------------
(***************************************************************************)
(* One writer, whose ledger appends are whole or not made: nothing it read *)
(* changes before it uses it.                                              *)
(***************************************************************************)
AcceptedLine(r) ==
  \E i \in DOMAIN ledger : /\ ledger[i] # Torn
                          /\ ledger[i].disposition = "accepted"
                          /\ RecordId(ledger[i].event) = r

JournalledAs(e, disposition) ==
  \E i \in DOMAIN ledger : /\ ledger[i] # Torn
                          /\ ledger[i].event = e
                          /\ ledger[i].disposition = disposition

\* What the delivery knows of the ledger.
SoloJournal(j) ==
  /\ j.step \notin AfterEntrySteps => j.sequence = NextSequence
  /\ j.step \in AfterEntrySteps => JournalledAs(j.event, j.disposition)
  /\ j.disposition = "accepted" /\ j.step \notin AfterEntrySteps \cup {"read_record"} =>
       ~AcceptedLine(RecordId(j.event))

\* What it knows of the record it admits, duplicates or is refused for.
SoloRecord(j) ==
  LET e == j.event
      r == RecordId(e)
  IN /\ j.step \in RecordSteps => j.disposition = "accepted"
     /\ j.step \in QuarantineSteps => j.disposition = "quarantined"
     /\ j.step \in {"write_record", "replace_record"} => ~Stored(r)
     /\ j.disposition = "accepted" /\ j.step \notin RecordSteps =>
          records[r] = RecordDocument(e) /\ ~Corrected(r)
     /\ j.disposition = "duplicate" =>
          Stored(r) /\ records[r].content_hash = e.payload
     /\ j.disposition = "quarantined" =>
          ~e.clean \/ (Stored(r) /\ records[r].content_hash # e.payload)

\* What it knows of the other files it writes.
SoloFiles(j) ==
  LET e == j.event
      r == RecordId(e)
  IN /\ j.step \in {"write_observations", "replace_observations"} =>
          observations[r] = Absent
     /\ /\ j.step \in AfterEntrySteps \cup {"append_ledger"}
        /\ j.disposition # "quarantined"
        /\ e.rows # Absent
        => observations[r] # Absent
     /\ j.step = "replace_quarantine" => quarantine[e] = Absent
     /\ /\ j.step \in AfterEntrySteps \cup {"append_ledger"}
        /\ j.disposition = "quarantined"
        => quarantine[e] # Absent

\* What it knows of the claims it corrects.
SoloTargets(j) ==
  /\ j.step \in CorrectionSteps => j.disposition = "accepted" /\ IsHistorical(j.event)
  /\ j.targets \subseteq HistoricalClaims(j.event)
  /\ j.step \in {"write_correction", "replace_correction"} =>
       \A t \in j.targets : ~Corrected(t)
  /\ j.step = "replace_correction" => j.target \in j.targets

SoloJob(j) ==
  /\ SoloJournal(j)
  /\ SoloRecord(j)
  /\ SoloFiles(j)
  /\ SoloTargets(j)

\* A single writer owns the store: what each step of a delivery read of it is
\* still true when a later step relies on it (the single-writer transaction
\* http_ingress.py describes), and every safety property of it follows.
SoloInv ==
  /\ OwnInv
  /\ \A w \in Writers : job[w] # Idle => SoloJob(job[w])
  /\ terminated
  /\ LedgerParses
  /\ LedgerNumbered
  /\ AcceptedOnce
  /\ ClaimSurvives
  /\ AnswersStored
  /\ OnlyQuarantineCollides
-----------------------------------------------------------------------------
(***************************************************************************)
(* One writer, before anything is interrupted: what is still owed to the   *)
(* ledger, the index and the claims of an event is what the delivery under *)
(* way is about to do.                                                     *)
(***************************************************************************)

\* The delivery has written the record file of r, and not its ledger line.
Journals(j, r) ==
  /\ j.disposition = "accepted"
  /\ j.step \notin RecordSteps \cup AfterEntrySteps
  /\ RecordId(j.event) = r

\* The delivery has written the record file of r, and not its index entry.
Indexes(j, r) ==
  /\ j.step \in {"read_index", "replace_index"}
  /\ RecordId(j.event) = r

\* The delivery has written the record file of r, and is to correct s.
Replaces(j, r, s) ==
  /\ j.disposition = "accepted"
  /\ j.step \notin RecordSteps \cup {"reply"}
  /\ RecordId(j.event) = r
  /\ j.step \in CorrectionSteps \ {"find_claims"} => s \in j.targets

\* Live claims of one historical event that say different things.
Rivals(r, s) ==
  /\ IsLive(r) /\ IsLive(s)
  /\ records[r].stream \in HistoricalStreams
  /\ records[r].stream = records[s].stream
  /\ records[r].source_event_id = records[s].source_event_id
  /\ records[r].content_hash # records[s].content_hash

RecordsJournalled ==
  \A r \in RecordIds : Stored(r) =>
    AcceptedLine(r) \/ \E w \in Writers : job[w] # Idle /\ Journals(job[w], r)

RecordsIndexed ==
  /\ index \subseteq Admitted
  /\ \A w \in Writers :
       job[w] # Idle /\ job[w].step = "replace_index" => job[w].index = index
  /\ \A r \in RecordIds : Stored(r) =>
       r \in index \/ \E w \in Writers : job[w] # Idle /\ Indexes(job[w], r)

ClaimsReplaced ==
  /\ \A w \in Writers : job[w] # Idle => job[w].operation = "ingest_or_correct"
  /\ \A r, s \in RecordIds : Rivals(r, s) =>
       \E w \in Writers :
         /\ job[w] # Idle
         /\ Replaces(job[w], r, s) \/ Replaces(job[w], s, r)

\* Nothing is left undone but by an interruption.
UninterruptedInv ==
  interrupts = MaxInterrupts =>
    /\ RecordsJournalled
    /\ RecordsIndexed
    /\ "ingest" \notin Operations => ClaimsReplaced
=============================================================================
