---------------------------- MODULE CorpusEvents ---------------------------
(***************************************************************************)
(* Corpus events and the identities ingestion/identity.py derives from     *)
(* them.                                                                   *)
(***************************************************************************)
EXTENDS Naturals, Sequences, FiniteSets

CONSTANTS
  Events,             \* the corpus events a producer may deliver
  Digest(_),          \* SHA-256 over canonical JSON; not assumed injective
  HistoricalStreams,  \* streams of contract l9.historical-resolution-event/v1
  Absent              \* no such file

(***************************************************************************)
(* An event is a record                                                    *)
(*   event_id   identity the producer gives it                             *)
(*   stream     producer, producer contract and event class, which the     *)
(*              code only ever compares together                           *)
(*   run        snapshot_or_run_id                                         *)
(*   payload    the normalized payload, standing for its own hash          *)
(*   envelope   redaction status and limitations                           *)
(*   rows       the learning rows projected from it, Absent if projection  *)
(*              fails                                                      *)
(*   clean      it passes normalization, validation and redaction          *)
(***************************************************************************)
RecordId(e) == Digest(<<e.stream, e.run, e.payload>>)

RecordDocument(e) ==
  [source_event_id |-> e.event_id, stream |-> e.stream,
   content_hash |-> e.payload, envelope |-> e.envelope]

IsHistorical(e) == e.stream \in HistoricalStreams

RecordIds == {RecordId(e) : e \in Events}
EventIds == {e.event_id : e \in Events}
RecordDocuments == {RecordDocument(e) : e \in Events}
RowSets == {e.rows : e \in Events} \ {Absent}

\* A correction's identity also digests its reason, which has one value.
CorrectionIds == RecordIds \X EventIds

\* No file content is mistaken for a missing file.
ASSUME AbsentIsNoDocument ==
  /\ Absent \notin RecordDocuments
  /\ Absent \notin Nat
  /\ Absent \notin RecordIds

Dispositions == {"accepted", "duplicate", "quarantined"}

\* A line of the ledger, less its time and the fields its event determines.
LedgerEntries ==
  [sequence : Nat, event : Events, disposition : Dispositions]

\* The line puts a record identity into the ledger.
NamesRecord(line) == line.disposition # "quarantined"
=============================================================================
