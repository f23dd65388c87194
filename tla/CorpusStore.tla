---------------------------- MODULE CorpusStore ----------------------------
(***************************************************************************)
(* The filesystem corpus store of ingestion/storage.py: what is on disk,   *)
(* how an object file and a ledger line get there, and what                *)
(* ingestion/verify.py and ingestion/corrections.py read off them.         *)
(*                                                                         *)
(* A directory of write-once JSON files is a function from identities to   *)
(* documents, Absent where there is no file.  A document is the part of    *)
(* it that tells two documents of one identity apart.                      *)
(***************************************************************************)
EXTENDS CorpusEvents

CONSTANT Torn  \* a ledger line that does not parse

ASSUME TornIsNoEntry == Torn \notin LedgerEntries

VARIABLES
  records,       \* records/cr_*.json, by record identity
  index,         \* indexes/record-ids.txt
  observations,  \* observations/cr_*.json, by the identity of the record
  quarantine,    \* quarantine/qr_*.json: the observed_at it holds, by event
  corrections,   \* corrections/cc_*.json: the issued_at it holds
  ledger,        \* the lines of ledger/events.jsonl
  terminated     \* the last ledger line ends in a newline

storeVars ==
  <<records, index, observations, quarantine, corrections, ledger, terminated>>

StoreTypeOK ==
  /\ records \in [RecordIds -> RecordDocuments \cup {Absent}]
  /\ index \subseteq RecordIds
  /\ observations \in [RecordIds -> RowSets \cup {Absent}]
  /\ quarantine \in [Events -> Nat \cup {Absent}]
  /\ corrections \in [CorrectionIds -> Nat \cup {Absent}]
  /\ ledger \in Seq(LedgerEntries \cup {Torn})
  /\ terminated \in BOOLEAN

\* initialize(): empty directories, an empty index and an empty ledger.
StoreInit ==
  /\ records = [r \in RecordIds |-> Absent]
  /\ index = {}
  /\ observations = [r \in RecordIds |-> Absent]
  /\ quarantine = [e \in Events |-> Absent]
  /\ corrections = [c \in CorrectionIds |-> Absent]
  /\ ledger = <<>>
  /\ terminated = TRUE

-----------------------------------------------------------------------------
(***************************************************************************)
(* The ledger.  next_sequence counts lines, it does not read them; an      *)
(* append puts bytes at the end of the file, whatever the file ends in, so *)
(* a line appended to an unterminated one becomes part of it.              *)
(***************************************************************************)
NextSequenceUncounted == Len(ledger)  \* fault: the line to come not counted

NextSequence == Len(ledger) + 1

Extend(line) ==
  ledger' = IF terminated THEN Append(ledger, line)
                          ELSE [ledger EXCEPT ![Len(ledger)] = Torn]

AppendLine(line) ==
  /\ Extend(line)
  /\ terminated' = TRUE

\* The write is cut short: before the line parses, or before its newline.
AppendPart(line) ==
  /\ \E part \in {line, Torn} : Extend(part)
  /\ terminated' = FALSE

-----------------------------------------------------------------------------
(***************************************************************************)
(* Corrections and the view they give of the corpus.                       *)
(***************************************************************************)
Stored(r) == records[r] # Absent

Corrected(r) == \E id \in EventIds : corrections[<<r, id>>] # Absent

IsLive(r) == Stored(r) /\ ~Corrected(r)

\* Fault: a claim counted among the claims it replaces.
HistoricalClaimsAndSelf(e) ==
  {r \in RecordIds :
     /\ Stored(r)
     /\ records[r].source_event_id = e.event_id
     /\ records[r].stream = e.stream}

\* The other claims under the event identity of e, corrected or not.
HistoricalClaims(e) ==
  {r \in RecordIds :
     /\ Stored(r)
     /\ r # RecordId(e)
     /\ records[r].source_event_id = e.event_id
     /\ records[r].stream = e.stream
     /\ records[r].content_hash # e.payload}

-----------------------------------------------------------------------------
(***************************************************************************)
(* verify_store: what must hold of a store before a snapshot reads it.     *)
(***************************************************************************)
LedgerParses == \A i \in DOMAIN ledger : ledger[i] # Torn

LedgerNumbered ==
  \A i \in DOMAIN ledger : ledger[i] # Torn => ledger[i].sequence = i

JournalledRecordsStored ==
  \A i \in DOMAIN ledger :
    ledger[i] # Torn /\ NamesRecord(ledger[i]) =>
      Stored(RecordId(ledger[i].event))

ObservationsOwned == \A r \in RecordIds : observations[r] # Absent => Stored(r)

CorrectionsOwned == \A r \in RecordIds : Corrected(r) => Stored(r)

StoreVerifies ==
  /\ LedgerParses
  /\ LedgerNumbered
  /\ JournalledRecordsStored
  /\ ObservationsOwned
  /\ CorrectionsOwned
=============================================================================
