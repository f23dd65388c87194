--------------------------- MODULE CorpusPromise ---------------------------
(***************************************************************************)
(* What the ingestion service promises of the corpus, without its files,   *)
(* writers and steps: a map of records that only grows, a journal that is  *)
(* only appended to and tells the truth about the map, claims retired only *)
(* in favour of a live one, and answers that are in the journal already.   *)
(* (ADR-INTEL-005, ADR-INTEL-006 and the ingestion contract.)              *)
(***************************************************************************)
EXTENDS CorpusEvents

VARIABLES
  corpus,    \* the admitted record documents
  retired,   \* pairs of a record identity and the event identity correcting it
  journal,   \* the deliveries, in order
  answered   \* pairs of an event and a disposition its producer was told

promiseVars == <<corpus, retired, journal, answered>>

Init ==
  /\ corpus = [r \in RecordIds |-> Absent]
  /\ retired = {}
  /\ journal = <<>>
  /\ answered = {}

Journalled(e, disposition) ==
  \E i \in DOMAIN journal :
    journal[i].event = e /\ journal[i].disposition = disposition

Retired(r) == \E id \in EventIds : <<r, id>> \in retired

\* What must be true of the corpus for a delivery to be journalled so.
Justified(e, disposition) ==
  LET document == corpus[RecordId(e)]
  IN CASE disposition = "accepted" ->
            /\ document = RecordDocument(e)
            /\ \A i \in DOMAIN journal :
                 journal[i].disposition = "accepted" =>
                   RecordId(journal[i].event) # RecordId(e)
       [] disposition = "duplicate" ->
            /\ e.clean
            /\ document # Absent
            /\ document.content_hash = e.payload
       [] disposition = "quarantined" ->
            \/ ~e.clean
            \/ document # Absent /\ document.content_hash # e.payload

Admit(e) ==
  /\ e.clean
  /\ corpus[RecordId(e)] = Absent
  /\ corpus' = [corpus EXCEPT ![RecordId(e)] = RecordDocument(e)]
  /\ UNCHANGED <<retired, journal, answered>>

Journal(e, disposition) ==
  /\ Justified(e, disposition)
  /\ journal' = Append(journal, [sequence |-> Len(journal) + 1, event |-> e,
                                 disposition |-> disposition])
  /\ UNCHANGED <<corpus, retired, answered>>

\* Retire the claim under r in favour of the claim of e.
Retire(e, r) ==
  /\ IsHistorical(e)
  /\ Journalled(e, "accepted")
  /\ ~Retired(RecordId(e))
  /\ r # RecordId(e)
  /\ corpus[r] # Absent
  /\ corpus[r].source_event_id = e.event_id
  /\ corpus[r].stream = e.stream
  /\ ~Retired(r)
  /\ retired' = retired \cup {<<r, e.event_id>>}
  /\ UNCHANGED <<corpus, journal, answered>>

Answer(e, disposition) ==
  /\ Journalled(e, disposition)
  /\ answered' = answered \cup {<<e, disposition>>}
  /\ UNCHANGED <<corpus, retired, journal>>

Next ==
  \E e \in Events :
    \/ Admit(e)
    \/ \E disposition \in Dispositions :
         Journal(e, disposition) \/ Answer(e, disposition)
    \/ \E r \in RecordIds : Retire(e, r)

Spec == Init /\ [][Next]_promiseVars
=============================================================================
