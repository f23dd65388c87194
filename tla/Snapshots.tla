----------------------------- MODULE Snapshots -----------------------------
(***************************************************************************)
(* Corpus snapshots (snapshots/builder.py, snapshots/source.py) built from *)
(* a store that writers go on changing: the store is verified, then the    *)
(* claims, the corrections, the list of records and the records are read   *)
(* one after the other, and the result becomes a directory named after     *)
(* what it was made of.                                                    *)
(*                                                                         *)
(* Partitions, Parquet and the manifest are a function of the records read *)
(* and of the supersession read, which therefore stand for them.  The      *)
(* digest of a snapshot is not modelled: a directory is named after the    *)
(* identity document itself.                                               *)
(***************************************************************************)
EXTENDS Ingestion

CONSTANTS
  Builders,   \* processes that may build snapshots of this store
  Rank(_),    \* the order of record identities as strings
  MaxBuilds   \* bound: builds

VARIABLES
  snapshots,  \* snapshot directories: the supersession in each, by identity
  build,      \* what each builder is doing
  builds,     \* builds left
  reports     \* what builds ended with

snapshotVars == <<snapshots, build, builds, reports>>
allVars == <<vars, snapshotVars>>

Greatest(S) == CHOOSE r \in S : \A s \in S : Rank(s) <= Rank(r)

\* What a snapshot holds of a record and its identity digests: the record
\* document and the learning rows.  NotRead stands until the file is opened.
NotRead == [document |-> Absent, rows |-> Absent]

Sources ==
  [document : RecordDocuments \cup {Absent}, rows : RowSets \cup {Absent}]

Identities == UNION {[listed -> Sources] : listed \in SUBSET RecordIds}

Outcomes == {"built", "collision", "refused", "invalid"}

(***************************************************************************)
(* A build: the event identities of the claims, the supersession and the   *)
(* sources read so far.  answered and calm are history: the answers given  *)
(* before the build began, and whether no writer has moved during it.      *)
(***************************************************************************)
Builds ==
  [step : {"verify", "list_claims", "read_corrections", "list_records",
           "read_records", "replace"},
   claims : UNION {[listed -> EventIds] : listed \in SUBSET RecordIds},
   superseded : [RecordIds -> RecordIds \cup {Absent}],
   sources : Identities, unread : SUBSET RecordIds,
   answered : SUBSET (Events \X Answers), calm : BOOLEAN]

ASSUME SnapshotAssumption ==
  /\ Idle \notin Builds
  /\ MaxBuilds \in Nat
  /\ \A S \in (SUBSET RecordIds) \ {{}} :
       \E r \in S : \A s \in S : Rank(s) <= Rank(r)

\* Every variable keeps its type; a snapshot gives a supersession of just the
\* records it is named after.
SnapshotTypeOK ==
  /\ \A id \in DOMAIN snapshots :
       id \in Identities /\ snapshots[id] \in [DOMAIN id -> RecordIds \cup {Absent}]
  /\ build \in [Builders -> Builds \cup {Idle}]
  /\ builds \in 0 .. MaxBuilds
  /\ \A report \in reports : report.outcome \in Outcomes

\* Nothing read, nothing built.
Nothing == [r \in {} |-> Absent]

SnapshotInit ==
  /\ Init
  /\ snapshots = Nothing
  /\ build = [b \in Builders |-> Idle]
  /\ builds = MaxBuilds
  /\ reports = {}

-----------------------------------------------------------------------------
Building(b, step) == build[b] # Idle /\ build[b].step = step

\* Fault: the supersession of records that are not in the partitions too.
ViewOfStore(b) == build[b].superseded

\* The supersession that goes into the partitions: of the records in them.
View(b) ==
  [r \in DOMAIN build[b].sources |-> build[b].superseded[r]]

Finish(b, outcome) ==
  /\ reports' = reports \cup
       {[outcome |-> outcome, id |-> build[b].sources, view |-> View(b),
         answered |-> build[b].answered]}
  /\ build' = [build EXCEPT ![b] = Idle]

StartBuild(b) ==
  /\ build[b] = Idle
  /\ builds > 0
  /\ builds' = builds - 1
  /\ build' = [build EXCEPT ![b] =
       [step |-> "verify", claims |-> Nothing,
        superseded |-> [r \in RecordIds |-> Absent], sources |-> Nothing,
        unread |-> {}, answered |-> answers, calm |-> Quiet]]
  /\ UNCHANGED <<snapshots, reports>>

(***************************************************************************)
(* verify_store, in one step: it reads the ledger first and looks up files *)
(* that are never removed, so it accepts whatever it would have accepted   *)
(* at the moment it read the ledger.                                       *)
(***************************************************************************)
VerifyStore(b) ==
  /\ Building(b, "verify")
  /\ IF StoreVerifies
       THEN /\ build' = [build EXCEPT ![b].step = "list_claims"]
            /\ UNCHANGED reports
       ELSE Finish(b, "invalid")
  /\ UNCHANGED <<snapshots, builds>>

-----------------------------------------------------------------------------
(***************************************************************************)
(* derived_superseded_by.                                                  *)
(***************************************************************************)
ListClaims(b) ==
  /\ Building(b, "list_claims")
  /\ build' = [build EXCEPT
       ![b].step = "read_corrections",
       ![b].claims = [r \in {s \in RecordIds : Stored(s)} |->
                        records[r].source_event_id]]
  /\ UNCHANGED <<snapshots, builds, reports>>

\* Fault: the record itself is a candidate, and so is one that is corrected.
SupersederOrItself(claims, targets, r, event_id) ==
  LET candidates == {s \in DOMAIN claims : claims[s] = event_id}
  IN IF candidates = {} THEN Absent ELSE Greatest(candidates)

\* The claim a correction of r under event_id makes current: the greatest
\* live one, or the greatest at all, of the claims read.
Superseder(claims, targets, r, event_id) ==
  LET candidates == {s \in DOMAIN claims : s # r /\ claims[s] = event_id}
      live == candidates \ targets
  IN IF candidates = {} THEN Absent
                        ELSE Greatest(IF live # {} THEN live ELSE candidates)

\* The event identity a corrected record is corrected under: the service
\* corrects a record under no other identity than its own.
ReplacementEvent(r) == CHOOSE id \in EventIds : corrections[<<r, id>>] # Absent

ReadCorrections(b) ==
  /\ Building(b, "read_corrections")
  /\ LET targets == {r \in RecordIds : Corrected(r)}
     IN build' = [build EXCEPT
          ![b].step = "list_records",
          ![b].superseded = [r \in RecordIds |->
             IF r \in targets
               THEN Superseder(build[b].claims, targets, r, ReplacementEvent(r))
               ELSE Absent]]
  /\ UNCHANGED <<snapshots, builds, reports>>

-----------------------------------------------------------------------------
(***************************************************************************)
(* The rest of load_verified_records: the names of the record files, then  *)
(* each record and its learning rows.                                      *)
(***************************************************************************)
\* Fault: the names are taken from the index.
ListIndexedRecords(b) ==
  /\ Building(b, "list_records")
  /\ build' = [build EXCEPT ![b].step = "read_records",
                            ![b].sources = [r \in index |-> NotRead],
                            ![b].unread = index]
  /\ UNCHANGED <<snapshots, builds, reports>>

ListRecords(b) ==
  /\ Building(b, "list_records")
  /\ LET listed == {r \in RecordIds : Stored(r)}
     IN build' = [build EXCEPT ![b].step = "read_records",
                               ![b].sources = [r \in listed |-> NotRead],
                               ![b].unread = listed]
  /\ UNCHANGED <<snapshots, builds, reports>>

\* The code opens them in the order of their names, here in any.
ReadRecordAndRows(b) ==
  /\ Building(b, "read_records")
  /\ \E r \in build[b].unread :
       build' = [build EXCEPT
         ![b].sources[r] = [document |-> records[r], rows |-> observations[r]],
         ![b].unread = @ \ {r}]
  /\ UNCHANGED <<snapshots, builds, reports>>

-----------------------------------------------------------------------------
(***************************************************************************)
(* build_snapshot, once the temporary directory is complete.               *)
(***************************************************************************)
CheckDestination(b) ==
  /\ Building(b, "read_records")
  /\ build[b].unread = {}
  /\ LET id == build[b].sources
     IN \/ /\ id \notin DOMAIN snapshots
           /\ build' = [build EXCEPT ![b].step = "replace"]
           /\ UNCHANGED reports
        \/ /\ id \in DOMAIN snapshots
           /\ Finish(b, IF snapshots[id] = View(b) THEN "built"
                                                  ELSE "collision")
  /\ UNCHANGED <<snapshots, builds>>

\* Faults of ReplaceDirectory: losing the race is taken for success; the
\* directory of the winner is replaced.
ReplaceDirectoryIfMissing(b) ==
  /\ Building(b, "replace")
  /\ LET id == build[b].sources
     IN IF id \in DOMAIN snapshots
          THEN UNCHANGED snapshots
          ELSE snapshots' = [i \in DOMAIN snapshots \cup {id} |->
                               IF i = id THEN View(b) ELSE snapshots[i]]
  /\ Finish(b, "built")
  /\ UNCHANGED builds

ReplaceDirectoryOver(b) ==
  /\ Building(b, "replace")
  /\ LET id == build[b].sources
     IN snapshots' = [i \in DOMAIN snapshots \cup {id} |->
                        IF i = id THEN View(b) ELSE snapshots[i]]
  /\ Finish(b, "built")
  /\ UNCHANGED builds

\* os.replace of a directory over one that is there fails.
ReplaceDirectory(b) ==
  /\ Building(b, "replace")
  /\ LET id == build[b].sources
     IN IF id \in DOMAIN snapshots
          THEN /\ Finish(b, "refused")
               /\ UNCHANGED snapshots
          ELSE /\ snapshots' = [i \in DOMAIN snapshots \cup {id} |->
                                  IF i = id THEN View(b) ELSE snapshots[i]]
               /\ Finish(b, "built")
  /\ UNCHANGED builds

\* A crash or a storage failure; what is in the temporary directory is lost.
AbandonBuild(b) ==
  /\ build[b] # Idle
  /\ build' = [build EXCEPT ![b] = Idle]
  /\ UNCHANGED <<snapshots, builds, reports>>

BuildStep(b) ==
  \/ StartBuild(b)
  \/ VerifyStore(b)
  \/ ListClaims(b)
  \/ ReadCorrections(b)
  \/ ListRecords(b)
  \/ ReadRecordAndRows(b)
  \/ CheckDestination(b)
  \/ ReplaceDirectory(b)
  \/ AbandonBuild(b)

\* A step of the service during a build, which the build does not see.
ServiceStep ==
  /\ Next
  /\ build' = [b \in Builders |->
                 IF build[b] = Idle THEN Idle
                                    ELSE [build[b] EXCEPT !.calm = FALSE]]
  /\ UNCHANGED <<snapshots, builds, reports>>

SnapshotNext ==
  \/ ServiceStep
  \/ (\E b \in Builders : BuildStep(b)) /\ UNCHANGED vars

SnapshotSpec == SnapshotInit /\ [][SnapshotNext]_allVars

-----------------------------------------------------------------------------
\* No step changes or removes a snapshot (ADR-INTEL-009, and the first rule
\* of immutability of the snapshot contract).
SnapshotsImmutable ==
  [][\A id \in DOMAIN snapshots :
       id \in DOMAIN snapshots' /\ snapshots'[id] = snapshots[id]]_allVars

\* A build that reports success has its own content under the identity it
\* reports, whoever put it there, and it stays there.
BuildsTruthful ==
  \A report \in reports :
    report.outcome = "built" =>
      /\ report.id \in DOMAIN snapshots
      /\ snapshots[report.id] = report.view

Confirmed(e, told) == {<<e, "accepted">>, <<e, "duplicate">>} \cap told # {}

Includes(id, e) ==
  LET r == RecordId(e)
  IN /\ r \in DOMAIN id
     /\ id[r].document # Absent
     /\ id[r].document.content_hash = e.payload
     /\ e.rows # Absent => id[r].rows # Absent

\* A snapshot misses nothing that was answered before its build began, not
\* even learning rows that a redelivery supplied after an interruption.
AnsweredIncluded ==
  \A report \in reports, e \in Events :
    report.outcome = "built" /\ Confirmed(e, report.answered) =>
      Includes(report.id, e)

\* A superseded record of a snapshot is superseded by another record of the
\* same snapshot and the same event, however the build raced the service.
SupersessionClosed ==
  \A id \in DOMAIN snapshots : \A r \in DOMAIN id :
    LET s == snapshots[id][r]
    IN s # Absent =>
         /\ s # r
         /\ s \in DOMAIN id
         /\ {id[r].document, id[s].document} \subseteq RecordDocuments
         /\ id[s].document.source_event_id = id[r].document.source_event_id

\* A build no writer disturbed shows the current claims: it supersedes all
\* corrected records and no others, each by a record that is not superseded.
CalmSupersession ==
  \A b \in Builders :
    /\ build[b] # Idle /\ build[b].calm
    /\ build[b].step \in {"read_records", "replace"}
    => \A r \in DOMAIN build[b].sources :
         LET s == build[b].superseded[r]
         IN /\ Corrected(r) <=> s # Absent
            /\ s # Absent => build[b].superseded[s] = Absent

\* A correction makes another snapshot: no build is refused because one with
\* its identity and another content is there.
CorrectionsMakeSnapshots ==
  \A report \in reports : report.outcome # "collision"

\* The view a snapshot gives is a current one: no two records of an event
\* supersede each other, leaving neither the claim it has been replaced by
\* (derived_superseded_by: "reconstruct the current view").
SupersessionResolves ==
  \A id \in DOMAIN snapshots : \A r \in DOMAIN id :
    LET s == snapshots[id][r] IN s # Absent => snapshots[id][s] # r

-----------------------------------------------------------------------------
(***************************************************************************)
(* The inductive invariant of builds over the store of a single writer.    *)
(***************************************************************************)
SourceSteps == {"read_records", "replace"}

\* A record is corrected under its own event identity.
CorrectedAsItself ==
  \A r \in RecordIds, id \in EventIds :
    corrections[<<r, id>>] # Absent =>
      Stored(r) /\ records[r].source_event_id = id

ClaimsTrue(j) ==
  \A r \in DOMAIN j.claims :
    Stored(r) /\ j.claims[r] = records[r].source_event_id

SupersessionTrue(j) ==
  \A r \in RecordIds :
    LET s == j.superseded[r]
    IN s # Absent =>
         /\ s # r
         /\ Stored(r) /\ Stored(s)
         /\ records[s].source_event_id = records[r].source_event_id
         /\ j.step \in SourceSteps => s \in DOMAIN j.sources

SourcesTrue(j) ==
  /\ j.unread \subseteq DOMAIN j.sources
  /\ \A r \in DOMAIN j.sources :
       Stored(r) /\ (r \notin j.unread => j.sources[r].document = records[r])
  /\ j.step = "replace" => j.unread = {}

\* What was answered before a build is listed, and then read.
AnswersKept(j) ==
  /\ j.answered \subseteq answers
  /\ j.step \in SourceSteps =>
       \A e \in Events : Confirmed(e, j.answered) =>
         /\ RecordId(e) \in DOMAIN j.sources
         /\ RecordId(e) \notin j.unread => Includes(j.sources, e)

BuildTrue(j) ==
  /\ ClaimsTrue(j)
  /\ SupersessionTrue(j)
  /\ SourcesTrue(j)
  /\ AnswersKept(j)

\* A build knows what it read, which stays true, and so a snapshot is sound
\* whatever the service did while it was built.
SnapshotInv ==
  /\ SnapshotTypeOK
  /\ CorrectedAsItself
  /\ \A b \in Builders : build[b] # Idle => BuildTrue(build[b])
  /\ BuildsTruthful
  /\ AnsweredIncluded
  /\ SupersessionClosed


\* What a build knows as long as no writer has moved during it: all claims,
\* and how each corrected one was replaced.
CalmKnows(j) ==
  /\ j.step \in {"read_corrections", "list_records"} \cup SourceSteps =>
       /\ DOMAIN j.claims = {r \in RecordIds : Stored(r)}
       /\ \A r \in DOMAIN j.claims : j.claims[r] = records[r].source_event_id
  /\ j.step \in {"list_records"} \cup SourceSteps =>
       \A r \in RecordIds :
         LET s == j.superseded[r]
         IN /\ Corrected(r) <=> s # Absent
            /\ s # Absent => j.superseded[s] = Absent

\* A calm build knows the store as it is.
CalmInv ==
  \A b \in Builders : build[b] # Idle /\ build[b].calm => CalmKnows(build[b])
=============================================================================
