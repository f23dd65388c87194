--------------------------- MODULE SnapshotProofs ---------------------------
(***************************************************************************)
(* Snapshots of a store that one writer goes on changing: what a build has *)
(* read stays true, because the service only adds to the store, and so     *)
(* what it publishes is sound.                                             *)
(***************************************************************************)
EXTENDS Snapshots, SoloProofs

\* Building a snapshot changes nothing the service sees: whatever is proved
\* of the service holds while snapshots are built from its store.
LEMMA ServiceUndisturbed == SnapshotSpec => Spec
<1>1. SnapshotInit => Init
  BY DEF SnapshotInit
<1>2. [SnapshotNext]_allVars => [Next]_vars
  BY DEF SnapshotNext, ServiceStep, allVars
<1> QED BY <1>1, <1>2, PTL DEF SnapshotSpec, Spec

\* No step of a builder or of the service changes or removes a snapshot,
\* with any number of builders and writers.
LEMMA SnapshotsStay ==
  ASSUME [SnapshotNext]_allVars, NEW id \in DOMAIN snapshots
  PROVE  id \in DOMAIN snapshots' /\ snapshots'[id] = snapshots[id]
<1>1. CASE UNCHANGED snapshots
  BY <1>1
<1>2. ASSUME NEW b \in Builders, ReplaceDirectory(b)
      PROVE  id \in DOMAIN snapshots' /\ snapshots'[id] = snapshots[id]
  BY <1>2 DEF ReplaceDirectory
<1>3. \/ UNCHANGED snapshots
      \/ \E b \in Builders : ReplaceDirectory(b)
  BY DEF SnapshotNext, ServiceStep, BuildStep, StartBuild, VerifyStore,
         ListClaims, ReadCorrections, ListRecords, ReadRecordAndRows,
         CheckDestination, AbandonBuild, allVars, snapshotVars
<1> QED BY <1>1, <1>2, <1>3

\* What is under a snapshot identity stays there.
THEOREM SnapshotsNeverChange == SnapshotSpec => SnapshotsImmutable
<1> DEFINE Kept1 == \A id \in DOMAIN snapshots :
              id \in DOMAIN snapshots' /\ snapshots'[id] = snapshots[id]
<1>1. [SnapshotNext]_allVars => [Kept1]_allVars
  BY SnapshotsStay
<1> QED BY <1>1, PTL DEF SnapshotSpec, SnapshotsImmutable

-----------------------------------------------------------------------------
(***************************************************************************)
(* Operators.                                                              *)
(***************************************************************************)

\* A nonempty set of record identities has its greatest one in it.
LEMMA GreatestIn ==
  ASSUME NEW S \in SUBSET RecordIds, S # {}
  PROVE  Greatest(S) \in S
BY SnapshotAssumption DEF Greatest

\* A record is superseded by another claim read of the same event.
LEMMA SupersederSound ==
  ASSUME NEW claims, DOMAIN claims \subseteq RecordIds,
         NEW targets, NEW r, NEW event_id,
         Superseder(claims, targets, r, event_id) # Absent
  PROVE  /\ Superseder(claims, targets, r, event_id) \in DOMAIN claims
         /\ Superseder(claims, targets, r, event_id) # r
         /\ claims[Superseder(claims, targets, r, event_id)] = event_id
<1> DEFINE candidates == {s \in DOMAIN claims : s # r /\ claims[s] = event_id}
           live == candidates \ targets
           chosen == IF live # {} THEN live ELSE candidates
<1>1. candidates # {}
  BY DEF Superseder
<1>2. Superseder(claims, targets, r, event_id) = Greatest(chosen)
  BY <1>1 DEF Superseder
<1>3. chosen \in SUBSET RecordIds /\ chosen # {} /\ chosen \subseteq candidates
  BY <1>1
<1> HIDE DEF chosen
<1>4. Greatest(chosen) \in candidates
  BY <1>3, GreatestIn
<1> QED BY <1>2, <1>4

\* The parts of a build are functions on sets of record identities.
LEMMA BuildTyped ==
  ASSUME NEW j \in Builds
  PROVE  /\ DOMAIN j.claims \subseteq RecordIds
         /\ DOMAIN j.sources \subseteq RecordIds
         /\ j.sources \in [DOMAIN j.sources -> Sources]
         /\ j.superseded \in [RecordIds -> RecordIds \cup {Absent}]
BY DEF Builds, Identities

\* What the service does to a build is forgetting that it was calm.
LEMMA CalmOnly ==
  ASSUME NEW j \in Builds
  PROVE  /\ [j EXCEPT !.calm = FALSE] \in Builds
         /\ [j EXCEPT !.calm = FALSE].step = j.step
         /\ [j EXCEPT !.calm = FALSE].claims = j.claims
         /\ [j EXCEPT !.calm = FALSE].superseded = j.superseded
         /\ [j EXCEPT !.calm = FALSE].sources = j.sources
         /\ [j EXCEPT !.calm = FALSE].unread = j.unread
         /\ [j EXCEPT !.calm = FALSE].answered = j.answered
BY DEF Builds

-----------------------------------------------------------------------------
(***************************************************************************)
(* What the service does to what a build has read: nothing.                *)
(***************************************************************************)

\* Records stay as they are, and answers stay given.
LEMMA StoreGrows ==
  ASSUME Solo, SoloInv, [Next]_vars
  PROVE  /\ \A r \in RecordIds :
              Stored(r) => records'[r] = records[r] /\ records'[r] # Absent
         /\ answers \subseteq answers'
<1>1. \A r \in RecordIds : Stored(r) => records'[r] = records[r]
  BY KeptStep DEF Kept
<1>2. answers \subseteq answers'
  BY AnswersChange DEF Refused, Collide, Reply
<1> QED BY <1>1, <1>2 DEF Stored

\* A correction is written for a claim of the event it names.
LEMMA CorrectedAsItselfStep ==
  ASSUME Solo, SoloInv, CorrectedAsItself, [Next]_vars
  PROVE  CorrectedAsItself'
<1> SUFFICES ASSUME NEW r \in RecordIds, NEW id \in EventIds,
                    corrections'[<<r, id>>] # Absent
             PROVE  records'[r] # Absent /\ records'[r].source_event_id = id
  BY DEF CorrectedAsItself, Stored
<1>1. corrections \in [CorrectionIds -> Nat \cup {Absent}]
  BY DEF SoloInv, OwnInv, TypeInv, TypeOK, StoreTypeOK
<1>2. CASE corrections[<<r, id>>] # Absent
  BY <1>2, StoreGrows DEF CorrectedAsItself
<1>3. CASE corrections[<<r, id>>] = Absent
  <2>1. PICK w \in Writers :
          /\ At(w, "replace_correction")
          /\ corrections' = [corrections EXCEPT
               ![<<job[w].target, job[w].event.event_id>>] = job[w].issued_at]
    BY <1>3, CorrectionsChange
  <2>2. r = job[w].target /\ id = job[w].event.event_id
    BY <1>1, <1>3, <2>1 DEF CorrectionIds
  <2>3. job[w].target \in HistoricalClaims(job[w].event)
    BY <2>1, AtWork DEF At, SoloJob, SoloTargets
  <2>4. Stored(r) /\ records[r].source_event_id = id
    BY <2>2, <2>3 DEF HistoricalClaims
  <2> QED BY <2>4, StoreGrows
<1> QED BY <1>2, <1>3

\* What a build read stays true, and a build that remembers the same of what
\* it read, calm or not, is as true as before.
LEMMA BuildStays ==
  ASSUME Solo, SoloInv, [Next]_vars,
         NEW b \in Builders, build[b] \in Builds, BuildTrue(build[b]),
         build'[b] \in {build[b], [build[b] EXCEPT !.calm = FALSE]}
  PROVE  build'[b] \in Builds /\ BuildTrue(build[b])'
<1> DEFINE j == build[b]
           k == build'[b]
<1>1. /\ k \in Builds
      /\ k.step = j.step /\ k.claims = j.claims
      /\ k.superseded = j.superseded /\ k.sources = j.sources
      /\ k.unread = j.unread /\ k.answered = j.answered
  BY CalmOnly
<1>2. /\ DOMAIN j.claims \subseteq RecordIds
      /\ DOMAIN j.sources \subseteq RecordIds
      /\ \A r \in RecordIds : j.superseded[r] \in RecordIds \cup {Absent}
  BY BuildTyped
<1> HIDE DEF k
<1>3. /\ \A r \in RecordIds :
           Stored(r) => records'[r] = records[r] /\ records'[r] # Absent
      /\ answers \subseteq answers'
  BY StoreGrows
<1>4. \A r \in DOMAIN j.claims :
        records'[r] # Absent /\ j.claims[r] = records'[r].source_event_id
  BY <1>2, <1>3 DEF BuildTrue, ClaimsTrue
<1>5. ClaimsTrue(build[b])'
  BY <1>1, <1>4 DEF ClaimsTrue, Stored, k
<1>6. SupersessionTrue(build[b])'
  <2> SUFFICES ASSUME NEW r \in RecordIds, k.superseded[r] # Absent
               PROVE  LET s == k.superseded[r]
                      IN /\ s # r
                         /\ records'[r] # Absent /\ records'[s] # Absent
                         /\ records'[s].source_event_id = records'[r].source_event_id
                         /\ k.step \in SourceSteps => s \in DOMAIN k.sources
    BY DEF SupersessionTrue, Stored, k
  <2>1. PICK s \in RecordIds : s = k.superseded[r]
    BY <1>1, <1>2
  <2>2. /\ s # r /\ Stored(r) /\ Stored(s)
        /\ records[s].source_event_id = records[r].source_event_id
        /\ j.step \in SourceSteps => s \in DOMAIN j.sources
    BY <1>1, <2>1 DEF BuildTrue, SupersessionTrue
  <2> QED BY <1>1, <1>3, <2>1, <2>2
<1>7. SourcesTrue(build[b])'
  <2>1. \A r \in DOMAIN j.sources :
          /\ records'[r] # Absent
          /\ r \notin j.unread => j.sources[r].document = records'[r]
    BY <1>2, <1>3 DEF BuildTrue, SourcesTrue
  <2> QED BY <1>1, <2>1 DEF BuildTrue, SourcesTrue, Stored, k
<1>8. AnswersKept(build[b])'
  BY <1>1, <1>3 DEF BuildTrue, AnswersKept, k
<1> QED BY <1>1, <1>5, <1>6, <1>7, <1>8 DEF BuildTrue, k

\* Nothing of the store moves in a step of a builder.
LEMMA BuildRests ==
  ASSUME UNCHANGED vars, NEW b \in Builders, BuildTrue(build[b]),
         build'[b] = build[b]
  PROVE  BuildTrue(build[b])'
BY DEF BuildTrue, ClaimsTrue, SupersessionTrue, SourcesTrue, AnswersKept,
       Stored, vars, storeVars

\* One build is replaced by one that is true.
LEMMA BuildReplaced ==
  ASSUME UNCHANGED vars, NEW b \in Builders,
         build \in [Builders -> Builds \cup {Idle}],
         \A c \in Builders : build[c] # Idle => BuildTrue(build[c]),
         \A c \in Builders \ {b} : build'[c] = build[c],
         build' = [build EXCEPT ![b] = build'[b]],
         build'[b] \in Builds \cup {Idle},
         build'[b] # Idle => BuildTrue(build[b])'
  PROVE  /\ build' \in [Builders -> Builds \cup {Idle}]
         /\ \A c \in Builders : build'[c] # Idle => BuildTrue(build[c])'
<1>1. ASSUME NEW c \in Builders, build'[c] # Idle
      PROVE  BuildTrue(build[c])'
  <2>1. CASE c = b
    BY <1>1, <2>1
  <2>2. CASE c # b
    BY <1>1, <2>2, BuildRests
  <2> QED BY <2>1, <2>2
<1> QED BY <1>1

-----------------------------------------------------------------------------
(***************************************************************************)
(* Each step of a builder leaves it with a build that is true.             *)
(***************************************************************************)

\* What a step of builder b has to show of the build it leaves.
Sound(b) ==
  /\ build' = [build EXCEPT ![b] = build'[b]]
  /\ build'[b] \in Builds \cup {Idle}
  /\ build'[b] # Idle => BuildTrue(build[b])'

\* A build that is over leaves nothing to show.
LEMMA IdleSound ==
  ASSUME SnapshotTypeOK, NEW b \in Builders, build' = [build EXCEPT ![b] = Idle]
  PROVE  Sound(b)
BY DEF Sound, SnapshotTypeOK

\* A build at work, and what it may count on.
LEMMA AtBuild ==
  ASSUME SnapshotInv, NEW b \in Builders, build[b] # Idle
  PROVE  /\ build[b] \in Builds
         /\ BuildTrue(build[b])
         /\ build \in [Builders -> Builds \cup {Idle}]
         /\ b \in DOMAIN build
BY DEF SnapshotInv, SnapshotTypeOK

\* A build that starts knows the answers given so far and has read nothing.
LEMMA StartSound ==
  ASSUME SoloInv, SnapshotInv, UNCHANGED vars, NEW b \in Builders, StartBuild(b)
  PROVE  Sound(b)
<1> DEFINE j == [step |-> "verify", claims |-> Nothing,
        superseded |-> [r \in RecordIds |-> Absent], sources |-> Nothing,
        unread |-> {}, answered |-> answers, calm |-> Quiet]
<1>1. build' = [build EXCEPT ![b] = j] /\ b \in DOMAIN build
  BY DEF StartBuild, SnapshotInv, SnapshotTypeOK
<1>2. build'[b] = j
  BY <1>1
<1>3. DOMAIN Nothing = {} /\ Nothing \in [{} -> EventIds] /\ Nothing \in [{} -> Sources]
  BY DEF Nothing
<1>4. j \in Builds
  <2>1. answers \subseteq Events \X Answers
    BY DEF SoloInv, OwnInv, TypeInv, TypeOK
  <2>2. Nothing \in UNION {[listed -> EventIds] : listed \in SUBSET RecordIds}
    BY <1>3
  <2>3. Nothing \in Identities
    BY <1>3 DEF Identities
  <2>4. Quiet \in BOOLEAN
    BY DEF Quiet
  <2> QED BY <2>1, <2>2, <2>3, <2>4 DEF Builds
<1>5. /\ j.step = "verify" /\ j.claims = Nothing /\ j.sources = Nothing
      /\ j.superseded = [r \in RecordIds |-> Absent] /\ j.answered = answers
      /\ j.unread = {}
  OBVIOUS
<1>6. answers' = answers
  BY DEF vars
<1> HIDE DEF j
<1>7. BuildTrue(build[b])'
  BY <1>2, <1>3, <1>5, <1>6
     DEF BuildTrue, ClaimsTrue, SupersessionTrue, SourcesTrue, AnswersKept, SourceSteps
<1> QED BY <1>1, <1>2, <1>4, <1>7 DEF Sound

\* Verification reads nothing a build keeps.
LEMMA VerifySound ==
  ASSUME SnapshotInv, UNCHANGED vars, NEW b \in Builders, VerifyStore(b)
  PROVE  Sound(b)
<1>1. build[b] # Idle /\ build[b].step = "verify"
  BY DEF VerifyStore, Building
<1>2. CASE build' = [build EXCEPT ![b] = Idle]
  BY <1>2, IdleSound DEF SnapshotInv
<1>3. CASE build' = [build EXCEPT ![b].step = "list_claims"]
  <2>1. build' = [build EXCEPT ![b] = [build[b] EXCEPT !.step = "list_claims"]]
    BY <1>3
  <2>2. /\ build'[b] \in Builds
        /\ build'[b].step = "list_claims"
        /\ build'[b].claims = build[b].claims
        /\ build'[b].superseded = build[b].superseded
        /\ build'[b].sources = build[b].sources
        /\ build'[b].unread = build[b].unread
        /\ build'[b].answered = build[b].answered
    BY <1>1, <2>1, AtBuild DEF Builds
  <2>3. records' = records /\ answers' = answers
    BY DEF vars, storeVars
  <2>4. BuildTrue(build[b])'
    BY <1>1, <2>2, <2>3, AtBuild
       DEF BuildTrue, ClaimsTrue, SupersessionTrue, SourcesTrue, AnswersKept,
           Stored, SourceSteps
  <2> QED BY <2>1, <2>2, <2>4 DEF Sound
<1> QED BY <1>2, <1>3 DEF VerifyStore, Finish

\* The claims listed are the records there are, each with its event.
LEMMA ListClaimsSound ==
  ASSUME SoloInv, SnapshotInv, UNCHANGED vars, NEW b \in Builders, ListClaims(b)
  PROVE  Sound(b)
<1> DEFINE listed == {s \in RecordIds : Stored(s)}
           read == [r \in listed |-> records[r].source_event_id]
<1>1. build[b] # Idle /\ build[b].step = "list_claims"
  BY DEF ListClaims, Building
<1>2. build' = [build EXCEPT ![b] = [build[b] EXCEPT !.step = "read_corrections",
                                                    !.claims = read]]
  BY DEF ListClaims
<1>3. read \in UNION {[l -> EventIds] : l \in SUBSET RecordIds}
  <2>1. ASSUME NEW r \in listed
        PROVE  records[r].source_event_id \in EventIds
    <3>1. records[r] \in RecordDocuments
      BY DEF Stored, SoloInv, OwnInv, TypeInv, TypeOK, StoreTypeOK
    <3> QED BY <3>1 DEF RecordDocuments, RecordDocument, EventIds
  <2>2. read \in [listed -> EventIds] /\ listed \in SUBSET RecordIds
    BY <2>1
  <2> HIDE DEF read, listed
  <2> QED BY <2>2
<1> HIDE DEF read
<1>4. /\ build'[b] \in Builds
      /\ build'[b].step = "read_corrections"
      /\ build'[b].claims = read
      /\ build'[b].superseded = build[b].superseded
      /\ build'[b].sources = build[b].sources
      /\ build'[b].unread = build[b].unread
      /\ build'[b].answered = build[b].answered
  BY <1>1, <1>2, <1>3, AtBuild DEF Builds
<1>5. records' = records /\ answers' = answers
  BY DEF vars, storeVars
<1>6. ClaimsTrue(build[b])'
  BY <1>4, <1>5 DEF ClaimsTrue, Stored, read
<1>7. BuildTrue(build[b])'
  BY <1>1, <1>4, <1>5, <1>6, AtBuild
     DEF BuildTrue, SupersessionTrue, SourcesTrue, AnswersKept, Stored, SourceSteps
<1> QED BY <1>2, <1>4, <1>7 DEF Sound

\* A corrected record is superseded by another claim that was listed.
LEMMA CorrectionsSound ==
  ASSUME SnapshotInv, UNCHANGED vars, NEW b \in Builders, ReadCorrections(b)
  PROVE  Sound(b)
<1> DEFINE targets == {r \in RecordIds : Corrected(r)}
           next(r) == Superseder(build[b].claims, targets, r, ReplacementEvent(r))
           overlay == [r \in RecordIds |-> IF r \in targets THEN next(r) ELSE Absent]
<1>1. build[b] # Idle /\ build[b].step = "read_corrections"
  BY DEF ReadCorrections, Building
<1>2. build' = [build EXCEPT ![b] = [build[b] EXCEPT !.step = "list_records",
                                                    !.superseded = overlay]]
  BY DEF ReadCorrections
<1>3. /\ DOMAIN build[b].claims \subseteq RecordIds
      /\ \A s \in DOMAIN build[b].claims :
           Stored(s) /\ build[b].claims[s] = records[s].source_event_id
  BY <1>1, AtBuild, BuildTyped DEF BuildTrue, ClaimsTrue
<1>4. ASSUME NEW r \in RecordIds, overlay[r] # Absent
      PROVE  /\ overlay[r] \in RecordIds /\ overlay[r] # r
             /\ Stored(r) /\ Stored(overlay[r])
             /\ records[overlay[r]].source_event_id = records[r].source_event_id
  <2>1. r \in targets /\ overlay[r] = next(r)
    BY <1>4
  <2>2. PICK id \in EventIds : corrections[<<r, id>>] # Absent
    BY <2>1 DEF Corrected
  <2>3. ReplacementEvent(r) \in EventIds /\ corrections[<<r, ReplacementEvent(r)>>] # Absent
    BY <2>2 DEF ReplacementEvent
  <2>4. Stored(r) /\ records[r].source_event_id = ReplacementEvent(r)
    BY <2>3 DEF SnapshotInv, CorrectedAsItself
  <2>5. /\ next(r) \in DOMAIN build[b].claims
        /\ next(r) # r
        /\ build[b].claims[next(r)] = ReplacementEvent(r)
    BY <1>3, <1>4, <2>1, SupersederSound
  <2> QED BY <1>3, <2>1, <2>4, <2>5
<1> HIDE DEF overlay
<1>5. overlay \in [RecordIds -> RecordIds \cup {Absent}]
  BY <1>4 DEF overlay
<1>6. /\ build'[b] \in Builds
      /\ build'[b].step = "list_records"
      /\ build'[b].claims = build[b].claims
      /\ build'[b].superseded = overlay
      /\ build'[b].sources = build[b].sources
      /\ build'[b].unread = build[b].unread
      /\ build'[b].answered = build[b].answered
  BY <1>1, <1>2, <1>5, AtBuild DEF Builds
<1>7. records' = records /\ answers' = answers
  BY DEF vars, storeVars
<1>8. SupersessionTrue(build[b])'
  BY <1>4, <1>6, <1>7 DEF SupersessionTrue, Stored, SourceSteps
<1>9. BuildTrue(build[b])'
  BY <1>1, <1>6, <1>7, <1>8, AtBuild
     DEF BuildTrue, ClaimsTrue, SourcesTrue, AnswersKept, Stored, SourceSteps
<1> QED BY <1>2, <1>6, <1>9 DEF Sound

\* Every claim listed before and every record answered for is listed here.
LEMMA ListRecordsSound ==
  ASSUME SoloInv, SnapshotInv, UNCHANGED vars, NEW b \in Builders, ListRecords(b)
  PROVE  Sound(b)
<1> DEFINE listed == {r \in RecordIds : Stored(r)}
           names == [r \in listed |-> NotRead]
<1>1. build[b] # Idle /\ build[b].step = "list_records"
  BY DEF ListRecords, Building
<1>2. build' = [build EXCEPT ![b] = [build[b] EXCEPT !.step = "read_records",
                                                    !.sources = names,
                                                    !.unread = listed]]
  BY DEF ListRecords
<1>3. NotRead \in Sources
  BY DEF NotRead, Sources
<1>4. names \in [listed -> Sources] /\ listed \in SUBSET RecordIds /\ DOMAIN names = listed
  BY <1>3
<1> HIDE DEF names
<1>5. names \in Identities
  BY <1>4 DEF Identities
<1>6. /\ build'[b] \in Builds
      /\ build'[b].step = "read_records"
      /\ build'[b].claims = build[b].claims
      /\ build'[b].superseded = build[b].superseded
      /\ build'[b].sources = names
      /\ build'[b].unread = listed
      /\ build'[b].answered = build[b].answered
  BY <1>1, <1>2, <1>4, <1>5, AtBuild DEF Builds
<1>7. records' = records /\ answers' = answers
  BY DEF vars, storeVars
<1>8. ClaimsTrue(build[b])'
  BY <1>1, <1>6, <1>7, AtBuild DEF BuildTrue, ClaimsTrue, Stored
<1>9. SupersessionTrue(build[b])'
  <2>1. \A r \in RecordIds : build[b].superseded[r] \in RecordIds \cup {Absent}
    BY <1>1, AtBuild, BuildTyped
  <2> QED BY <1>1, <1>4, <1>6, <1>7, <2>1, AtBuild
          DEF BuildTrue, SupersessionTrue, Stored, SourceSteps
<1>10. SourcesTrue(build[b])'
  BY <1>4, <1>6, <1>7 DEF SourcesTrue, Stored
<1>11. AnswersKept(build[b])'
  <2>1. build[b].answered \subseteq answers
    BY <1>1, AtBuild DEF BuildTrue, AnswersKept
  <2>2. \A e \in Events : Confirmed(e, build[b].answered) => RecordId(e) \in listed
    BY <2>1 DEF Confirmed, SoloInv, AnswersStored, RecordIds
  <2> QED BY <1>4, <1>6, <1>7, <2>1, <2>2 DEF AnswersKept, SourceSteps
<1> QED BY <1>2, <1>6, <1>8, <1>9, <1>10, <1>11 DEF Sound, BuildTrue

\* A record that is read has the learning rows it was answered with.
LEMMA ReadSound ==
  ASSUME SoloInv, SnapshotInv, UNCHANGED vars, NEW b \in Builders,
         ReadRecordAndRows(b)
  PROVE  Sound(b)
<1> DEFINE j == build[b]
<1>1. j # Idle /\ j.step = "read_records"
  BY DEF ReadRecordAndRows, Building
<1>2. PICK r \in j.unread :
        build' = [build EXCEPT
          ![b].sources[r] = [document |-> records[r], rows |-> observations[r]],
          ![b].unread = @ \ {r}]
  BY DEF ReadRecordAndRows
<1> DEFINE source == [document |-> records[r], rows |-> observations[r]]
           read == [j.sources EXCEPT ![r] = source]
<1>3. /\ j \in Builds /\ BuildTrue(j) /\ b \in DOMAIN build
      /\ DOMAIN j.sources \subseteq RecordIds
      /\ j.sources \in [DOMAIN j.sources -> Sources]
  BY <1>1, AtBuild, BuildTyped
<1>4. r \in RecordIds
  BY <1>3 DEF Builds
<1>5. source \in Sources
  BY <1>4 DEF Sources, SoloInv, OwnInv, TypeInv, TypeOK, StoreTypeOK
<1>6. /\ DOMAIN read = DOMAIN j.sources
      /\ read \in [DOMAIN j.sources -> Sources]
      /\ \A q \in DOMAIN j.sources : read[q] = IF q = r THEN source ELSE j.sources[q]
  BY <1>3, <1>5
<1>7. build' = [build EXCEPT ![b] = [j EXCEPT !.sources = read, !.unread = @ \ {r}]]
  BY <1>2
<1>8. source.document = records[r] /\ source.rows = observations[r]
  OBVIOUS
<1> HIDE DEF read, source
<1>9. read \in Identities
  BY <1>3, <1>6 DEF Identities
<1>10. /\ build'[b] \in Builds
       /\ build'[b].step = "read_records"
       /\ build'[b].claims = j.claims
       /\ build'[b].superseded = j.superseded
       /\ build'[b].sources = read
       /\ build'[b].unread = j.unread \ {r}
       /\ build'[b].answered = j.answered
  BY <1>1, <1>3, <1>7, <1>9 DEF Builds
<1>11. records' = records /\ answers' = answers
  BY DEF vars, storeVars
<1>12. r \in DOMAIN j.sources /\ Stored(r)
  BY <1>3 DEF BuildTrue, SourcesTrue
<1>13. ClaimsTrue(build[b])'
  BY <1>3, <1>10, <1>11 DEF BuildTrue, ClaimsTrue, Stored
<1>14. SupersessionTrue(build[b])'
  BY <1>1, <1>3, <1>6, <1>10, <1>11 DEF BuildTrue, SupersessionTrue, Stored
<1>15. SourcesTrue(build[b])'
  BY <1>3, <1>6, <1>8, <1>10, <1>11, <1>12 DEF BuildTrue, SourcesTrue, Stored
<1>16. AnswersKept(build[b])'
  <2>1. \A e \in Events : Confirmed(e, j.answered) =>
          /\ RecordId(e) \in DOMAIN j.sources
          /\ RecordId(e) \notin j.unread => Includes(j.sources, e)
    BY <1>1, <1>3 DEF BuildTrue, AnswersKept, SourceSteps
  <2>2. j.answered \subseteq answers
    BY <1>3 DEF BuildTrue, AnswersKept
  <2>3. ASSUME NEW e \in Events, Confirmed(e, j.answered),
               RecordId(e) \notin j.unread \ {r}
        PROVE  Includes(read, e)
    <3>1. CASE RecordId(e) = r
      <4>1. /\ records[r].content_hash = e.payload
            /\ e.rows # Absent => observations[r] # Absent
        BY <2>2, <2>3, <3>1 DEF Confirmed, SoloInv, AnswersStored
      <4> QED BY <1>6, <1>8, <1>12, <3>1, <4>1 DEF Includes, Stored
    <3>2. CASE RecordId(e) # r
      <4>1. Includes(j.sources, e)
        BY <2>1, <2>3, <3>2
      <4> QED BY <1>6, <3>2, <4>1 DEF Includes
    <3> QED BY <3>1, <3>2
  <2> QED BY <1>6, <1>10, <1>11, <2>1, <2>2, <2>3 DEF AnswersKept
<1> QED BY <1>7, <1>10, <1>13, <1>14, <1>15, <1>16 DEF Sound, BuildTrue

\* A build goes on to its directory with nothing left to read.
LEMMA CheckSound ==
  ASSUME SnapshotInv, UNCHANGED vars, NEW b \in Builders, CheckDestination(b)
  PROVE  Sound(b)
<1>1. build[b] # Idle /\ build[b].step = "read_records" /\ build[b].unread = {}
  BY DEF CheckDestination, Building
<1>2. CASE build' = [build EXCEPT ![b] = Idle]
  BY <1>2, IdleSound DEF SnapshotInv
<1>3. CASE build' = [build EXCEPT ![b].step = "replace"]
  <2>1. build' = [build EXCEPT ![b] = [build[b] EXCEPT !.step = "replace"]]
    BY <1>3
  <2>2. /\ build'[b] \in Builds
        /\ build'[b].step = "replace"
        /\ build'[b].claims = build[b].claims
        /\ build'[b].superseded = build[b].superseded
        /\ build'[b].sources = build[b].sources
        /\ build'[b].unread = build[b].unread
        /\ build'[b].answered = build[b].answered
    BY <1>1, <2>1, AtBuild DEF Builds
  <2>3. records' = records /\ answers' = answers
    BY DEF vars, storeVars
  <2>4. BuildTrue(build[b])'
    BY <1>1, <2>2, <2>3, AtBuild
       DEF BuildTrue, ClaimsTrue, SupersessionTrue, SourcesTrue, AnswersKept,
           Stored, SourceSteps
  <2> QED BY <2>1, <2>2, <2>4 DEF Sound
<1> QED BY <1>2, <1>3 DEF CheckDestination, Finish

\* Every step of a builder leaves every builder with a build that is true.
LEMMA BuildsSound ==
  ASSUME SoloInv, SnapshotInv, UNCHANGED vars, NEW b \in Builders, BuildStep(b)
  PROVE  /\ build' \in [Builders -> Builds \cup {Idle}]
         /\ \A c \in Builders : build'[c] # Idle => BuildTrue(build[c])'
<1>2. Sound(b)
  <2>1. CASE ReplaceDirectory(b) \/ AbandonBuild(b)
    <3>1. build' = [build EXCEPT ![b] = Idle]
      BY <2>1 DEF ReplaceDirectory, AbandonBuild, Finish
    <3> QED BY <3>1, IdleSound DEF SnapshotInv
  <2> QED
    BY <2>1, StartSound, VerifySound, ListClaimsSound, CorrectionsSound,
       ListRecordsSound, ReadSound, CheckSound DEF BuildStep
<1>3. \A c \in Builders \ {b} : build'[c] = build[c]
  BY <1>2 DEF Sound, SnapshotInv, SnapshotTypeOK
<1>4. /\ build \in [Builders -> Builds \cup {Idle}]
      /\ \A c \in Builders : build[c] # Idle => BuildTrue(build[c])
  BY DEF SnapshotInv, SnapshotTypeOK
<1> QED BY <1>2, <1>3, <1>4, BuildReplaced DEF Sound

-----------------------------------------------------------------------------
(***************************************************************************)
(* What builds report and publish.                                         *)
(***************************************************************************)

\* A step that reports names its outcome and, if that is a success, has the
\* view of the build under its identity.
LEMMA Reported ==
  ASSUME SnapshotInv, NEW b \in Builders, BuildStep(b)
  PROVE  \/ UNCHANGED reports
         \/ \E outcome \in Outcomes :
              /\ build[b] # Idle
              /\ Finish(b, outcome)
              /\ outcome = "built" =>
                   /\ build[b].step \in SourceSteps
                   /\ build[b].unread = {}
                   /\ build[b].sources \in DOMAIN snapshots'
                   /\ snapshots'[build[b].sources] = View(b)
<1> USE DEF Outcomes, SourceSteps
<1>1. CASE VerifyStore(b)
  BY <1>1 DEF VerifyStore, Building
<1>2. CASE CheckDestination(b)
  BY <1>2 DEF CheckDestination, Building
<1>3. CASE ReplaceDirectory(b)
  <2>1. build[b] # Idle /\ build[b].step = "replace" /\ build[b].unread = {}
    BY <1>3, AtBuild DEF ReplaceDirectory, Building, BuildTrue, SourcesTrue
  <2> QED BY <1>3, <2>1 DEF ReplaceDirectory
<1> QED
  BY <1>1, <1>2, <1>3
  DEF BuildStep, StartBuild, ListClaims, ReadCorrections, ListRecords,
      ReadRecordAndRows, AbandonBuild

\* Reports stay true: what they say is there stays there, and a new one is of
\* a build that has read all it listed.
LEMMA ReportsSound ==
  ASSUME SnapshotInv, NEW b \in Builders, BuildStep(b),
         [SnapshotNext]_allVars
  PROVE  /\ \A report \in reports' : report.outcome \in Outcomes
         /\ BuildsTruthful'
         /\ AnsweredIncluded'
<1>1. \A id \in DOMAIN snapshots :
        id \in DOMAIN snapshots' /\ snapshots'[id] = snapshots[id]
  BY SnapshotsStay
<1>2. ASSUME NEW report \in reports
      PROVE  /\ report.outcome \in Outcomes
             /\ report.outcome = "built" =>
                  /\ report.id \in DOMAIN snapshots'
                  /\ snapshots'[report.id] = report.view
                  /\ \A e \in Events :
                       Confirmed(e, report.answered) => Includes(report.id, e)
  BY <1>1, <1>2 DEF SnapshotInv, SnapshotTypeOK, BuildsTruthful, AnsweredIncluded
<1>3. CASE UNCHANGED reports
  BY <1>2, <1>3 DEF BuildsTruthful, AnsweredIncluded
<1>4. CASE ~UNCHANGED reports
  <2>1. PICK outcome \in Outcomes :
          /\ build[b] # Idle
          /\ Finish(b, outcome)
          /\ outcome = "built" =>
               /\ build[b].step \in SourceSteps
               /\ build[b].unread = {}
               /\ build[b].sources \in DOMAIN snapshots'
               /\ snapshots'[build[b].sources] = View(b)
    BY <1>4, Reported
  <2> DEFINE new == [outcome |-> outcome, id |-> build[b].sources,
                     view |-> View(b), answered |-> build[b].answered]
  <2>2. reports' = reports \cup {new}
    BY <2>1 DEF Finish
  <2>3. /\ new.outcome = outcome /\ new.id = build[b].sources
        /\ new.view = View(b) /\ new.answered = build[b].answered
    OBVIOUS
  <2> HIDE DEF new
  <2>4. outcome = "built" =>
          \A e \in Events :
            Confirmed(e, build[b].answered) => Includes(build[b].sources, e)
    BY <2>1, AtBuild DEF BuildTrue, AnswersKept
  <2>5. \A report \in reports' : report.outcome \in Outcomes
    BY <1>2, <2>2, <2>3
  <2>6. BuildsTruthful'
    BY <1>2, <2>1, <2>2, <2>3 DEF BuildsTruthful
  <2>7. AnsweredIncluded'
    BY <1>2, <2>2, <2>3, <2>4 DEF AnsweredIncluded
  <2> QED BY <2>5, <2>6, <2>7
<1> QED BY <1>3, <1>4

\* A snapshot that appears is the view of a build that is true.
LEMMA PublishedSound ==
  ASSUME SoloInv, SnapshotInv, NEW b \in Builders, BuildStep(b)
  PROVE  /\ \A id \in DOMAIN snapshots' :
              /\ id \in Identities
              /\ snapshots'[id] \in [DOMAIN id -> RecordIds \cup {Absent}]
         /\ SupersessionClosed'
<1> DEFINE Closed(id, view) ==
      \A r \in DOMAIN id :
        LET s == view[r]
        IN s # Absent =>
             /\ s # r
             /\ s \in DOMAIN id
             /\ {id[r].document, id[s].document} \subseteq RecordDocuments
             /\ id[s].document.source_event_id = id[r].document.source_event_id
           Good(id, view) ==
             /\ id \in Identities
             /\ view \in [DOMAIN id -> RecordIds \cup {Absent}]
             /\ Closed(id, view)
<1>1. \A id \in DOMAIN snapshots : Good(id, snapshots[id])
  BY DEF SnapshotInv, SnapshotTypeOK, SupersessionClosed
<1>2. ASSUME ReplaceDirectory(b), build[b].sources \notin DOMAIN snapshots
      PROVE  Good(build[b].sources, View(b))
  <2> DEFINE j == build[b]
  <2>1. /\ j \in Builds /\ BuildTrue(j) /\ j.step = "replace"
        /\ DOMAIN j.sources \subseteq RecordIds
        /\ j.superseded \in [RecordIds -> RecordIds \cup {Absent}]
    BY <1>2, AtBuild, BuildTyped DEF ReplaceDirectory, Building
  <2>2. j.sources \in Identities
    BY <2>1 DEF Builds
  <2>3. View(b) \in [DOMAIN j.sources -> RecordIds \cup {Absent}]
    BY <2>1 DEF View
  <2>4. \A r \in DOMAIN j.sources :
          Stored(r) /\ j.sources[r].document = records[r]
    BY <2>1 DEF BuildTrue, SourcesTrue
  <2>5. \A r \in RecordIds : Stored(r) => records[r] \in RecordDocuments
    BY DEF Stored, SoloInv, OwnInv, TypeInv, TypeOK, StoreTypeOK
  <2>6. ASSUME NEW r \in DOMAIN j.sources, View(b)[r] # Absent
        PROVE  /\ View(b)[r] # r
               /\ View(b)[r] \in DOMAIN j.sources
               /\ records[View(b)[r]].source_event_id = records[r].source_event_id
    <3>1. View(b)[r] = j.superseded[r] /\ r \in RecordIds
      BY <2>1 DEF View
    <3> QED BY <2>1, <2>6, <3>1 DEF BuildTrue, SupersessionTrue, SourceSteps
  <2>7. Closed(j.sources, View(b))
    BY <2>1, <2>4, <2>5, <2>6
  <2> QED BY <2>2, <2>3, <2>7
<1> HIDE DEF Good
<1>3. \A id \in DOMAIN snapshots' : Good(id, snapshots'[id])
  <2>1. CASE UNCHANGED snapshots
    BY <1>1, <2>1
  <2>2. CASE /\ ReplaceDirectory(b)
             /\ build[b].sources \notin DOMAIN snapshots
             /\ snapshots' = [i \in DOMAIN snapshots \cup {build[b].sources} |->
                  IF i = build[b].sources THEN View(b) ELSE snapshots[i]]
    BY <1>1, <1>2, <2>2
  <2> QED
    BY <2>1, <2>2
    DEF BuildStep, StartBuild, VerifyStore, ListClaims, ReadCorrections,
        ListRecords, ReadRecordAndRows, CheckDestination, ReplaceDirectory,
        AbandonBuild
<1> QED BY <1>3 DEF Good, SupersessionClosed

-----------------------------------------------------------------------------
(***************************************************************************)
(* The invariant.                                                          *)
(***************************************************************************)
\* Nothing is built from an empty store yet.
LEMMA SnapshotInitial == SnapshotInit => SnapshotInv
<1> SUFFICES ASSUME SnapshotInit PROVE SnapshotInv
  OBVIOUS
<1>1. DOMAIN snapshots = {} /\ reports = {}
  BY DEF SnapshotInit, Nothing
<1>2. SnapshotTypeOK
  BY <1>1, SnapshotAssumption DEF SnapshotInit, SnapshotTypeOK
<1>3. CorrectedAsItself
  BY DEF SnapshotInit, Init, StoreInit, CorrectedAsItself, CorrectionIds
<1> QED
  BY <1>1, <1>2, <1>3
  DEF SnapshotInit, SnapshotInv, BuildsTruthful, AnsweredIncluded, SupersessionClosed

\* The service moves and the builders do not.
LEMMA ServiceSound ==
  ASSUME Solo, SoloInv, SnapshotInv, ServiceStep
  PROVE  SnapshotInv'
<1>1. /\ [Next]_vars
      /\ build' = [b \in Builders |->
                     IF build[b] = Idle THEN Idle
                                        ELSE [build[b] EXCEPT !.calm = FALSE]]
      /\ UNCHANGED <<snapshots, builds, reports>>
  BY DEF ServiceStep
<1>2. ASSUME NEW b \in Builders, build[b] # Idle
      PROVE  build'[b] \in Builds /\ BuildTrue(build[b])'
  BY <1>1, <1>2, AtBuild, BuildStays
<1>3. ASSUME NEW b \in Builders, build[b] = Idle
      PROVE  build'[b] = Idle
  BY <1>1, <1>3
<1>4. SnapshotTypeOK'
  <2>1. build' \in [Builders -> Builds \cup {Idle}]
    BY <1>1, <1>2, <1>3
  <2> QED BY <1>1, <2>1 DEF SnapshotInv, SnapshotTypeOK
<1>5. \A b \in Builders : build'[b] # Idle => BuildTrue(build[b])'
  BY <1>2, <1>3
<1>6. CorrectedAsItself'
  BY <1>1, CorrectedAsItselfStep DEF SnapshotInv
<1>7. BuildsTruthful' /\ AnsweredIncluded' /\ SupersessionClosed'
  BY <1>1 DEF SnapshotInv, BuildsTruthful, AnsweredIncluded, SupersessionClosed
<1> QED BY <1>4, <1>5, <1>6, <1>7 DEF SnapshotInv

\* A builder moves and the service does not.
LEMMA BuilderSound ==
  ASSUME SoloInv, SnapshotInv, UNCHANGED vars, NEW b \in Builders, BuildStep(b)
  PROVE  SnapshotInv'
<1>1. [SnapshotNext]_allVars
  BY DEF SnapshotNext
<1>2. builds' \in 0 .. MaxBuilds
  <2>1. builds \in 0 .. MaxBuilds /\ MaxBuilds \in Nat
    BY SnapshotAssumption DEF SnapshotInv, SnapshotTypeOK
  <2>2. builds' = builds \/ (builds > 0 /\ builds' = builds - 1)
    BY DEF BuildStep, StartBuild, VerifyStore, ListClaims, ReadCorrections,
           ListRecords, ReadRecordAndRows, CheckDestination, ReplaceDirectory,
           AbandonBuild
  <2> QED BY <2>1, <2>2
<1>3. SnapshotTypeOK'
  BY <1>1, <1>2, BuildsSound, ReportsSound, PublishedSound DEF SnapshotTypeOK
<1>4. CorrectedAsItself'
  BY DEF SnapshotInv, CorrectedAsItself, Stored, vars, storeVars
<1> QED
  BY <1>1, <1>3, <1>4, BuildsSound, ReportsSound, PublishedSound DEF SnapshotInv

\* Steps of the service and of the builders keep the invariant.
LEMMA SnapshotStep ==
  ASSUME Solo
  PROVE  SoloInv /\ SnapshotInv /\ [SnapshotNext]_allVars => SnapshotInv'
<1> SUFFICES ASSUME SoloInv, SnapshotInv, [SnapshotNext]_allVars
             PROVE  SnapshotInv'
  OBVIOUS
<1>1. CASE ServiceStep
  BY <1>1, ServiceSound
<1>2. ASSUME NEW b \in Builders, BuildStep(b), UNCHANGED vars
      PROVE  SnapshotInv'
  BY <1>2, BuilderSound
<1>3. CASE UNCHANGED allVars
  <2>1. /\ UNCHANGED vars
        /\ snapshots' = snapshots /\ build' = build
        /\ builds' = builds /\ reports' = reports
    BY <1>3 DEF allVars, snapshotVars
  <2>2. \A b \in Builders : build'[b] # Idle => BuildTrue(build[b])'
    BY <2>1, BuildRests DEF SnapshotInv
  <2>3. CorrectedAsItself'
    BY <2>1 DEF SnapshotInv, CorrectedAsItself, Stored, vars, storeVars
  <2> QED
    BY <2>1, <2>2, <2>3
    DEF SnapshotInv, SnapshotTypeOK, BuildsTruthful, AnsweredIncluded,
        SupersessionClosed
<1> QED BY <1>1, <1>2, <1>3 DEF SnapshotNext

\* Builds of a single writer's store keep SnapshotInv.
THEOREM SnapshotInvariant ==
  ASSUME Solo
  PROVE  SnapshotSpec => []SnapshotInv
<1>1. SnapshotSpec => []SoloInv
  BY ServiceUndisturbed, SoloInvariant, PTL
<1> QED BY <1>1, SnapshotInitial, SnapshotStep, PTL DEF SnapshotSpec

\* A build that reports success left its content under its identity, and a
\* race of builders or a correction since has not changed it.
THEOREM BuildsAlwaysTruthful ==
  ASSUME Solo
  PROVE  SnapshotSpec => []BuildsTruthful
<1>1. SnapshotInv => BuildsTruthful
  BY DEF SnapshotInv
<1> QED BY SnapshotInvariant, <1>1, PTL

\* Whatever was answered before a build began is in its snapshot.
THEOREM AnsweredAlwaysIncluded ==
  ASSUME Solo
  PROVE  SnapshotSpec => []AnsweredIncluded
<1>1. SnapshotInv => AnsweredIncluded
  BY DEF SnapshotInv
<1> QED BY SnapshotInvariant, <1>1, PTL

\* Supersession never leads out of a snapshot or to another event.
THEOREM SupersessionAlwaysClosed ==
  ASSUME Solo
  PROVE  SnapshotSpec => []SupersessionClosed
<1>1. SnapshotInv => SupersessionClosed
  BY DEF SnapshotInv
<1> QED BY SnapshotInvariant, <1>1, PTL


\* Snapshots, builds and reports keep their types.
THEOREM SnapshotTyped ==
  ASSUME Solo
  PROVE  SnapshotSpec => []SnapshotTypeOK
<1>1. SnapshotInv => SnapshotTypeOK
  BY DEF SnapshotInv
<1> QED BY SnapshotInvariant, <1>1, PTL

-----------------------------------------------------------------------------
(***************************************************************************)
(* Builds that no writer disturbs.                                         *)
(***************************************************************************)

\* If a claim of the event is live, a live one supersedes.
LEMMA SupersederLive ==
  ASSUME NEW claims, DOMAIN claims \subseteq RecordIds,
         NEW targets, NEW r, NEW event_id,
         NEW s \in DOMAIN claims, s # r, claims[s] = event_id, s \notin targets
  PROVE  Superseder(claims, targets, r, event_id) \in RecordIds \ targets
<1> DEFINE candidates == {c \in DOMAIN claims : c # r /\ claims[c] = event_id}
           live == candidates \ targets
<1>1. candidates # {} /\ live # {} /\ live \in SUBSET RecordIds
  OBVIOUS
<1>2. Superseder(claims, targets, r, event_id) = Greatest(live)
  BY <1>1 DEF Superseder
<1>3. live \cap targets = {}
  OBVIOUS
<1> HIDE DEF live
<1> QED BY <1>1, <1>2, <1>3, GreatestIn

\* A calm build that reads the corrections finds a live claim for each.
LEMMA CalmCorrections ==
  ASSUME SoloInv, SnapshotInv, CalmInv, UNCHANGED vars, NEW b \in Builders,
         ReadCorrections(b), build[b].calm
  PROVE  CalmKnows(build[b])'
<1> DEFINE targets == {r \in RecordIds : Corrected(r)}
           next(r) == Superseder(build[b].claims, targets, r, ReplacementEvent(r))
           overlay == [r \in RecordIds |-> IF r \in targets THEN next(r) ELSE Absent]
<1>1. build[b] # Idle /\ build[b].step = "read_corrections"
  BY DEF ReadCorrections, Building
<1>2. build' = [build EXCEPT ![b] = [build[b] EXCEPT !.step = "list_records",
                                                    !.superseded = overlay]]
  BY DEF ReadCorrections
<1>3. /\ DOMAIN build[b].claims = {r \in RecordIds : Stored(r)}
      /\ \A r \in DOMAIN build[b].claims :
           build[b].claims[r] = records[r].source_event_id
  BY <1>1 DEF CalmInv, CalmKnows
<1>4. ASSUME NEW r \in targets
      PROVE  next(r) \in RecordIds \ targets
  <2>1. PICK id \in EventIds : corrections[<<r, id>>] # Absent
    BY DEF Corrected
  <2>2. ReplacementEvent(r) \in EventIds /\ corrections[<<r, ReplacementEvent(r)>>] # Absent
    BY <2>1 DEF ReplacementEvent
  <2>3. PICK s \in RecordIds : /\ s # r
                               /\ IsLive(s)
                               /\ records[s].source_event_id = ReplacementEvent(r)
    BY <2>2 DEF SoloInv, ClaimSurvives
  <2>4. s \in DOMAIN build[b].claims /\ s \notin targets
    BY <1>3, <2>3 DEF IsLive
  <2>5. build[b].claims[s] = ReplacementEvent(r)
    BY <1>3, <2>3, <2>4
  <2> QED BY <1>3, <2>3, <2>4, <2>5, SupersederLive
<1>5. ASSUME NEW r \in RecordIds
      PROVE  /\ Corrected(r) <=> overlay[r] # Absent
             /\ overlay[r] # Absent => overlay[overlay[r]] = Absent
  <2>1. CASE r \in targets
    <3>1. overlay[r] = next(r) /\ next(r) \in RecordIds \ targets
      BY <1>4, <2>1
    <3>2. next(r) # Absent
      BY <3>1, AbsentIsNoDocument
    <3> HIDE DEF next
    <3>3. overlay[next(r)] = Absent
      BY <3>1
    <3> QED BY <2>1, <3>1, <3>2, <3>3
  <2>2. CASE r \notin targets
    BY <2>2
  <2> QED BY <2>1, <2>2
<1> HIDE DEF overlay
<1>6. /\ build'[b].step = "list_records"
      /\ build'[b].claims = build[b].claims
      /\ build'[b].superseded = overlay
  BY <1>1, <1>2, AtBuild DEF Builds
<1>7. records' = records /\ corrections' = corrections
  BY DEF vars, storeVars
<1> QED BY <1>3, <1>5, <1>6, <1>7 DEF CalmKnows, SourceSteps, Stored, Corrected

\* What a calm build knows is true at each of its steps.
LEMMA CalmSound ==
  ASSUME SoloInv, SnapshotInv, CalmInv, UNCHANGED vars, NEW b \in Builders,
         BuildStep(b)
  PROVE  CalmInv'
<1> USE DEF SourceSteps
<1>1. records' = records /\ corrections' = corrections
  BY DEF vars, storeVars
<1>2. ASSUME NEW c \in Builders, build[c] # Idle, build[c].calm,
             NEW j, j = build'[c],
             j.claims = build[c].claims, j.superseded = build[c].superseded,
             \/ j.step = build[c].step
             \/ j.step \in {"verify", "list_claims"}
             \/ /\ build[c].step \in {"list_records"} \cup SourceSteps
                /\ j.step \in SourceSteps
      PROVE  CalmKnows(build[c])'
  <2>1. CalmKnows(build[c])
    BY <1>2 DEF CalmInv
  <2> QED BY <1>1, <1>2, <2>1 DEF CalmKnows, Stored, Corrected
<1>3. ASSUME NEW c \in Builders \ {b}, build'[c] # Idle, build'[c].calm
      PROVE  CalmKnows(build[c])'
  <2>1. build'[c] = build[c]
    BY <1>3
    DEF BuildStep, StartBuild, VerifyStore, ListClaims, ReadCorrections,
        ListRecords, ReadRecordAndRows, CheckDestination, ReplaceDirectory,
        AbandonBuild, Finish, SnapshotInv, SnapshotTypeOK
  <2> QED BY <1>2, <1>3, <2>1
<1>4. ASSUME build'[b] # Idle, build'[b].calm
      PROVE  CalmKnows(build[b])'
  <2>1. CASE StartBuild(b)
    <3>1. build'[b].step = "verify"
      BY <2>1 DEF StartBuild, SnapshotInv, SnapshotTypeOK
    <3> QED BY <3>1 DEF CalmKnows
  <2>a. CASE build[b] # Idle
    <3>1. /\ build[b] \in Builds /\ b \in DOMAIN build
          /\ build \in [Builders -> Builds \cup {Idle}]
      BY <2>a, AtBuild
    <3>2. CASE VerifyStore(b)
      <4>1. build' = [build EXCEPT ![b] = [build[b] EXCEPT !.step = "list_claims"]]
        BY <1>4, <3>1, <3>2 DEF VerifyStore, Finish
      <4>2. build'[b].step = "list_claims"
        BY <3>1, <4>1 DEF Builds
      <4> QED BY <4>2 DEF CalmKnows
    <3>3. CASE ListClaims(b)
      <4>1. PICK read : read = [r \in {s \in RecordIds : Stored(s)} |->
                                  records[r].source_event_id]
        OBVIOUS
      <4>2. build' = [build EXCEPT ![b] = [build[b] EXCEPT
                        !.step = "read_corrections", !.claims = read]]
        BY <3>3, <4>1 DEF ListClaims
      <4>3. build'[b].step = "read_corrections" /\ build'[b].claims = read
        BY <3>1, <4>2 DEF Builds
      <4> QED BY <1>1, <4>1, <4>3 DEF CalmKnows, Stored
    <3>4. CASE ReadCorrections(b)
      <4>1. build'[b].calm = build[b].calm
        <5>1. PICK overlay :
                build' = [build EXCEPT ![b] = [build[b] EXCEPT
                  !.step = "list_records", !.superseded = overlay]]
          BY <3>4 DEF ReadCorrections
        <5> QED BY <3>1, <5>1 DEF Builds
      <4> QED BY <1>4, <3>4, <4>1, CalmCorrections
    <3>5. CASE ListRecords(b)
      <4>1. PICK names, listed :
              build' = [build EXCEPT ![b] = [build[b] EXCEPT
                !.step = "read_records", !.sources = names, !.unread = listed]]
        BY <3>5 DEF ListRecords
      <4>2. /\ build'[b].step = "read_records"
            /\ build'[b].claims = build[b].claims
            /\ build'[b].superseded = build[b].superseded
            /\ build'[b].calm = build[b].calm
        BY <3>1, <4>1 DEF Builds
      <4>3. build[b].step = "list_records"
        BY <3>5 DEF ListRecords, Building
      <4> QED BY <1>2, <1>4, <2>a, <4>2, <4>3
    <3>6. CASE ReadRecordAndRows(b)
      <4>1. PICK sources, unread :
              build' = [build EXCEPT ![b] = [build[b] EXCEPT
                !.sources = sources, !.unread = unread]]
        BY <3>6 DEF ReadRecordAndRows
      <4>2. /\ build'[b].step = build[b].step
            /\ build'[b].claims = build[b].claims
            /\ build'[b].superseded = build[b].superseded
            /\ build'[b].calm = build[b].calm
        BY <3>1, <4>1 DEF Builds
      <4> QED BY <1>2, <1>4, <2>a, <4>2
    <3>7. CASE CheckDestination(b)
      <4>1. build' = [build EXCEPT ![b] = [build[b] EXCEPT !.step = "replace"]]
        BY <1>4, <3>1, <3>7 DEF CheckDestination, Finish
      <4>2. /\ build'[b].step = "replace"
            /\ build'[b].claims = build[b].claims
            /\ build'[b].superseded = build[b].superseded
            /\ build'[b].calm = build[b].calm
        BY <3>1, <4>1 DEF Builds
      <4>3. build[b].step = "read_records"
        BY <3>7 DEF CheckDestination, Building
      <4> QED BY <1>2, <1>4, <2>a, <4>2, <4>3
    <3>8. CASE ReplaceDirectory(b) \/ AbandonBuild(b)
      BY <1>4, <3>1, <3>8 DEF ReplaceDirectory, AbandonBuild, Finish
    <3> QED BY <2>1, <3>2, <3>3, <3>4, <3>5, <3>6, <3>7, <3>8 DEF BuildStep
  <2> QED
    BY <2>1, <2>a
    DEF BuildStep, VerifyStore, ListClaims, ReadCorrections, ListRecords,
        ReadRecordAndRows, CheckDestination, ReplaceDirectory, AbandonBuild,
        Building
<1> QED BY <1>3, <1>4 DEF CalmInv

\* Calm builds know the store as it is.
LEMMA CalmInvariant ==
  ASSUME Solo
  PROVE  SnapshotSpec => []CalmInv
<1>1. SnapshotInit => CalmInv
  BY DEF SnapshotInit, CalmInv
<1>2. SoloInv /\ SnapshotInv /\ CalmInv /\ [SnapshotNext]_allVars => CalmInv'
  <2> SUFFICES ASSUME SoloInv, SnapshotInv, CalmInv, [SnapshotNext]_allVars
               PROVE  CalmInv'
    OBVIOUS
  <2>1. CASE ServiceStep
    <3>1. \A b \in Builders : build[b] # Idle => ~build'[b].calm
      BY <2>1, AtBuild DEF ServiceStep, Builds
    <3>2. \A b \in Builders : build[b] = Idle => build'[b] = Idle
      BY <2>1 DEF ServiceStep
    <3> QED BY <3>1, <3>2 DEF CalmInv
  <2>2. ASSUME NEW b \in Builders, BuildStep(b), UNCHANGED vars
        PROVE  CalmInv'
    BY <2>2, CalmSound
  <2>3. CASE UNCHANGED allVars
    <3>1. /\ build' = build /\ records' = records /\ corrections' = corrections
      BY <2>3 DEF allVars, vars, storeVars, snapshotVars
    <3> QED BY <3>1 DEF CalmInv, CalmKnows, Stored, Corrected
  <2> QED BY <2>1, <2>2, <2>3 DEF SnapshotNext
<1>3. SnapshotSpec => []SoloInv
  BY ServiceUndisturbed, SoloInvariant, PTL
<1> QED BY <1>1, <1>2, <1>3, SnapshotInvariant, PTL DEF SnapshotSpec

\* A build that no writer disturbed shows the current claims of the store.
THEOREM CalmAlwaysCurrent ==
  ASSUME Solo
  PROVE  SnapshotSpec => []CalmSupersession
<1>1. SnapshotInv /\ CalmInv => CalmSupersession
  <2> SUFFICES ASSUME SnapshotInv, CalmInv, NEW b \in Builders,
                      build[b] # Idle, build[b].calm,
                      build[b].step \in {"read_records", "replace"},
                      NEW r \in DOMAIN build[b].sources
               PROVE  LET s == build[b].superseded[r]
                      IN /\ Corrected(r) <=> s # Absent
                         /\ s # Absent => build[b].superseded[s] = Absent
    BY DEF CalmSupersession
  <2>1. r \in RecordIds
    BY AtBuild, BuildTyped
  <2> QED BY <2>1 DEF CalmInv, CalmKnows, SourceSteps
<1> QED BY <1>1, SnapshotInvariant, CalmInvariant, PTL
=============================================================================
