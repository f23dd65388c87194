----------------------------- MODULE OutcomeProofs ----------------------------
(***************************************************************************)
(* The outcome store: what is true of record files, the ledger and reports *)
(* in every state, however many ingest at once and wherever they stop.     *)
(***************************************************************************)
EXTENDS PackProofs, WellFoundedInduction

-----------------------------------------------------------------------------
(***************************************************************************)
(* Outcomes and their files.                                               *)
(***************************************************************************)

\* What is observed of installed packs may be observed of some packs.
LEMMA ObservedTyped ==
  ASSUME PackInv
  PROVE  Observed \subseteq Observable(Packs)
<1>1. Installable \subseteq Packs
  <2> SUFFICES ASSUME NEW channel \in Channels, indexes[channel] # None,
                      NEW m \in indexes[channel].history
               PROVE  m.pack \in Packs
    BY DEF Installable
  <2>1. m \in manifests
    BY DEF PackInv, ChannelsInv, IndexSound
  <2> QED BY <2>1 DEF PackInv, ManifestsInv, Manifests
<1> QED BY <1>1 DEF Observed, Observable

\* An outcome is not half a file.
LEMMA Whole == \A o \in Observable(Packs) : o # Damaged
BY DamagedAssumption

\* A record is the only file of its identity, and whole.
LEMMA RecordedAlone ==
  ASSUME FilesInv, NEW o \in Observable(Packs), Recorded(o)
  PROVE  /\ [id |-> Identity(o), content |-> Damaged] \notin files
         /\ File(Identity(o)) = {[id |-> Identity(o), content |-> o]}
<1> DEFINE own == [id |-> Identity(o), content |-> o]
<1>1. own \in files /\ own.id = Identity(o) /\ own.content = o
  BY DEF Recorded
<1>2. \A f \in files : f.id = Identity(o) => f = own
  BY <1>1 DEF FilesInv
<1>3. [id |-> Identity(o), content |-> Damaged] # own
  BY Whole
<1> QED BY <1>1, <1>2, <1>3 DEF File

-----------------------------------------------------------------------------
(***************************************************************************)
(* Ingestion, step by step.                                                *)
(***************************************************************************)

\* What a step of one ingestion does to the others.
OthersStay(i) ==
  /\ DOMAIN ingests' = Ingesters
  /\ \A j \in Ingesters \ {i} : ingests'[j] = ingests[j]

\* An ingestion changes its own entry only.
LEMMA IngestStep ==
  ASSUME DOMAIN ingests = Ingesters, NEW i \in Ingesters, NEW new,
         ingests' = [ingests EXCEPT ![i] = new]
  PROVE  OthersStay(i) /\ ingests'[i] = new
BY DEF OthersStay

\* CheckRecord takes an outcome nobody has a file of, or one that is there.
LEMMA CheckKeeps ==
  ASSUME PackInv, OutcomeInv, NEW i \in Ingesters, NEW outcome \in Observed,
         CheckRecord(i, outcome)
  PROVE  OutcomeInv'
<1>1. UNCHANGED <<files, ledger, answered, report, reports>>
  BY DEF CheckRecord
<1>2. PICK step, status :
        /\ ingests' = [ingests EXCEPT ![i] =
                         [outcome |-> outcome, step |-> step, status |-> status]]
        /\ \/ step = "create" /\ status = "accepted"
           \/ /\ step = "journal" /\ status = "duplicate"
              /\ [id |-> Identity(outcome), content |-> outcome] \in files
  <2>1. \/ Ingesting(i, outcome, "create", "accepted")
        \/ /\ Ingesting(i, outcome, "journal", "duplicate")
           /\ File(Identity(outcome)) = {[id |-> Identity(outcome), content |-> outcome]}
    BY DEF CheckRecord
  <2>2. File(Identity(outcome)) \subseteq files
    BY DEF File
  <2> QED BY <2>1, <2>2 DEF Ingesting
<1> DEFINE new == [outcome |-> outcome, step |-> step, status |-> status]
<1>3. OthersStay(i) /\ ingests'[i] = new
  BY <1>2, IngestStep DEF OutcomeInv
<1>4. /\ new.outcome = outcome /\ new.step = step /\ new.status = status
      /\ outcome \in Observable(Packs)
  BY ObservedTyped
<1> HIDE DEF new
<1>5. ASSUME NEW j \in Ingesters, ingests'[j] # None
      PROVE  IngestAt(j)'
  <2>1. CASE j = i
    BY <1>1, <1>2, <1>3, <1>4, <2>1 DEF IngestAt, Recorded
  <2>2. CASE j # i
    <3>1. ingests'[j] = ingests[j] /\ IngestAt(j)
      BY <1>3, <1>5, <2>2 DEF OutcomeInv, OthersStay
    <3>2. \A k \in Ingesters \ {j, i} : ingests'[k] = ingests[k]
      BY <1>3 DEF OthersStay
    <3>3. /\ ingests'[i].step # "write"
          /\ ~(ingests'[i].step = "journal" /\ ingests'[i].status = "accepted")
      BY <1>2, <1>3, <1>4
    <3> QED BY <1>1, <3>1, <3>2, <3>3 DEF IngestAt, Recorded
  <2> QED BY <2>1, <2>2
<1>6. FilesInv' /\ LedgerInv' /\ ReportInv' /\ ReportsCountAnswered' /\ BuiltInv'
  BY <1>1 DEF OutcomeInv, FilesInv, LedgerInv, ReportInv, Recorded, ReportsCountAnswered, BuiltInv
<1> QED BY <1>3, <1>5, <1>6 DEF OutcomeInv, OthersStay

\* CreateRecord makes the only file of its identity, or gives up.
LEMMA CreateKeeps ==
  ASSUME OutcomeInv, NEW i \in Ingesters, CreateRecord(i)
  PROVE  OutcomeInv'
<1> DEFINE outcome == ingests[i].outcome
           id == Identity(outcome)
           torn == [id |-> id, content |-> Damaged]
<1>1. /\ ingests[i] # None /\ IngestAt(i)
      /\ UNCHANGED <<ledger, answered, report, reports>>
  BY DEF CreateRecord, OutcomeInv
<1>2. CASE /\ File(id) = {}
           /\ files' = files \cup {torn}
           /\ Ingesting(i, outcome, "write", "accepted")
  <2> DEFINE new == [outcome |-> outcome, step |-> "write", status |-> "accepted"]
  <2>1. OthersStay(i) /\ ingests'[i] = new
    BY <1>2, IngestStep DEF OutcomeInv, Ingesting
  <2>2. /\ files \subseteq files' /\ torn \in files'
        /\ \A f \in files : f.id # id
    BY <1>2 DEF File
  <2>3. outcome \in Observable(Packs)
    BY <1>1 DEF IngestAt
  <2>4. FilesInv'
    <3>1. /\ torn.id = id /\ torn.content = Damaged
          /\ torn = [id |-> torn.id, content |-> torn.content]
      OBVIOUS
    <3> HIDE DEF torn
    <3>2. IsFiniteSet(files')
      BY <1>2, FS_AddElement DEF OutcomeInv, FilesInv
    <3> QED BY <1>2, <2>2, <3>1, <3>2 DEF OutcomeInv, FilesInv
  <2>5. ASSUME NEW j \in Ingesters, ingests'[j] # None
        PROVE  IngestAt(j)'
    <3>1. \A k \in Ingesters \ {i} :
            ingests[k] # None /\ ingests[k].step = "write" =>
              Identity(ingests[k].outcome) # id
      BY <2>2 DEF OutcomeInv, IngestAt
    <3>2. CASE j = i
      <4>1. /\ ingests'[i].outcome = outcome
            /\ ingests'[i].step = "write" /\ ingests'[i].status = "accepted"
        BY <2>1
      <4>2. \A k \in Ingesters \ {i} : ingests'[k] = ingests[k]
        BY <2>1 DEF OthersStay
      <4> HIDE DEF outcome
      <4> QED BY <2>2, <2>3, <3>1, <3>2, <4>1, <4>2 DEF IngestAt
    <3>3. CASE j # i
      <4>1. ingests'[j] = ingests[j] /\ IngestAt(j)
        BY <2>1, <2>5, <3>3 DEF OutcomeInv, OthersStay
      <4>2. \A k \in Ingesters \ {j, i} : ingests'[k] = ingests[k]
        BY <2>1 DEF OthersStay
      <4>3. ingests'[i].step = "write" /\ ingests'[i].outcome = outcome
        BY <2>1
      <4>4. ingests[j].step = "write" => Identity(ingests[j].outcome) # id
        BY <2>5, <3>1, <3>3, <4>1
      <4> QED BY <1>1, <2>2, <4>1, <4>2, <4>3, <4>4 DEF IngestAt, Recorded
    <3> QED BY <3>2, <3>3
  <2>6. LedgerInv' /\ ReportInv' /\ ReportsCountAnswered' /\ BuiltInv'
    BY <1>1, <2>2 DEF OutcomeInv, LedgerInv, ReportInv, Recorded, ReportsCountAnswered, BuiltInv
  <2> QED BY <2>1, <2>4, <2>5, <2>6 DEF OutcomeInv, OthersStay
<1>3. CASE /\ ingests' = [ingests EXCEPT ![i] = None]
           /\ UNCHANGED files
  <2>1. OthersStay(i) /\ ingests'[i] = None
    BY <1>3, IngestStep DEF OutcomeInv
  <2>2. \A j \in Ingesters : ingests'[j] # None => IngestAt(j)'
    BY <1>1, <1>3, <2>1 DEF OutcomeInv, IngestAt, Recorded, OthersStay
  <2> QED
    BY <1>1, <1>3, <2>1, <2>2
    DEF OutcomeInv, OthersStay, FilesInv, LedgerInv, ReportInv, Recorded,
        ReportsCountAnswered, BuiltInv
<1> QED BY <1>2, <1>3 DEF CreateRecord

\* WriteRecord makes its half-written file whole: no other file changes, and
\* nobody else has accepted the outcome.
LEMMA WriteKeeps ==
  ASSUME OutcomeInv, NEW i \in Ingesters, WriteRecord(i)
  PROVE  OutcomeInv'
<1> DEFINE outcome == ingests[i].outcome
           id == Identity(outcome)
           torn == [id |-> id, content |-> Damaged]
           whole == [id |-> id, content |-> outcome]
           new == [outcome |-> outcome, step |-> "journal", status |-> "accepted"]
<1>1. /\ ingests[i] # None /\ ingests[i].step = "write" /\ IngestAt(i)
      /\ files' = (files \ File(id)) \cup {whole}
      /\ Ingesting(i, outcome, "journal", "accepted")
      /\ UNCHANGED <<ledger, answered, report, reports>>
  BY DEF WriteRecord, OutcomeInv
<1>2. OthersStay(i) /\ ingests'[i] = new
  BY <1>1, IngestStep DEF OutcomeInv, Ingesting
<1>3. /\ ingests'[i].outcome = outcome
      /\ ingests'[i].step = "journal" /\ ingests'[i].status = "accepted"
  BY <1>2
<1>4. outcome \in Observable(Packs) /\ torn \in files
  BY <1>1 DEF IngestAt
<1>5. /\ whole.id = id /\ whole.content = outcome /\ torn.id = id /\ torn.content = Damaged
      /\ outcome # Damaged /\ torn # whole
  BY <1>4, Whole
<1>6. \A f \in files : f.id = id <=> f = torn
  BY <1>4, <1>5 DEF OutcomeInv, FilesInv
<1>7. files' = (files \ {torn}) \cup {whole}
  BY <1>1, <1>4, <1>6 DEF File
<1>8. \A o \in Observable(Packs) :
        Recorded(o) => Identity(o) # id /\ [id |-> Identity(o), content |-> o] \in files'
  <2> SUFFICES ASSUME NEW o \in Observable(Packs), Recorded(o)
               PROVE  Identity(o) # id /\ [id |-> Identity(o), content |-> o] \in files'
    OBVIOUS
  <2>1. [id |-> Identity(o), content |-> Damaged] \notin files
    BY RecordedAlone DEF OutcomeInv
  <2>2. Identity(o) # id
    BY <1>4, <2>1
  <2> QED BY <1>7, <2>2 DEF Recorded
<1>9. FilesInv'
  <2> HIDE DEF torn, whole, id
  <2>1. \A f \in files' : (f \in files /\ f.id # id) \/ f = whole
    BY <1>6, <1>7
  <2>2. whole = [id |-> whole.id, content |-> whole.content]
    BY DEF whole
  <2>3. Identity(whole.content) = whole.id
    BY <1>5 DEF id
  <2>4. IsFiniteSet(files')
    <3>1. IsFiniteSet(files \ {torn})
      BY FS_RemoveElement DEF OutcomeInv, FilesInv
    <3> QED BY <1>7, <3>1, FS_AddElement
  <2> QED BY <1>5, <2>1, <2>2, <2>3, <2>4 DEF OutcomeInv, FilesInv
<1> HIDE DEF outcome, new
<1>10. \A k \in DOMAIN ledger :
         /\ ledger[k].id # id
         /\ [id |-> ledger[k].id, content |-> ledger[k].document] \in files'
  <2> SUFFICES ASSUME NEW k \in DOMAIN ledger
               PROVE  /\ ledger[k].id # id
                      /\ [id |-> ledger[k].id, content |-> ledger[k].document] \in files'
    OBVIOUS
  <2> DEFINE own == [id |-> ledger[k].id, content |-> ledger[k].document]
  <2>1. own \in files
    BY DEF OutcomeInv, LedgerInv
  <2>2. ledger[k].document \in Observable(Packs)
    <3>1. ledger[k] \in LedgerEntries
      BY LenProperties, ElementOfSeq DEF OutcomeInv, LedgerInv
    <3> QED BY <3>1 DEF LedgerEntries
  <2>3. own.id = ledger[k].id /\ own.content # Damaged
    BY <2>2, Whole
  <2>4. own # torn
    BY <1>5, <2>3
  <2> QED BY <1>6, <1>7, <2>1, <2>3, <2>4
<1>11. ASSUME NEW j \in Ingesters, ingests'[j] # None
       PROVE  IngestAt(j)'
  <2>1. \A k \in Ingesters \ {i} :
          ingests[k] # None /\ ingests[k].step = "write" =>
            Identity(ingests[k].outcome) # id
    BY <1>1 DEF IngestAt, outcome
  <2>2. \A k \in Ingesters \ {i} :
          ingests[k] # None /\ ingests[k].step = "journal" =>
            Identity(ingests[k].outcome) # id
    BY <1>8 DEF OutcomeInv, IngestAt
  <2>3. \A k \in Ingesters \ {i} : ingests'[k] = ingests[k]
    BY <1>2 DEF OthersStay
  <2>4. CASE j = i
    BY <1>1, <1>3, <1>4, <1>7, <1>10, <2>2, <2>3, <2>4 DEF IngestAt, Recorded
  <2>5. CASE j # i
    <3>1. ingests'[j] = ingests[j] /\ IngestAt(j) /\ ingests[j] # None
      BY <1>11, <2>3, <2>5 DEF OutcomeInv
    <3>2. \A k \in Ingesters \ {j, i} : ingests'[k] = ingests[k]
      BY <2>3
    <3>3. ingests[j].step \in {"write", "journal"} => Identity(ingests[j].outcome) # id
      BY <2>1, <2>2, <2>5, <3>1
    <3>4. ingests[j].step = "write" =>
            [id |-> Identity(ingests[j].outcome), content |-> Damaged] \in files'
      <4>1. [id |-> Identity(ingests[j].outcome), content |-> Damaged].id
            = Identity(ingests[j].outcome)
        OBVIOUS
      <4> QED BY <1>5, <1>7, <3>1, <3>3, <4>1 DEF IngestAt
    <3>5. ingests[j].step = "journal" =>
            [id |-> Identity(ingests[j].outcome), content |-> ingests[j].outcome] \in files'
      BY <1>8, <3>1 DEF IngestAt
    <3> QED BY <1>1, <1>3, <3>1, <3>2, <3>3, <3>4, <3>5 DEF IngestAt, Recorded
  <2> QED BY <2>4, <2>5
<1>12. LedgerInv'
  BY <1>1, <1>10 DEF OutcomeInv, LedgerInv
<1>13. ReportInv'
  BY <1>1, <1>8 DEF OutcomeInv, ReportInv, Recorded
<1>14. ReportsCountAnswered' /\ BuiltInv'
  BY <1>1 DEF OutcomeInv, ReportsCountAnswered, BuiltInv
<1> QED BY <1>2, <1>9, <1>11, <1>12, <1>13, <1>14 DEF OutcomeInv, OthersStay

\* JournalOutcome appends the only accepted line of its identity.
LEMMA JournalKeeps ==
  ASSUME OutcomeInv, NEW i \in Ingesters, JournalOutcome(i)
  PROVE  OutcomeInv'
<1> DEFINE outcome == ingests[i].outcome
           id == Identity(outcome)
           line == [id |-> id, document |-> outcome, status |-> ingests[i].status]
<1>1. /\ ingests[i] # None /\ ingests[i].step = "journal" /\ IngestAt(i)
      /\ ledger' = Append(ledger, line)
      /\ answered' = answered \cup {outcome}
      /\ ingests' = [ingests EXCEPT ![i] = None]
      /\ UNCHANGED <<files, report, reports>>
  BY DEF JournalOutcome, OutcomeInv
<1>2. OthersStay(i) /\ ingests'[i] = None
  BY <1>1, IngestStep DEF OutcomeInv
<1>3. outcome \in Observable(Packs) /\ Recorded(outcome)
  BY <1>1 DEF IngestAt
<1>4. line.id = id /\ line.document = outcome /\ line.status = ingests[i].status
  OBVIOUS
<1>5. line \in LedgerEntries
  BY <1>1, <1>3 DEF IngestAt, LedgerEntries
<1> HIDE DEF line, outcome
<1>6. PICK n \in Nat : n = Len(ledger) + 1
  <2>1. Len(ledger) \in Nat
    BY LenProperties DEF OutcomeInv, LedgerInv
  <2> QED BY <2>1
<1>7. /\ ledger' \in Seq(LedgerEntries)
      /\ DOMAIN ledger = 1 .. n - 1 /\ DOMAIN ledger' = 1 .. n
      /\ \A k \in 1 .. n - 1 : ledger'[k] = ledger[k]
      /\ ledger'[n] = line
  <2>1. /\ DOMAIN ledger = 1 .. Len(ledger)
        /\ ledger' \in Seq(LedgerEntries) /\ Len(ledger') = Len(ledger) + 1
        /\ \A k \in 1 .. Len(ledger) : ledger'[k] = ledger[k]
        /\ ledger'[Len(ledger) + 1] = line
    BY <1>1, <1>5, LenProperties, AppendProperties DEF OutcomeInv, LedgerInv
  <2>2. DOMAIN ledger' = 1 .. Len(ledger')
    BY <2>1, LenProperties
  <2>3. Len(ledger) \in Nat
    BY LenProperties DEF OutcomeInv, LedgerInv
  <2> QED BY <1>6, <2>1, <2>2, <2>3
<1>8. \A k \in DOMAIN ledger' :
        \/ k \in DOMAIN ledger /\ ledger'[k] = ledger[k]
        \/ k = n /\ ledger'[k] = line
  BY <1>6, <1>7
<1>9. ingests[i].status = "accepted" =>
        \A k \in DOMAIN ledger : ledger[k].id = id => ledger[k].status # "accepted"
  BY <1>1 DEF IngestAt, outcome
<1>10. LedgerInv'
  <2>1. ASSUME NEW a \in DOMAIN ledger', NEW b \in DOMAIN ledger',
               ledger'[a].id = ledger'[b].id,
               ledger'[a].status = "accepted", ledger'[b].status = "accepted"
        PROVE  a = b
    BY <1>4, <1>8, <1>9, <2>1 DEF OutcomeInv, LedgerInv
  <2>2. ASSUME NEW k \in DOMAIN ledger'
        PROVE  [id |-> ledger'[k].id, content |-> ledger'[k].document] \in files'
    BY <1>1, <1>3, <1>4, <1>8 DEF OutcomeInv, LedgerInv, Recorded
  <2> QED BY <1>7, <2>1, <2>2 DEF LedgerInv
<1>11. ASSUME NEW j \in Ingesters, ingests'[j] # None
       PROVE  IngestAt(j)'
  <2>1. j # i /\ ingests'[j] = ingests[j] /\ IngestAt(j) /\ ingests[j] # None
    BY <1>2, <1>11 DEF OutcomeInv, OthersStay
  <2>2. \A k \in Ingesters : ingests'[k] # None => k # i /\ ingests'[k] = ingests[k]
    BY <1>2 DEF OthersStay
  <2>3. /\ ingests[j].step = "journal" /\ ingests[j].status = "accepted"
        /\ ingests[i].status = "accepted"
        => Identity(ingests[j].outcome) # id
    BY <1>1, <2>1 DEF IngestAt, outcome
  <2>4. ingests[j].step = "journal" /\ ingests[j].status = "accepted" =>
          \A k \in DOMAIN ledger' :
            ledger'[k].id = Identity(ingests[j].outcome) => ledger'[k].status # "accepted"
    BY <1>4, <1>8, <2>1, <2>3 DEF IngestAt
  <2> QED BY <1>1, <2>1, <2>2, <2>4 DEF IngestAt, Recorded
<1>12. ReportInv'
  BY <1>1, <1>3 DEF OutcomeInv, ReportInv, Recorded
<1>13. FilesInv' /\ ReportsCountAnswered' /\ BuiltInv'
  BY <1>1 DEF OutcomeInv, FilesInv, ReportsCountAnswered, BuiltInv
<1> QED BY <1>2, <1>10, <1>11, <1>12, <1>13 DEF OutcomeInv, OthersStay

\* An ingestion that stops leaves what is there.
LEMMA StopKeeps ==
  ASSUME OutcomeInv, NEW i \in Ingesters, StopIngest(i)
  PROVE  OutcomeInv'
<1>1. /\ ingests' = [ingests EXCEPT ![i] = None]
      /\ UNCHANGED <<files, ledger, answered, report, reports>>
  BY DEF StopIngest
<1>2. OthersStay(i) /\ ingests'[i] = None
  BY <1>1, IngestStep DEF OutcomeInv
<1>3. \A j \in Ingesters : ingests'[j] # None => IngestAt(j)'
  BY <1>1, <1>2 DEF OutcomeInv, IngestAt, Recorded, OthersStay
<1> QED
  BY <1>1, <1>2, <1>3
  DEF OutcomeInv, OthersStay, FilesInv, LedgerInv, ReportInv, Recorded,
      ReportsCountAnswered, BuiltInv

-----------------------------------------------------------------------------
(***************************************************************************)
(* Reports.                                                                *)
(***************************************************************************)

\* A report begins with everything that was answered, for it is all in files.
LEMMA ListKeeps ==
  ASSUME OutcomeInv, NEW pack, ListOutcomes(pack)
  PROVE  OutcomeInv'
<1>1. UNCHANGED <<files, ledger, ingests, answered, reports>>
  BY DEF ListOutcomes
<1>2. report'.answered = answered /\ report'.listed = {f.id : f \in files}
  BY DEF ListOutcomes
<1>3. \A o \in answered : Identity(o) \in {f.id : f \in files}
  <2> SUFFICES ASSUME NEW o \in answered
               PROVE  \E f \in files : f.id = Identity(o)
    OBVIOUS
  <2> DEFINE own == [id |-> Identity(o), content |-> o]
  <2>1. own \in files /\ own.id = Identity(o)
    BY DEF OutcomeInv, ReportInv, Recorded
  <2> QED BY <2>1
<1>4. ReportInv'
  BY <1>1, <1>2, <1>3 DEF OutcomeInv, ReportInv, Recorded
<1> QED
  BY <1>1, <1>4
  DEF OutcomeInv, FilesInv, IngestAt, LedgerInv, Recorded, ReportsCountAnswered, BuiltInv

\* What is counted is what the listed files hold, of which there is one for
\* each identity.
LEMMA BuildKeeps ==
  ASSUME OutcomeInv, BuildReport
  PROVE  OutcomeInv'
<1> DEFINE outcomes == {o \in {f.content : f \in Listed} : o.pack = report.pack}
<1>1. /\ report # None
      /\ \A f \in Listed : f.content # Damaged
      /\ report' = None
      /\ UNCHANGED <<files, ledger, ingests, answered>>
  BY DEF BuildReport
<1>2. PICK new : /\ reports' = reports \cup {new}
                 /\ new.pack = report.pack /\ new.answered = report.answered
                 /\ new.outcomes = outcomes
                 /\ new.recommendation = PackRecommendation(RuleMetrics(outcomes))
  <2> DEFINE rows == RuleMetrics(outcomes)
             built == [pack |-> report.pack, answered |-> report.answered,
                       outcomes |-> outcomes,
                       rules |-> {<<row.rule, RuleRecommendation(row)>> : row \in rows},
                       recommendation |-> PackRecommendation(rows)]
  <2>1. reports' = reports \cup {built}
    BY DEF BuildReport
  <2>2. /\ built.pack = report.pack /\ built.answered = report.answered
        /\ built.outcomes = outcomes
        /\ built.recommendation = PackRecommendation(RuleMetrics(outcomes))
    OBVIOUS
  <2> HIDE DEF built
  <2> QED BY <2>1, <2>2
<1>3. {o \in new.answered : o.pack = new.pack} \subseteq new.outcomes
  <2> SUFFICES ASSUME NEW o \in report.answered, o.pack = report.pack
               PROVE  \E f \in Listed : f.content = o
    BY <1>2
  <2> DEFINE own == [id |-> Identity(o), content |-> o]
  <2>1. own \in files /\ Identity(o) \in report.listed
    BY <1>1 DEF OutcomeInv, ReportInv, Recorded
  <2>2. own.id = Identity(o) /\ own.content = o
    OBVIOUS
  <2> QED BY <2>1, <2>2 DEF Listed
<1>4. \A o, p \in new.outcomes : Identity(o) = Identity(p) => o = p
  <2> SUFFICES ASSUME NEW f \in Listed, NEW g \in Listed,
                      Identity(f.content) = Identity(g.content)
               PROVE  f.content = g.content
    BY <1>2
  <2>1. /\ f \in files /\ g \in files
        /\ f.id = Identity(f.content) /\ g.id = Identity(g.content)
    BY <1>1 DEF Listed, OutcomeInv, FilesInv
  <2> QED BY <2>1 DEF OutcomeInv, FilesInv
<1>5. ReportsCountAnswered'
  BY <1>2, <1>3, <1>4 DEF OutcomeInv, ReportsCountAnswered
<1>6. ReportInv'
  BY <1>1 DEF OutcomeInv, ReportInv, Recorded
<1>7. BuiltInv'
  <2>1. IsFiniteSet(Listed)
    BY FS_Subset DEF Listed, OutcomeInv, FilesInv
  <2> DEFINE contents == {f.content : f \in Listed}
             content == [f \in Listed |-> f.content]
  <2>2. IsFiniteSet({content[f] : f \in Listed}) /\ contents = {content[f] : f \in Listed}
    BY <2>1, FiniteValues
  <2> HIDE DEF contents, content
  <2>3. IsFiniteSet({o \in contents : o.pack = report.pack})
    BY <2>2, FS_Subset
  <2>4. IsFiniteSet(outcomes)
    BY <2>3 DEF contents
  <2> HIDE DEF outcomes
  <2> QED BY <1>2, <2>4 DEF OutcomeInv, BuiltInv
<1> QED
  BY <1>1, <1>5, <1>6, <1>7 DEF OutcomeInv, FilesInv, IngestAt, LedgerInv, Recorded

-----------------------------------------------------------------------------
(***************************************************************************)
(* Recommendations: what metrics count is what the outcomes are.           *)
(***************************************************************************)

\* A sum over a finite set is any function that adds up like it.
LEMMA TotalUnique ==
  ASSUME NEW rows, IsFiniteSet(rows), NEW field, NEW G,
         G = [s \in SUBSET rows |-> G[s]], G[{}] = 0,
         \A s \in SUBSET rows : \A x \in s : G[s] = G[s \ {x}] + x[field]
  PROVE  Total(rows, field) = G[rows]
<1> DEFINE first(s) == CHOOSE x \in s : TRUE
           Def(f) == f = [s \in SUBSET rows |->
                            IF s = {} THEN 0 ELSE f[s \ {first(s)}] + first(s)[field]]
           iter == CHOOSE f : Def(f)
<1>1. Total(rows, field) = iter[rows]
  BY DEF Total, FoldSet, MapThenFoldSet
<1>2. Def(G)
  <2>1. \A s \in SUBSET rows : s # {} => first(s) \in s
    OBVIOUS
  <2> HIDE DEF first
  <2>2. \A s \in SUBSET rows :
          G[s] = IF s = {} THEN 0 ELSE G[s \ {first(s)}] + first(s)[field]
    BY <2>1
  <2> QED BY <2>2
<1>3. Def(iter)
  <2> HIDE DEF Def
  <2> QED BY <1>2
<1> HIDE DEF iter
<1> DEFINE bad == {s \in SUBSET rows : iter[s] # G[s]}
<1>4. bad = {}
  <2> SUFFICES ASSUME bad # {} PROVE FALSE
    OBVIOUS
  <2>1. IsWellFoundedOn(StrictSubsetOrdering(rows), FiniteSubsetsOf(rows))
    BY FS_StrictSubsetOrderingWellFounded
  <2>2. bad \subseteq FiniteSubsetsOf(rows)
    BY FS_Subset DEF FiniteSubsetsOf
  <2>3. PICK s \in bad : \A t \in bad : ~(<<t, s>> \in StrictSubsetOrdering(rows))
    BY <2>1, <2>2, WFMin
  <2>4. s \in SUBSET rows /\ iter[s] # G[s]
    OBVIOUS
  <2>5. CASE s = {}
    BY <1>3, <2>4, <2>5
  <2>6. CASE s # {}
    <3>1. first(s) \in s
      BY <2>6
    <3>2. iter[s] = iter[s \ {first(s)}] + first(s)[field]
      BY <1>3, <2>4, <2>6
    <3> HIDE DEF first
    <3>3. s \ {first(s)} \in SUBSET rows
      BY <2>4
    <3>4. <<s \ {first(s)}, s>> \in StrictSubsetOrdering(rows)
      BY <2>4, <3>1 DEF StrictSubsetOrdering
    <3>5. iter[s \ {first(s)}] = G[s \ {first(s)}]
      BY <2>3, <3>3, <3>4
    <3> QED BY <2>4, <3>1, <3>2, <3>5
  <2> QED BY <2>5, <2>6
<1> QED BY <1>1, <1>4

\* There is one row for each rule, and no other; its counts are those of the
\* outcomes of the rule.
LEMMA RowsOfRules ==
  ASSUME NEW outcomes, IsFiniteSet(outcomes)
  PROVE  /\ IsFiniteSet(RuleMetrics(outcomes))
         /\ \A row \in RuleMetrics(outcomes) : row.rule \in {o.rule : o \in outcomes}
         /\ \A o \in outcomes : \E row \in RuleMetrics(outcomes) : row.rule = o.rule
         /\ \A row, other \in RuleMetrics(outcomes) : row.rule = other.rule => row = other
         /\ \A row \in RuleMetrics(outcomes) :
              row = RuleMetric(row.rule, {o \in outcomes : o.rule = row.rule})
<1> DEFINE rules == {o.rule : o \in outcomes}
           ruleOf == [o \in outcomes |-> o.rule]
           RowOf(rule) == RuleMetric(rule, {o \in outcomes : o.rule = rule})
           rowOf == [rule \in rules |-> RowOf(rule)]
<1>1. IsFiniteSet({ruleOf[o] : o \in outcomes}) /\ rules = {ruleOf[o] : o \in outcomes}
  BY FiniteValues
<1>2. \A rule : RowOf(rule).rule = rule
  BY DEF RuleMetric
<1> HIDE DEF RowOf
<1>3. IsFiniteSet({rowOf[rule] : rule \in rules})
  <2>1. IsFiniteSet(rules)
    BY <1>1
  <2>2. DOMAIN rowOf = rules /\ rowOf = [rule \in rules |-> rowOf[rule]]
    OBVIOUS
  <2> HIDE DEF rules, rowOf
  <2> QED BY <2>1, <2>2, FiniteValues
<1>4. RuleMetrics(outcomes) = {RowOf(rule) : rule \in rules}
  BY DEF RuleMetrics, RowOf
<1>5. RuleMetrics(outcomes) = {rowOf[rule] : rule \in rules}
  BY <1>4
<1>6. \A row \in RuleMetrics(outcomes) : row.rule \in rules /\ row = RowOf(row.rule)
  BY <1>2, <1>4
<1>7. \A rule \in rules : \E row \in RuleMetrics(outcomes) : row.rule = rule
  BY <1>2, <1>4
<1>8. IsFiniteSet(RuleMetrics(outcomes))
  BY <1>3, <1>5
<1>9. \A o \in outcomes : o.rule \in rules
  OBVIOUS
<1>10. \A row, other \in RuleMetrics(outcomes) : row.rule = other.rule => row = other
  BY <1>6
<1>11. \A row \in RuleMetrics(outcomes) :
         row = RuleMetric(row.rule, {o \in outcomes : o.rule = row.rule})
  BY <1>6 DEF RowOf
<1> HIDE DEF rules
<1>12. \A o \in outcomes : \E row \in RuleMetrics(outcomes) : row.rule = o.rule
  BY <1>7, <1>9
<1>13. \A row \in RuleMetrics(outcomes) : row.rule \in rules
  BY <1>6
<1> QED BY <1>8, <1>10, <1>11, <1>12, <1>13 DEF rules

\* What the rows have in a field that counts outcomes of their rules is, together,
\* what there is of such outcomes.
LEMMA TotalCounts ==
  ASSUME NEW outcomes, IsFiniteSet(outcomes), NEW counted \in SUBSET outcomes, NEW field,
         \A row \in RuleMetrics(outcomes) :
           row[field] = Cardinality({o \in counted : o.rule = row.rule})
  PROVE  Total(RuleMetrics(outcomes), field) = Cardinality(counted)
<1> DEFINE rows == RuleMetrics(outcomes)
           In(s) == {o \in counted : \E row \in s : row.rule = o.rule}
           G == [s \in SUBSET rows |-> Cardinality(In(s))]
<1>1. IsFiniteSet(counted)
  BY FS_Subset
<1>2. /\ IsFiniteSet(rows)
      /\ \A o \in outcomes : \E row \in rows : row.rule = o.rule
      /\ \A row, other \in rows : row.rule = other.rule => row = other
  BY RowsOfRules
<1> HIDE DEF rows
<1>3. G = [s \in SUBSET rows |-> G[s]]
  OBVIOUS
<1>4. G[{}] = 0
  <2>1. In({}) = {}
    OBVIOUS
  <2> QED BY <2>1, FS_EmptySet
<1>5. ASSUME NEW s \in SUBSET rows, NEW x \in s
      PROVE  G[s] = G[s \ {x}] + x[field]
  <2> DEFINE rest == In(s \ {x})
             own == {o \in counted : o.rule = x.rule}
  <2>1. In(s) = rest \cup own
    OBVIOUS
  <2>2. rest \cap own = {}
    BY <1>2
  <2>3. rest \subseteq counted /\ own \subseteq counted
    OBVIOUS
  <2>4. G[s] = Cardinality(In(s)) /\ G[s \ {x}] = Cardinality(rest)
    OBVIOUS
  <2>5. x[field] = Cardinality(own)
    BY DEF rows
  <2> HIDE DEF rest, own, In, G
  <2>6. IsFiniteSet(rest) /\ IsFiniteSet(own)
    BY <1>1, <2>3, FS_Subset
  <2>7. Cardinality(rest) \in Nat /\ Cardinality(own) \in Nat
    BY <2>6, FS_CardinalityType
  <2>8. Cardinality(rest \cup own) = Cardinality(rest) + Cardinality(own) - Cardinality(rest \cap own)
    BY <2>6, FS_Union
  <2>9. Cardinality(rest \cap own) = 0
    BY <2>2, FS_EmptySet
  <2> QED BY <2>1, <2>4, <2>5, <2>7, <2>8, <2>9
<1>6. In(rows) = counted
  BY <1>2
<1>7. G[rows] = Cardinality(counted)
  BY <1>6
<1> HIDE DEF G, In
<1>8. Total(rows, field) = G[rows]
  BY <1>2, <1>3, <1>4, <1>5, TotalUnique
<1> QED BY <1>7, <1>8 DEF rows

\* The thresholds, of a number of outcomes among all that tell about it.
LEMMA ThresholdReached ==
  ASSUME NEW bad \in Nat, NEW good \in Nat, NEW percent \in 1 .. 99
  PROVE  Reaches(bad, bad + good, percent)
           <=> bad > 0 /\ bad * (100 - percent) >= good * percent
<1>1. bad * (100 - percent) = 100 * bad - bad * percent
  OBVIOUS
<1>2. percent * (bad + good) = bad * percent + good * percent
  OBVIOUS
<1>3. bad * percent \in Nat /\ good * percent \in Nat
  OBVIOUS
<1>4. bad = 0 => bad * percent = 0
  OBVIOUS
<1>5. good > 0 => good * percent > 0
  OBVIOUS
<1> QED BY <1>1, <1>2, <1>3, <1>4, <1>5 DEF Reaches

\* The kinds of outcomes metrics tell apart, and how many there are of a rule.
FalsePositive == {"confirmed_false_positive"}

Dismissed == {"diagnostic_accepted", "diagnostic_dismissed"}

Diagnosed == {"diagnostic_accepted", "diagnostic_dismissed", "confirmed_false_positive"}

Escaped == {"escaped_detection"}

Caught ==
  {"prevented_before_merge", "detected_in_CI", "diagnostic_shown", "diagnostic_accepted"}

Preventable ==
  {"prevented_before_merge", "diagnostic_accepted", "detected_in_CI", "diagnostic_shown",
   "escaped_detection"}

Reverted == {"quick_fix_reverted"}

Kept == {"quick_fix_applied"}

Fixed == {"quick_fix_applied", "quick_fix_reverted"}

Evaluated(outcomes, rule) == Cardinality({o \in outcomes : o.rule = rule})

Count(outcomes, rule, classes) ==
  Cardinality({o \in outcomes : o.rule = rule /\ o.class \in classes})

\* Rules with a sample.
Sampled(outcomes) ==
  {rule \in {o.rule : o \in outcomes} : Evaluated(outcomes, rule) >= MinimumRuleSample}

\* Counts of finitely many outcomes.
LEMMA EvaluatedTyped ==
  ASSUME NEW outcomes, IsFiniteSet(outcomes), NEW rule
  PROVE  Evaluated(outcomes, rule) \in Nat
<1> DEFINE own == {o \in outcomes : o.rule = rule}
<1>1. own \in SUBSET outcomes
  OBVIOUS
<1> HIDE DEF own
<1>2. Cardinality(own) \in Nat
  BY <1>1, FS_Subset, FS_CardinalityType
<1> QED BY <1>2 DEF own, Evaluated

\* Counts of some classes.
LEMMA CountTyped ==
  ASSUME NEW outcomes, IsFiniteSet(outcomes), NEW rule, NEW classes
  PROVE  Count(outcomes, rule, classes) \in Nat
<1> DEFINE own == {o \in outcomes : o.rule = rule /\ o.class \in classes}
<1>1. own \in SUBSET outcomes
  OBVIOUS
<1> HIDE DEF own
<1>2. Cardinality(own) \in Nat
  BY <1>1, FS_Subset, FS_CardinalityType
<1> QED BY <1>2 DEF own, Count

\* What a row of rule metrics counts.
LEMMA RowCounts ==
  ASSUME NEW outcomes, IsFiniteSet(outcomes), NEW row \in RuleMetrics(outcomes)
  PROVE  /\ row.evaluations = Evaluated(outcomes, row.rule)
         /\ row.unknown = Count(outcomes, row.rule, UnknownOutcomes)
         /\ row.falsePositives = Count(outcomes, row.rule, FalsePositive)
         /\ row.diagnostics = Count(outcomes, row.rule, Diagnosed)
         /\ row.escapes = Count(outcomes, row.rule, Escaped)
         /\ row.preventable = Count(outcomes, row.rule, Preventable)
         /\ row.reverted = Count(outcomes, row.rule, Reverted)
         /\ row.fixes = Count(outcomes, row.rule, Fixed)
<1> DEFINE group == {o \in outcomes : o.rule = row.rule}
<1>1. row = RuleMetric(row.rule, group)
  BY RowsOfRules
<1>2. \A classes : Classes(group, classes) = Count(outcomes, row.rule, classes)
  <2> SUFFICES ASSUME NEW classes
               PROVE  Classes(group, classes) = Count(outcomes, row.rule, classes)
    OBVIOUS
  <2>1. {o \in group : o.class \in classes}
        = {o \in outcomes : o.rule = row.rule /\ o.class \in classes}
    OBVIOUS
  <2> HIDE DEF group
  <2> QED BY <2>1 DEF Classes, Count
<1> DEFINE made == RuleMetric(row.rule, group)
<1>3. /\ made.evaluations = Cardinality(group)
      /\ made.unknown = Classes(group, UnknownOutcomes)
      /\ made.falsePositives = Classes(group, FalsePositive)
      /\ made.diagnostics = Classes(group, Diagnosed)
      /\ made.escapes = Classes(group, Escaped)
      /\ made.preventable = Classes(group, Preventable)
      /\ made.reverted = Classes(group, Reverted)
      /\ made.fixes = Classes(group, Fixed)
  <2> HIDE DEF group
  <2> QED BY DEF RuleMetric, FalsePositive, Diagnosed, Escaped, Preventable, Reverted, Fixed
<1> HIDE DEF made
<1>4. row = made
  BY <1>1 DEF made
<1>5. Cardinality(group) = Evaluated(outcomes, row.rule)
  BY DEF Evaluated
<1> HIDE DEF group
<1> QED BY <1>2, <1>3, <1>4, <1>5

\* Outcomes of one class among those of two kinds.
LEMMA ClassesAdd ==
  ASSUME NEW outcomes, IsFiniteSet(outcomes), NEW rule, NEW these, NEW those, NEW all,
         these \cap those = {}, all = these \cup those
  PROVE  /\ Count(outcomes, rule, these) \in Nat /\ Count(outcomes, rule, those) \in Nat
         /\ Count(outcomes, rule, all)
              = Count(outcomes, rule, these) + Count(outcomes, rule, those)
<1> DEFINE A == {o \in outcomes : o.rule = rule /\ o.class \in these}
           B == {o \in outcomes : o.rule = rule /\ o.class \in those}
           C == {o \in outcomes : o.rule = rule /\ o.class \in all}
<1>1. C = A \cup B /\ A \cap B = {} /\ A \subseteq outcomes /\ B \subseteq outcomes
  OBVIOUS
<1> HIDE DEF A, B, C
<1>2. IsFiniteSet(A) /\ IsFiniteSet(B)
  BY <1>1, FS_Subset
<1>3. Cardinality(A) \in Nat /\ Cardinality(B) \in Nat
  BY <1>2, FS_CardinalityType
<1>4. Cardinality(A \cup B) = Cardinality(A) + Cardinality(B) - Cardinality(A \cap B)
  BY <1>2, FS_Union
<1>5. Cardinality(A \cap B) = 0
  BY <1>1, FS_EmptySet
<1>6. Cardinality(C) = Cardinality(A) + Cardinality(B)
  BY <1>1, <1>3, <1>4, <1>5
<1> QED BY <1>3, <1>6 DEF A, B, C, Count

\* What a rule did badly in, with the thresholds for it.
Blame(outcomes, rule, percent, escapes, reverts) ==
  LET Of(classes) == Count(outcomes, rule, classes)
  IN \/ /\ Of(FalsePositive) > 0
        /\ Of(FalsePositive) * (100 - percent) >= Of(Dismissed) * percent
     \/ Of(Escaped) > 0 /\ Of(Escaped) * (100 - escapes) >= Of(Caught) * escapes
     \/ Of(Reverted) > 0 /\ Of(Reverted) * (100 - reverts) >= Of(Kept) * reverts

\* A row reaches a threshold as its outcomes do.
LEMMA RowReaches ==
  ASSUME NEW outcomes, IsFiniteSet(outcomes), NEW row \in RuleMetrics(outcomes),
         NEW percent \in 1 .. 99, NEW escapes \in 1 .. 99, NEW reverts \in 1 .. 99
  PROVE  Blame(outcomes, row.rule, percent, escapes, reverts)
           <=> \/ Reaches(row.falsePositives, row.diagnostics, percent)
               \/ Reaches(row.escapes, row.preventable, escapes)
               \/ Reaches(row.reverted, row.fixes, reverts)
<1> DEFINE Of(classes) == Count(outcomes, row.rule, classes)
<1>1. /\ row.falsePositives = Of(FalsePositive) /\ row.diagnostics = Of(Diagnosed)
      /\ row.escapes = Of(Escaped) /\ row.preventable = Of(Preventable)
      /\ row.reverted = Of(Reverted) /\ row.fixes = Of(Fixed)
  BY RowCounts
<1>2. /\ FalsePositive \cap Dismissed = {} /\ Diagnosed = FalsePositive \cup Dismissed
      /\ Escaped \cap Caught = {} /\ Preventable = Escaped \cup Caught
      /\ Reverted \cap Kept = {} /\ Fixed = Reverted \cup Kept
  BY DEF FalsePositive, Dismissed, Diagnosed, Escaped, Caught, Preventable, Reverted, Kept,
         Fixed
<1>3. /\ Of(FalsePositive) \in Nat /\ Of(Dismissed) \in Nat
      /\ Of(Diagnosed) = Of(FalsePositive) + Of(Dismissed)
  BY <1>2, ClassesAdd
<1>4. /\ Of(Escaped) \in Nat /\ Of(Caught) \in Nat
      /\ Of(Preventable) = Of(Escaped) + Of(Caught)
  BY <1>2, ClassesAdd
<1>5. /\ Of(Reverted) \in Nat /\ Of(Kept) \in Nat
      /\ Of(Fixed) = Of(Reverted) + Of(Kept)
  BY <1>2, ClassesAdd
<1> DEFINE a == Of(FalsePositive)
           b == Of(Dismissed)
           c == Of(Escaped)
           d == Of(Caught)
           e == Of(Reverted)
           f == Of(Kept)
<1>6. Blame(outcomes, row.rule, percent, escapes, reverts)
        <=> \/ a > 0 /\ a * (100 - percent) >= b * percent
            \/ c > 0 /\ c * (100 - escapes) >= d * escapes
            \/ e > 0 /\ e * (100 - reverts) >= f * reverts
  BY DEF Blame
<1>7. /\ a \in Nat /\ b \in Nat /\ row.falsePositives = a /\ row.diagnostics = a + b
      /\ c \in Nat /\ d \in Nat /\ row.escapes = c /\ row.preventable = c + d
      /\ e \in Nat /\ f \in Nat /\ row.reverted = e /\ row.fixes = e + f
  BY <1>1, <1>3, <1>4, <1>5
<1> HIDE DEF a, b, c, d, e, f
<1>8. Reaches(a, a + b, percent) <=> a > 0 /\ a * (100 - percent) >= b * percent
  BY <1>7, ThresholdReached
<1>9. Reaches(c, c + d, escapes) <=> c > 0 /\ c * (100 - escapes) >= d * escapes
  BY <1>7, ThresholdReached
<1>10. Reaches(e, e + f, reverts) <=> e > 0 /\ e * (100 - reverts) >= f * reverts
  BY <1>7, ThresholdReached
<1> QED BY <1>6, <1>7, <1>8, <1>9, <1>10

\* A recommendation follows from samples and from what is known.
LEMMA RecommendationEarned ==
  ASSUME NEW outcomes, IsFiniteSet(outcomes), NEW recommendation,
         recommendation = PackRecommendation(RuleMetrics(outcomes))
  PROVE  /\ recommendation # "insufficient_evidence" <=>
              Cardinality(outcomes) >= MinimumPackSample
         /\ recommendation = "rollback_recommended" =>
              \E rule \in Sampled(outcomes) : Blame(outcomes, rule, 10, 20, 25)
         /\ recommendation = "retain" =>
              /\ 4 * Cardinality({o \in outcomes : o.class \in UnknownOutcomes})
                   < Cardinality(outcomes)
              /\ \A rule \in Sampled(outcomes) : ~Blame(outcomes, rule, 5, 10, 10)
<1> DEFINE rows == RuleMetrics(outcomes)
           sampled == Sampled(outcomes)
           unknown == {o \in outcomes : o.class \in UnknownOutcomes}
           states == {RuleRecommendation(row) : row \in rows}
           evaluations == Total(rows, "evaluations")
           unknowns == Total(rows, "unknown")
<1>1. /\ MinimumRuleSample \in Nat \ {0} /\ MinimumPackSample \in Nat \ {0}
      /\ Cardinality(outcomes) \in Nat
  BY SampleAssumption, FS_CardinalityType
<1>0. 5 \in 1 .. 99 /\ 10 \in 1 .. 99 /\ 20 \in 1 .. 99 /\ 25 \in 1 .. 99
  OBVIOUS
<1>2. evaluations = Cardinality(outcomes)
  <2>1. outcomes \in SUBSET outcomes
    OBVIOUS
  <2>2. \A row \in rows : row["evaluations"] = Cardinality({o \in outcomes : o.rule = row.rule})
    BY RowCounts DEF Evaluated
  <2> QED BY <2>1, <2>2, TotalCounts
<1>3. unknowns = Cardinality(unknown) /\ Cardinality(unknown) \in Nat
  <2>1. unknown \in SUBSET outcomes
    OBVIOUS
  <2>2. ASSUME NEW row \in rows
        PROVE  row["unknown"] = Cardinality({o \in unknown : o.rule = row.rule})
    <3>1. row.unknown = Count(outcomes, row.rule, UnknownOutcomes)
      BY RowCounts
    <3>2. {o \in outcomes : o.rule = row.rule /\ o.class \in UnknownOutcomes}
          = {o \in unknown : o.rule = row.rule}
      OBVIOUS
    <3> HIDE DEF unknown
    <3> QED BY <3>1, <3>2 DEF Count
  <2> HIDE DEF unknown, rows
  <2>3. \A row \in RuleMetrics(outcomes) :
          row["unknown"] = Cardinality({o \in unknown : o.rule = row.rule})
    BY <2>2 DEF rows
  <2>4. Total(RuleMetrics(outcomes), "unknown") = Cardinality(unknown)
    BY <2>1, <2>3, TotalCounts
  <2>5. Cardinality(unknown) \in Nat
    BY <2>1, FS_Subset, FS_CardinalityType
  <2> QED BY <2>4, <2>5 DEF rows
<1>4. ASSUME NEW row \in rows,
             RuleRecommendation(row) \in {"retirement_recommended", "rollback_recommended"}
      PROVE  \E rule \in sampled : Blame(outcomes, rule, 10, 20, 25)
  <2>1. row.rule \in sampled
    <3>1. /\ row.rule \in {o.rule : o \in outcomes}
          /\ row.evaluations = Evaluated(outcomes, row.rule)
      BY RowsOfRules, RowCounts
    <3>2. Evaluated(outcomes, row.rule) \in Nat
      BY EvaluatedTyped
    <3>3. ~(row.evaluations < MinimumRuleSample)
      BY <1>4 DEF RuleRecommendation
    <3> QED BY <1>1, <3>1, <3>2, <3>3 DEF Sampled
  <2>2. \/ Reaches(row.falsePositives, row.diagnostics, 10)
        \/ Reaches(row.escapes, row.preventable, 20)
        \/ Reaches(row.reverted, row.fixes, 25)
    <3>1. Reaches(row.falsePositives, row.diagnostics, 20) =>
            Reaches(row.falsePositives, row.diagnostics, 10)
      <4>1. row.diagnostics \in Nat /\ row.falsePositives \in Nat
        BY RowCounts, CountTyped
      <4> QED BY <4>1 DEF Reaches
    <3> QED BY <1>4, <3>1 DEF RuleRecommendation
  <2>3. Blame(outcomes, row.rule, 10, 20, 25)
    BY <1>0, <2>2, RowReaches, Zenon
  <2> QED BY <2>1, <2>3
<1>5. ASSUME NEW rule \in sampled, Blame(outcomes, rule, 5, 10, 10)
      PROVE  states \cap {"retirement_recommended", "rollback_recommended", "investigate"} # {}
  <2>1. PICK row \in rows : row.rule = rule
    BY RowsOfRules DEF Sampled
  <2>2. ~(row.evaluations < MinimumRuleSample)
    <3>1. row.evaluations = Evaluated(outcomes, rule)
      BY <2>1, RowCounts
    <3>2. Evaluated(outcomes, rule) \in Nat
      BY EvaluatedTyped
    <3> QED BY <1>1, <3>1, <3>2 DEF Sampled
  <2>3. \/ Reaches(row.falsePositives, row.diagnostics, 5)
        \/ Reaches(row.escapes, row.preventable, 10)
        \/ Reaches(row.reverted, row.fixes, 10)
    BY <1>0, <1>5, <2>1, RowReaches, Zenon
  <2>4. RuleRecommendation(row)
          \in {"retirement_recommended", "rollback_recommended", "investigate"}
    BY <2>2, <2>3 DEF RuleRecommendation
  <2> QED BY <2>1, <2>4
<1>6. recommendation =
        IF evaluations < MinimumPackSample THEN "insufficient_evidence"
        ELSE IF states \cap {"retirement_recommended", "rollback_recommended"} # {}
          THEN "rollback_recommended"
        ELSE IF "investigate" \in states \/ Reaches(unknowns, evaluations, 25)
          THEN "investigate" ELSE "retain"
  BY DEF PackRecommendation
<1> HIDE DEF evaluations, unknowns
<1>7. recommendation # "insufficient_evidence" <=> Cardinality(outcomes) >= MinimumPackSample
  BY <1>1, <1>2, <1>6
<1>8. ASSUME recommendation = "rollback_recommended"
      PROVE  \E rule \in sampled : Blame(outcomes, rule, 10, 20, 25)
  <2>1. states \cap {"retirement_recommended", "rollback_recommended"} # {}
    BY <1>6, <1>8
  <2>2. PICK row \in rows :
          RuleRecommendation(row) \in {"retirement_recommended", "rollback_recommended"}
    BY <2>1
  <2> QED BY <1>4, <2>2
<1>9. ASSUME recommendation = "retain"
      PROVE  /\ 4 * Cardinality(unknown) < Cardinality(outcomes)
             /\ \A rule \in sampled : ~Blame(outcomes, rule, 5, 10, 10)
  <2>1. /\ ~(evaluations < MinimumPackSample)
        /\ states \cap {"retirement_recommended", "rollback_recommended"} = {}
        /\ "investigate" \notin states
        /\ ~Reaches(unknowns, evaluations, 25)
    BY <1>6, <1>9
  <2>2. 4 * Cardinality(unknown) < Cardinality(outcomes)
    BY <1>1, <1>2, <1>3, <2>1 DEF Reaches
  <2>3. states \cap {"retirement_recommended", "rollback_recommended", "investigate"} = {}
    BY <2>1
  <2> QED BY <1>5, <2>2, <2>3
<1> QED BY <1>7, <1>8, <1>9

-----------------------------------------------------------------------------
(***************************************************************************)
(* Theorems.                                                               *)
(***************************************************************************)

\* At first nothing was observed.
LEMMA OutcomeInvInit == OutcomeInit => OutcomeInv
<1> SUFFICES ASSUME OutcomeInit PROVE OutcomeInv
  OBVIOUS
<1>1. ledger = <<>> /\ ledger \in Seq(LedgerEntries) /\ DOMAIN ledger = {}
  BY EmptySeq DEF OutcomeInit
<1> QED
  BY <1>1, FS_EmptySet DEF OutcomeInit, OutcomeInv, FilesInv, LedgerInv, ReportInv,
              ReportsCountAnswered, BuiltInv

\* What is known of outcomes stays true of every step.
LEMMA OutcomeInvStep ==
  ASSUME GovernanceInv, [Next]_vars
  PROVE  OutcomeInv'
<1>1. CASE OutcomeNext
  <2>1. ASSUME NEW i \in Ingesters, NEW outcome \in Observed, CheckRecord(i, outcome)
        PROVE  OutcomeInv'
    BY <2>1, CheckKeeps DEF GovernanceInv
  <2>2. ASSUME NEW i \in Ingesters,
               CreateRecord(i) \/ WriteRecord(i) \/ JournalOutcome(i) \/ StopIngest(i)
        PROVE  OutcomeInv'
    BY <2>2, CreateKeeps, WriteKeeps, JournalKeeps, StopKeeps DEF GovernanceInv
  <2>3. ASSUME NEW pack \in packs, ListOutcomes(pack)
        PROVE  OutcomeInv'
    BY <2>3, ListKeeps DEF GovernanceInv
  <2>4. CASE BuildReport
    BY <2>4, BuildKeeps DEF GovernanceInv
  <2>5. CASE RefuseReport
    BY <2>5 DEF RefuseReport, GovernanceInv, OutcomeInv, FilesInv, IngestAt, LedgerInv,
                ReportInv, Recorded, ReportsCountAnswered, BuiltInv
  <2> QED BY <1>1, <2>1, <2>2, <2>3, <2>4, <2>5 DEF OutcomeNext
<1>2. CASE UNCHANGED outcomeVars
  BY <1>2 DEF outcomeVars, GovernanceInv, OutcomeInv, FilesInv, IngestAt, LedgerInv,
              ReportInv, Recorded, ReportsCountAnswered, BuiltInv
<1> QED BY <1>1, <1>2 DEF Next, vars

\* The inductive invariant of publication and of the outcome store: what an
\* ingestion relies on at each of its steps.
THEOREM GovernanceInvariant == Spec => []GovernanceInv
<1>1. Init => GovernanceInv
  BY PackInvInit, OutcomeInvInit DEF Init, GovernanceInv
<1>2. GovernanceInv /\ [Next]_vars => GovernanceInv'
  BY PackInvStep, OutcomeInvStep DEF GovernanceInv
<1> QED BY <1>1, <1>2, PTL DEF Spec

\* Every variable of publication keeps its type, and a record file is the only
\* one of its identity.
THEOREM GovernanceTyped == Spec => []GovernanceTypeOK
<1>1. GovernanceInv => GovernanceTypeOK
  <2> SUFFICES ASSUME GovernanceInv PROVE GovernanceTypeOK
    OBVIOUS
  <2>1. /\ corpus \in SUBSET Batches
        /\ compilations \subseteq SUBSET Batches
        /\ \A pack \in packs : pack.version \in Versions /\ pack.compilation \in compilations
    BY DEF GovernanceInv, PackInv, PacksTyped, Packs
  <2>2. \A half \in Halves : keyFiles[half] \in {None, Damaged} \cup DOMAIN keygens
    BY DEF GovernanceInv, PackInv, KeysInv
  <2>3. Cardinality(Generating) <= 1
    <3>1. Generating \subseteq {Len(keygens)}
      BY GeneratingLast DEF GovernanceInv, PackInv
    <3>2. IsFiniteSet({Len(keygens)}) /\ Cardinality({Len(keygens)}) = 1
      BY FS_Singleton
    <3> QED BY <3>1, <3>2, FS_Subset
  <2>4. \A m \in manifests : m.pack \in packs /\ m.channel \in Channels
    BY DEF GovernanceInv, PackInv, ManifestsInv, Manifests
  <2>5. ToSet(retired) \subseteq packs
    BY LenProperties, ElementOfSeq DEF GovernanceInv, PackInv, ChannelsInv, ToSet
  <2>6. /\ \A f, g \in files : f.id = g.id => f = g
        /\ \A f \in files : f.content # Damaged => Identity(f.content) = f.id
    BY DEF GovernanceInv, OutcomeInv, FilesInv
  <2> QED BY <2>1, <2>2, <2>3, <2>4, <2>5, <2>6 DEF GovernanceTypeOK
<1> QED BY <1>1, GovernanceInvariant, PTL

\* The ledger has an outcome as accepted once at most, and the record of every
\* line stands in its file (effectiveness-contract.yaml:79).
THEOREM LedgerAlwaysTruthful == Spec => []LedgerTruthful
<1>1. GovernanceInv => LedgerTruthful
  BY DEF GovernanceInv, OutcomeInv, LedgerInv, LedgerTruthful, ToSet
<1> QED BY <1>1, GovernanceInvariant, PTL

\* A report counts every outcome of its pack that had been answered when it
\* began, and none twice.
THEOREM AnsweredAlwaysCounted == Spec => []ReportsCountAnswered
<1>1. GovernanceInv => ReportsCountAnswered
  BY DEF GovernanceInv, OutcomeInv
<1> QED BY <1>1, GovernanceInvariant, PTL

\* Small samples escalate nothing and unknown outcomes excuse nothing, in any
\* report: what rule and pack metrics sum up is what the outcomes counted are
\* (recommendations.py, ADR-INTEL-025).
THEOREM RecommendationsAlwaysEarned == Spec => []RecommendationsEarned
<1>1. GovernanceInv => RecommendationsEarned
  <2> SUFFICES ASSUME GovernanceInv
               PROVE  RecommendationsEarned
    OBVIOUS
  <2>1. ASSUME NEW r \in reports
        PROVE  /\ r.recommendation # "insufficient_evidence" <=>
                    Cardinality(r.outcomes) >= MinimumPackSample
               /\ r.recommendation = "rollback_recommended" =>
                    \E rule \in Sampled(r.outcomes) : Blame(r.outcomes, rule, 10, 20, 25)
               /\ r.recommendation = "retain" =>
                    /\ 4 * Cardinality({o \in r.outcomes : o.class \in UnknownOutcomes})
                         < Cardinality(r.outcomes)
                    /\ \A rule \in Sampled(r.outcomes) : ~Blame(r.outcomes, rule, 5, 10, 10)
    <3>1. /\ IsFiniteSet(r.outcomes)
          /\ r.recommendation = PackRecommendation(RuleMetrics(r.outcomes))
      BY DEF GovernanceInv, OutcomeInv, BuiltInv
    <3> QED BY <3>1, RecommendationEarned
  <2> QED
    BY <2>1
    DEF RecommendationsEarned, Sampled, Evaluated, Blame, Count, FalsePositive, Dismissed,
        Escaped, Caught, Reverted, Kept
<1> QED BY <1>1, GovernanceInvariant, PTL
=============================================================================
