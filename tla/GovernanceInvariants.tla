------------------------- MODULE GovernanceInvariants -------------------------
(***************************************************************************)
(* Inductive invariants of publication and of the outcome store: what a    *)
(* key generation, a channel update and an ingestion rely on at each of    *)
(* their steps, which is what makes the properties of DefensePacks and     *)
(* Effectiveness hold from one step to the next.                           *)
(***************************************************************************)
EXTENDS Effectiveness

(***************************************************************************)
(* Packs and keys.                                                         *)
(***************************************************************************)
PacksTyped ==
  /\ corpus \in SUBSET Batches
  /\ compilations \subseteq SUBSET Batches
  /\ packs \subseteq Packs
  /\ \A pack \in packs : pack.compilation \in compilations
  /\ IsFiniteSet(corpus) /\ \A compiled \in compilations : IsFiniteSet(compiled)

\* The last generation alone is under way; the half it has yet to write is
\* not there, and the one it has written is.
KeysAt(n) ==
  LET g == keygens[n]
  IN /\ g.step \in {"public", "private"} => n = Len(keygens)
     /\ g.step = "public" => \A half \in Halves : keyFiles[half] # n
     /\ g.step = "private" => keyFiles["public"] = n /\ keyFiles["private"] # n
     /\ g.step = "raised" => \A half \in Halves \ g.stuck : keyFiles[half] # n
     /\ g.step = "written" /\ n = Len(keygens) =>
          \A half \in Halves : keyFiles[half] = n

KeygenSteps == {"public", "private", "written", "raised", "crashed"}

KeysInv ==
  /\ keygens \in Seq([step : KeygenSteps, stuck : SUBSET Halves])
  /\ keyFiles \in [Halves -> {None, Damaged} \cup DOMAIN keygens]
  /\ \A n \in DOMAIN keygens : KeysAt(n)

(***************************************************************************)
(* Manifests and channels.                                                 *)
(***************************************************************************)
ManifestsInv ==
  /\ manifests \subseteq Manifests
  /\ \A m \in manifests :
       /\ m.pack \in packs
       /\ m.channel \in {"shadow", "stable"} => m.rollback # None
       /\ m.rollback # None => \E n \in manifests : n.pack = m.rollback

\* What an index of a channel names was signed, and for that channel what it
\* has active.
IndexSound(channel, index, signed) ==
  index # None =>
    /\ index \in Indexes
    /\ index.active \in signed /\ index.active.channel = channel
    /\ index.history \subseteq signed

\* The index tells which manifests its channel was updated to.
Tells(index, done) ==
  /\ index = None <=> done = <<>>
  /\ index # None =>
       /\ index.active = Last(done)
       /\ index.previous = IF Len(done) = 1 THEN None ELSE done[Len(done) - 1]
       /\ {m.pack : m \in index.history} = {m.pack : m \in ToSet(done)}

\* Until updates of a channel overlap there is one at a time, and the index it
\* read is still there.
ReadsCurrent(channel) ==
  \A o \in Busy(channel) :
    /\ updates[o].read = indexes[channel]
    /\ \A p \in Busy(channel) : p = o

ChannelsInv ==
  /\ indexes \in [Channels -> Indexes \cup {None}]
  /\ activations \in [Channels -> Seq(Manifests)]
  /\ DOMAIN updates = Operators
  /\ \A o \in Operators :
       updates[o] # None =>
         /\ updates[o].manifest \in manifests
         /\ IndexSound(updates[o].manifest.channel, updates[o].read, manifests)
  /\ \A channel \in Channels : IndexSound(channel, indexes[channel], manifests)
  /\ \A channel \in Channels \ overlapped :
       Tells(indexes[channel], activations[channel]) /\ ReadsCurrent(channel)
  /\ retired \in Seq(packs)

PackInv == PacksTyped /\ KeysInv /\ ManifestsInv /\ ChannelsInv

(***************************************************************************)
(* Outcomes.                                                               *)
(***************************************************************************)
Recorded(outcome) == [id |-> Identity(outcome), content |-> outcome] \in files

FilesInv ==
  /\ IsFiniteSet(files)
  /\ \A f \in files : f = [id |-> f.id, content |-> f.content]
  /\ \A f, g \in files : f.id = g.id => f = g
  /\ \A f \in files : f.content # Damaged => Identity(f.content) = f.id

\* Those at work on a record: nobody writes but the one who created it, and
\* nobody else is about to journal that it was accepted.
IngestAt(i) ==
  LET outcome == ingests[i].outcome
      id == Identity(outcome)
  IN /\ outcome \in Observable(Packs)
     /\ ingests[i].status \in {"accepted", "duplicate"}
     /\ ingests[i].step \in {"create", "write"} => ingests[i].status = "accepted"
     /\ ingests[i].step = "write" =>
          /\ [id |-> id, content |-> Damaged] \in files
          /\ \A j \in Ingesters \ {i} :
               ingests[j] # None /\ ingests[j].step = "write" =>
                 Identity(ingests[j].outcome) # id
     /\ ingests[i].step = "journal" =>
          /\ Recorded(outcome)
          /\ ingests[i].status = "accepted" =>
               /\ \A k \in DOMAIN ledger :
                    ledger[k].id = id => ledger[k].status # "accepted"
               /\ \A j \in Ingesters \ {i} :
                    /\ ingests[j] # None
                    /\ ingests[j].step = "journal" /\ ingests[j].status = "accepted"
                    => Identity(ingests[j].outcome) # id

LedgerEntries ==
  [id : {Identity(o) : o \in Observable(Packs)}, document : Observable(Packs),
   status : {"accepted", "duplicate"}]

LedgerInv ==
  /\ ledger \in Seq(LedgerEntries)
  /\ \A i, k \in DOMAIN ledger :
       /\ ledger[i].id = ledger[k].id
       /\ ledger[i].status = "accepted" /\ ledger[k].status = "accepted"
       => i = k
  /\ \A k \in DOMAIN ledger :
       [id |-> ledger[k].id, content |-> ledger[k].document] \in files

\* A report under way lists every outcome that had been answered.
ReportInv ==
  /\ answered \subseteq Observable(Packs)
  /\ \A o \in answered : Recorded(o)
  /\ report # None =>
       /\ report.answered \subseteq answered
       /\ \A o \in report.answered : Identity(o) \in report.listed

\* A report that was built recommends what its outcomes call for.
BuiltInv ==
  \A r \in reports :
    /\ IsFiniteSet(r.outcomes)
    /\ r.recommendation = PackRecommendation(RuleMetrics(r.outcomes))

OutcomeInv ==
  /\ DOMAIN ingests = Ingesters
  /\ FilesInv
  /\ \A i \in Ingesters : ingests[i] # None => IngestAt(i)
  /\ LedgerInv
  /\ ReportInv
  /\ BuiltInv
  /\ ReportsCountAnswered

GovernanceInv == PackInv /\ OutcomeInv
=============================================================================
