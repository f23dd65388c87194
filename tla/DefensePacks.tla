---------------------------- MODULE DefensePacks -----------------------------
(***************************************************************************)
(* Publication: candidates compiled from a snapshot, packs assembled from  *)
(* them, keys generated, packs signed, release channels updated and packs  *)
(* retired (compilation/builder.py, publication/).                         *)
(*                                                                         *)
(* Compilations and packs are directories named by what they hold, so here *)
(* they are what they hold: a compilation is the corpus it was compiled    *)
(* from, a pack a version and a compilation.  An archive stands for its    *)
(* own hash, and a signature for the private key it was made with.         *)
(***************************************************************************)
EXTENDS RuleCompilation

CONSTANTS
  Batches,      \* names of batches of events a corpus is made of
  Contents,     \* the events of each batch
  Versions,     \* versions an operator may give a pack
  Operators,    \* those who update channels, perhaps at once
  Damaged,      \* the content of a half-written file
  Budgets       \* how often each operation may happen, to choose from

VARIABLES
  corpus,       \* the batches in the corpus
  compilations, \* the corpora compiled
  packs,        \* assembled packs
  keyFiles,     \* the private and the public key file
  keygens,      \* what came of the generation of each key
  manifests,    \* publication manifests
  indexes,      \* channel index files
  updates,      \* channel updates under way
  activations,  \* by channel, the manifests its updates were answered for
  overlapped,   \* channels two updates of which were under way at once
  retired,      \* the retirement ledger
  budget        \* operations left

packVars ==
  <<corpus, compilations, packs, keyFiles, keygens, manifests, indexes, updates,
    activations, overlapped, retired>>

Channels == {"experimental", "shadow", "stable"}

Halves == {"private", "public"}

EventsOf(batches) == UNION {Contents[batch] : batch \in batches}

\* The candidates of every corpus: reports and candidates depend on nothing
\* but the snapshot.
Catalog ==
  {[batches |-> batches, candidates |-> Candidates(EventsOf(batches))] :
     batches \in SUBSET Batches}

CandidatesOf(batches) ==
  (CHOOSE entry \in Catalog : entry.batches = batches).candidates

RulesOf(pack) == Eligible(CandidatesOf(pack.compilation))

\* What an archive, a manifest and an index are made of.
Packs == [version : Versions, compilation : SUBSET Batches]

Manifests ==
  [pack : Packs, channel : Channels, signer : Nat, rollback : Packs \cup {None}]

Indexes ==
  [active : Manifests, previous : Manifests \cup {None}, history : SUBSET Manifests]

\* Nothing and half a file are no key, and nothing is neither a pack, a manifest
\* nor an index.
ASSUME NothingAssumption ==
  /\ {None, Damaged} \cap Nat = {}
  /\ None \notin Packs \cup Manifests \cup Indexes

\* A batch is finitely many events, and each carries finitely many rows.
ASSUME ContentsAssumption ==
  \A batch \in Batches :
    /\ IsFiniteSet(Contents[batch])
    /\ \A event \in Contents[batch] : IsFiniteSet(DOMAIN Rows(event))

Spend(operation) ==
  /\ budget[operation] > 0
  /\ budget' = [budget EXCEPT ![operation] = @ - 1]

PackInit ==
  /\ corpus = {}
  /\ compilations = {}
  /\ packs = {}
  /\ keyFiles = [half \in Halves |-> None]
  /\ keygens = <<>>
  /\ manifests = {}
  /\ indexes = [channel \in Channels |-> None]
  /\ updates = [o \in Operators |-> None]
  /\ activations = [channel \in Channels |-> <<>>]
  /\ overlapped = {}
  /\ retired = <<>>

-----------------------------------------------------------------------------
(***************************************************************************)
(* From the corpus to packs.                                               *)
(***************************************************************************)
Admit(batch) ==
  /\ Spend("admit")
  /\ corpus' = corpus \cup {batch}
  /\ UNCHANGED <<compilations, packs, keyFiles, keygens, manifests, indexes,
                 updates, activations, overlapped, retired>>

\* build_snapshot, build_analytics and build_compilation one after another:
\* each writes one directory named by its content, or finds it there.
Compile ==
  /\ Spend("compile")
  /\ corpus # {}
  /\ Compiles(CandidatesOf(corpus))
  /\ compilations' = compilations \cup {corpus}
  /\ UNCHANGED <<corpus, packs, keyFiles, keygens, manifests, indexes, updates,
                 activations, overlapped, retired>>

\* assemble_pack: there must be a rule to publish.
Assemble(compilation, version) ==
  /\ Spend("assemble")
  /\ compilation \in compilations
  /\ Eligible(CandidatesOf(compilation)) # {}
  /\ packs' = packs \cup {[version |-> version, compilation |-> compilation]}
  /\ UNCHANGED <<corpus, compilations, keyFiles, keygens, manifests, indexes,
                 updates, activations, overlapped, retired>>

-----------------------------------------------------------------------------
(***************************************************************************)
(* Keys.  The n-th generation makes the key n.  A generation is            *)
(*   [step, stuck]                                                         *)
(* with the step it is at and, once it has raised, the halves that it did  *)
(* not remove: those it tried in vain to and, if the write of the public   *)
(* half failed, that one, which the code does not try to.                  *)
(***************************************************************************)
Generating == {n \in DOMAIN keygens : keygens[n].step \in {"public", "private"}}

Keygen(n, step, stuck) ==
  keygens' = [keygens EXCEPT ![n] = [step |-> step, stuck |-> stuck]]

KeysOnly ==
  UNCHANGED <<corpus, compilations, packs, manifests, indexes, updates,
              activations, overlapped, retired>>

StartKeygen ==
  /\ Spend("keygen")
  /\ Generating = {}
  /\ keygens' = Append(keygens, [step |-> "public", stuck |-> {}])
  /\ UNCHANGED keyFiles
  /\ KeysOnly

\* The public half is written first, over whatever is there.
WritePublicKey(n) ==
  /\ n \in Generating /\ keygens[n].step = "public"
  /\ keyFiles' = [keyFiles EXCEPT !["public"] = n]
  /\ Keygen(n, "private", {})
  /\ UNCHANGED budget
  /\ KeysOnly

\* A write that fails leaves what it had written, be it the whole half, for it
\* may fail as the file is closed; and nothing is removed.
FailPublicKey(n) ==
  /\ Spend("fail")
  /\ n \in Generating /\ keygens[n].step = "public"
  /\ \E left \in {keyFiles["public"], Damaged, n} :
       keyFiles' = [keyFiles EXCEPT !["public"] = left]
  /\ Keygen(n, "raised", {"public"})
  /\ KeysOnly

WritePrivateKey(n) ==
  /\ n \in Generating /\ keygens[n].step = "private"
  /\ keyFiles' = [keyFiles EXCEPT !["private"] = n]
  /\ Keygen(n, "written", {})
  /\ UNCHANGED budget
  /\ KeysOnly

\* Fault: the removal of the second half is not tried when the first raises.
DiscardFirst(stuck, private, public) ==
  [half \in Halves |->
     CASE half = "private" /\ half \in stuck -> private
       [] half = "public" /\ (stuck # {}) -> public
       [] OTHER -> None]

\* _discard of both: one that fails keeps no other from being removed.
Discard(stuck, private, public) ==
  [half \in Halves |->
     IF half \notin stuck THEN None
     ELSE IF half = "private" THEN private ELSE public]

\* The write or the chmod of the private half fails, and both are removed.
FailPrivateKey(n) ==
  /\ Spend("fail")
  /\ n \in Generating /\ keygens[n].step = "private"
  /\ \E stuck \in SUBSET Halves, left \in {keyFiles["private"], Damaged, n} :
       /\ keyFiles' = Discard(stuck, left, keyFiles["public"])
       /\ Keygen(n, "raised", stuck)
  /\ KeysOnly

\* The process ends before, in or after the write it was at.
CrashKeygen(n) ==
  /\ Spend("crash")
  /\ n \in Generating
  /\ \E left \in {keyFiles[keygens[n].step], Damaged, n} :
       keyFiles' = [keyFiles EXCEPT ![keygens[n].step] = left]
  /\ Keygen(n, "crashed", {})
  /\ KeysOnly

-----------------------------------------------------------------------------
(***************************************************************************)
(* Manifests.                                                              *)
(***************************************************************************)

\* Fault: only stable packs need a pack to return to.
SignForStable(pack, channel, previous) ==
  /\ Spend("sign")
  /\ pack \in packs
  /\ keyFiles["private"] \in DOMAIN keygens
  /\ channel = "stable" => previous # None
  /\ manifests' = manifests \cup
       {[pack |-> pack, channel |-> channel, signer |-> keyFiles["private"],
         rollback |-> IF previous = None THEN None ELSE previous.pack]}
  /\ UNCHANGED <<corpus, compilations, packs, keyFiles, keygens, indexes, updates,
                 activations, overlapped, retired>>

\* sign_publication: shadow and stable need a manifest to return to; whichever
\* is passed will do.  The public key comes from the private one.
Sign(pack, channel, previous) ==
  /\ Spend("sign")
  /\ pack \in packs
  /\ keyFiles["private"] \in DOMAIN keygens
  /\ channel \in {"shadow", "stable"} => previous # None
  /\ manifests' = manifests \cup
       {[pack |-> pack, channel |-> channel, signer |-> keyFiles["private"],
         rollback |-> IF previous = None THEN None ELSE previous.pack]}
  /\ UNCHANGED <<corpus, compilations, packs, keyFiles, keygens, indexes, updates,
                 activations, overlapped, retired>>

\* verify_publication: what a consumer finds out about a manifest.
Verifies(manifest) ==
  /\ manifest.pack \in packs
  /\ \A rule \in RulesOf(manifest.pack) : rule.score >= 4 * Millionths
  /\ manifest.rollback # None \/ manifest.channel = "experimental"

-----------------------------------------------------------------------------
(***************************************************************************)
(* Channels.                                                               *)
(***************************************************************************)
Busy(channel) ==
  {o \in Operators : updates[o] # None /\ updates[o].manifest.channel = channel}

\* update_channel as far as reading the index; a manifest of another channel
\* is refused before it.
ReadIndex(o, manifest) ==
  LET channel == manifest.channel
  IN /\ Spend("update")
     /\ updates[o] = None
     /\ manifest \in manifests
     /\ updates' = [updates EXCEPT ![o] = [manifest |-> manifest, read |-> indexes[channel]]]
     /\ overlapped' = IF Busy(channel) = {} THEN overlapped ELSE overlapped \cup {channel}
     /\ UNCHANGED <<corpus, compilations, packs, keyFiles, keygens, manifests,
                    indexes, activations, retired>>

\* Fault: the pack that was active is not kept in the history.
IndexAfterForgetful(read, manifest) ==
  IF read = None
    THEN [active |-> manifest, previous |-> None, history |-> {manifest}]
    ELSE [active |-> manifest, previous |-> read.active,
          history |-> {m \in read.history : m # read.active} \cup {manifest}]

\* The index an update makes of the one it read: the history has one entry for
\* each archive, and the previous pack is the one that was active, be it the
\* same.
IndexAfter(read, manifest) ==
  IF read = None
    THEN [active |-> manifest, previous |-> None, history |-> {manifest}]
    ELSE [active |-> manifest, previous |-> read.active,
          history |-> {m \in read.history : m.pack # manifest.pack} \cup {manifest}]

ReplaceIndex(o) ==
  LET manifest == updates[o].manifest
      channel == manifest.channel
  IN /\ updates[o] # None
     /\ indexes' = [indexes EXCEPT ![channel] = IndexAfter(updates[o].read, manifest)]
     /\ updates' = [updates EXCEPT ![o] = None]
     /\ activations' = [activations EXCEPT ![channel] = Append(@, manifest)]
     /\ UNCHANGED <<corpus, compilations, packs, keyFiles, keygens, manifests,
                    overlapped, retired, budget>>

\* The process ends before the replacement.
CrashUpdate(o) ==
  /\ Spend("crash")
  /\ updates[o] # None
  /\ updates' = [updates EXCEPT ![o] = None]
  /\ UNCHANGED <<corpus, compilations, packs, keyFiles, keygens, manifests,
                 indexes, activations, overlapped, retired>>

\* retire_pack: a line in the ledger, whatever channels the pack is in.
Retire(manifest) ==
  /\ Spend("retire")
  /\ manifest \in manifests
  /\ retired' = Append(retired, manifest.pack)
  /\ UNCHANGED <<corpus, compilations, packs, keyFiles, keygens, manifests,
                 indexes, updates, activations, overlapped>>

PackNext ==
  \/ \E batch \in Batches \ corpus : Admit(batch)
  \/ Compile
  \/ \E compilation \in compilations, version \in Versions :
       Assemble(compilation, version)
  \/ StartKeygen
  \/ \E n \in DOMAIN keygens :
       \/ WritePublicKey(n)
       \/ FailPublicKey(n)
       \/ WritePrivateKey(n)
       \/ FailPrivateKey(n)
       \/ CrashKeygen(n)
  \/ \E pack \in packs, channel \in Channels, previous \in manifests \cup {None} :
       Sign(pack, channel, previous)
  \/ \E o \in Operators : \/ \E manifest \in manifests : ReadIndex(o, manifest)
                          \/ ReplaceIndex(o)
                          \/ CrashUpdate(o)
  \/ \E manifest \in manifests : Retire(manifest)

-----------------------------------------------------------------------------
(***************************************************************************)
(* Properties.                                                             *)
(***************************************************************************)

\* What the score of a published failure stands for, counted in the corpus
\* itself.  Its evidence is that of its rule if all of its rows name one and
\* the same; else it is that of all rows that name none, the failure's own or
\* not (candidates.py:72).  The margins are those scoring.py leaves: with no
\* effort known, 0.25 of 4.25 may be missing.  Ratios are rounded to millionths,
\* so among very many outcomes a few may be missing from a margin.
Lost(outcomes) == outcomes \div 400000

WellFounded(events, rule) ==
  LET rows == Observations(events)
      group == {o \in rows : /\ o.of.fingerprint = rule.fingerprint
                             /\ o.of.class = rule.class}
      evidence == IF \A o, p \in group : o.of.rule = p.of.rule
                    THEN (CHOOSE o \in group : TRUE).of.rule ELSE None
      Outcomes(values) ==
        Cardinality({o \in rows : o.of.rule = evidence /\ o.of.outcome \in values})
      Found(value) ==
        Cardinality({o \in rows : o.of.rule = evidence /\ o.of.disposition = value})
      validated == Outcomes({"passed", "failed", "partial"})
      right == Found("confirmed_true_positive")
      wrong == Found("confirmed_false_positive")
  IN /\ Cardinality(group) >= 9
     /\ Cardinality({o.of.scope : o \in group}) >= 4
     /\ Outcomes({"passed"}) > 0
     /\ 3 * Outcomes({"passed"}) + Lost(validated) >= 2 * validated
     /\ right > 0
     /\ right + Lost(right + wrong) >= 3 * wrong

Founded ==
  UNION {{<<entry.batches, c.fingerprint, c.class>> :
            c \in {d \in entry.candidates : WellFounded(EventsOf(entry.batches), d)}} :
         entry \in Catalog}

\* A rule of a pack is about something that recurred, in several repositories,
\* and the evidence its score was computed from has enough validated repairs
\* that passed and findings that were right (scoring.py): a rule nothing is
\* known of is not promoted, nor is what eight observations speak for.  The
\* evidence of a failure attributed to no rule is not its own, which
\* UnknownEarnsNothing is about; and claims a correction superseded count.
PromotionEarned ==
  \A pack \in packs : \A rule \in RulesOf(pack) :
    <<pack.compilation, rule.fingerprint, rule.class>> \in Founded

\* Nothing is promoted on missing data: of a failure whose rule is published, or
\* of the rule it is attributed to, at least one finding was classified
\* (ADR-INTEL-016: unknown false-positive information is not low risk).
UnknownEarnsNothing ==
  \A pack \in packs : \A rule \in RulesOf(pack) :
    LET rows == Observations(EventsOf(pack.compilation))
        own == {o \in rows : /\ o.of.fingerprint = rule.fingerprint
                             /\ o.of.class = rule.class}
    IN \E o \in rows :
         /\ o \in own \/ \E p \in own : p.of.rule # None /\ p.of.rule = o.of.rule
         /\ o.of.disposition \in {"confirmed_true_positive", "confirmed_false_positive"}

\* Both halves of a key are written or neither is: a generation that raised
\* leaves none of its halves but one that could not be removed and a public
\* half whose own write failed, and the last generation to be answered holds
\* both files (crypto.py:97).
KeyPairWhole ==
  \A n \in DOMAIN keygens :
    /\ keygens[n].step = "raised" =>
         \A half \in Halves \ keygens[n].stuck : keyFiles[half] # n
    /\ keygens[n].step = "written" /\ n = Len(keygens) =>
         \A half \in Halves : keyFiles[half] = n

\* Whatever a channel has active verifies, can be rolled back to a pack that
\* was published unless the channel is experimental, although update_channel
\* looks at neither (publisher.py, channels.py).
ActiveCanRollBack ==
  \A channel \in Channels :
    indexes[channel] # None =>
      LET active == indexes[channel].active
      IN /\ active.channel = channel
         /\ Verifies(active)
         /\ active.rollback # None => \E m \in manifests : m.pack = active.rollback

\* An index says what became of its channel, as long as no two updates of it
\* overlapped: the pack of the last update is active, the one of the update
\* before it is the previous one, and no pack is missing from the history,
\* retired or not (ADR-INTEL-021).
IndexTellsActivations ==
  \A channel \in Channels \ overlapped :
    LET done == activations[channel]
    IN indexes[channel] # None =>
         /\ indexes[channel].active = Last(done)
         /\ indexes[channel].previous =
              IF Len(done) = 1 THEN None ELSE done[Len(done) - 1]
         /\ {m.pack : m \in indexes[channel].history} = {m.pack : m \in ToSet(done)}
=============================================================================
