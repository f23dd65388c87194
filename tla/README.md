# A formal model of L9 CI debt intelligence

This directory holds TLA+ specifications of `src/l9_debt_intelligence`, the
TLC configurations that check them on small instances, and theorems about them
that TLAPS checks for every instance. The code is the reference: every
definition is translated from the lines `PROJECT.json` names for it.

## 1. The system

A batch pipeline around a filesystem corpus. Producers deliver events; the
ingestion service screens, deduplicates and stores them; later phases read the
store and derive snapshots, analytics, compiled rules, signed defense packs and
effectiveness reports. There are no threads. Several *processes* can run on one
store or one output directory, and any of them can stop between two file
operations.

| Component (source) | State it keeps | Operations | Interacts with |
| --- | --- | --- | --- |
| Corpus store (`ingestion/storage.py`, `identity.py`) | `records/`, `observations/`, `quarantine/`, `corrections/` (write-once JSON files), `ledger/events.jsonl` (append only), `indexes/record-ids.txt` (rewritten) | `next_sequence`, `read_*`, `write_*`, `append_ledger`, `iter_*` | called by the service; read by verification and snapshots |
| Ingestion service (`service.py`, `corrections.py`) | none of its own | `ingest`, `ingest_or_correct`, `record_correction` | called by the ingress, the CLI, the bootstrap |
| HTTP ingress (`http_ingress.py`) | none | one POST at a time; 201 / 409 / 422 / 503 | the producer's outbox redelivers on 503, a dropped connection or a lost response |
| Screening (`normalization.py`, `redaction.py`, `contracts/validator.py`, `registry.py`) | none | accept, or quarantine with a reason | first half of `ingest` |
| Producer adapters (`resolver_feedback.py`, `sdk_finding_bundle.py`, `historical_resolution.py`) | none | native document to corpus event | ingress, CLI, bootstrap |
| Learning projection (`learning.py`) | none | event to learning rows | second half of `ingest` |
| Historical bootstrap (`historical/`) | checkpoints and derived documents, rewritten | harvest, screen, normalize, reconstruct, attribute, project, `ingest_or_correct` event by event | GitHub; the service |
| Store verification (`verify.py`) | none | `verify_store` | gate of every snapshot |
| Snapshots (`snapshots/`) | directories named after their content's identity | `build_snapshot`, `verify_snapshot` | reads the store while a writer may run |
| Analytics (`analytics/`) | content-addressed directories | recurrence, co-occurrence, effort, effectiveness | reads a snapshot |
| Compilation (`compilation/`) | content-addressed directories | score, candidate states, emit, regression fixtures | reads an analysis |
| Publication (`publication/`) | packs, manifests, a channel index (rewritten), a retirement ledger, key files | assemble, sign, verify, `update_channel`, `retire_pack`, `generate_keypair` | reads a compilation |
| Effectiveness (`effectiveness/`) | outcome files, outcome ledger | `OutcomeStore.ingest`, `load`, metrics, drift, recommendations | reads outcomes of deployed packs |
| CLI (`cli.py`) | none | one command per operation | everything |

What is hard to get right here, and why a test hardly reaches it:

* **Write order and interruptions.** One delivery is up to nine file
  operations. Each may be the last one before a crash, and the redelivery runs
  the same code over what is there.
* **Identity against content.** Every document is content-addressed under an
  identity that leaves some of its content out: record identity leaves out
  the event identity, quarantine identity the time, correction identity the
  time of issue, snapshot identity the supersession.
* **Read, then use.** The ledger's length is read at the start of a delivery
  and used at its end; the index is read, extended and replaced; a missing
  file is tested and then created. A channel index is read, extended and
  replaced; an outcome file is tested, created and then written. Nothing locks.
* **Append.** A ledger append may be cut short and the next one goes to the
  end of the file, whatever the file ends in.
* **A source that goes on.** A harvest is hundreds of requests to a provider
  where, meanwhile, commits are pushed, branches rewritten and runs restarted.
  Each list may be cut by the page bound and each earlier attempt may be gone.
* **Judgement over many cases.** Whether a repair is credited, a rule promoted
  or a pack rolled back follows from a dozen conditions tried in order, with
  ratios that may be unknown and thresholds that may be met exactly.

`PROJECT.json` lists every such hazard at its line with the properties that
cover it, or why none does.

### What makes each component correct

* *Store and service* (modelled): nothing refers to what is not stored; nothing
  is overwritten; a record is admitted once; what was answered is stored and
  journalled; what the screening refuses stays out; one live claim per
  historical event; a retry completes what an interruption left.
* *Snapshots* (modelled): a snapshot is a function of the corpus it was built from, its
  identity tells two different contents apart, a read of a running store shows
  a state the store was in, a failed build leaves nothing under an identity.
* *Bootstrap and reconstruction* (modelled): no list is cut short unnoticed; no
  repair is credited that was not earned; hashes do not decide what an episode
  is where nothing in the harvest is there twice; an event is admitted after its cause; running a bootstrap again completes
  what one left.
* *Learning, analytics, compilation* (modelled): what is promoted recurs, in
  several repositories, and what its score is computed from has repairs that passed
  and findings that were right. That these are its own holds only of a failure
  attributed to a rule (`borrowed_evidence`).
* *Publication* (modelled): both halves of a key or neither, as far as a half can be
  and is removed; an active pack
  verifies and has a pack to return to; an index tells what became of its
  channel.
* *Effectiveness* (modelled): an outcome counts once; a report counts all that
  was answered; a recommendation follows from samples and known outcomes.

## 2. Modules

| Module | What it is |
| --- | --- |
| `CorpusEvents` | Corpus events as records of what the code tells apart, and the identities derived from them. SHA-256 is an operator constant that need not be injective. |
| `CorpusStore` | The state on disk, the ledger's append (whole or torn), live and corrected records, `historical_predecessors`, and `verify_store` as a predicate. |
| `Ingestion` | The service: one action per file operation, the properties, and the refinement mapping to `CorpusPromise`. |
| `CorpusPromise` | The abstract specification: a map that only grows, a truthful journal, claims retired only in favour of a live one, answers that are in the journal. No files, no writers, no steps. |
| `IngestionInvariants` | The inductive invariants of the service: what a delivery relies on at each step, and what holds besides until the first interruption. |
| `MCIngestion` | The events, the digest and the symmetry of the TLC runs. |
| `Snapshots` | `build_snapshot` over `Ingestion`: several builders read the store step by step while the service goes on, and publish directories named after what they read. |
| `MCSnapshots` | The order of identities, the chain of claims and the symmetry of the snapshot runs. |
| `LearningProjection` | `learning.py`: the learning observations of one event, as operators. |
| `Reconstruction` | The algorithms of the miner over one harvest: normalization, temporal graph, paths, validating run, equivalence, flakiness, confounders, grades, episodes. No state. |
| `HistoricalBootstrap` | The bootstrap as a state machine over `Reconstruction`: provider requests, checkpoint, derived store, ingestion event by event, and the pull request that changes meanwhile. |
| `HistoryInvariants` | The inductive invariants of the bootstrap: what is at hand of a harvest between two requests, what of it episodes are judged by, and what is admitted of an episode between two admissions. |
| `MCHistory` | Commits, results of runs and pull requests for TLC. |
| `RuleCompilation` | Analytics and compilation over a corpus, with `LearningProjection`: recurrence, effectiveness, score, candidate state, fixtures. No state. |
| `DefensePacks` | Compilations, packs, keys, manifests, channel indexes and retirements, over `RuleCompilation`. |
| `Effectiveness` | The outcome store, metrics, recommendations and reports, composed with `DefensePacks`: outcomes are those of rules of packs that are in a channel. |
| `GovernanceInvariants` | The inductive invariants of publication and of the outcome store. |
| `MCGovernance` | Corpora, sightings and budgets for TLC. |
| `IngestionProofs`, `SoloProofs`, `RefinementProofs`, `SnapshotProofs`, `BootstrapProofs`, `CreditProofs`, `PackProofs`, `OutcomeProofs` | The theorems (section 5). |

### How the model corresponds to the code

State. A directory of JSON files is a function from identities to documents
with `Absent` for a file that is not there; a document is reduced to the fields
that can differ between two documents of one identity (a record: its event
identity, stream, payload and envelope; a quarantine document or a correction:
its time). `ledger` is the sequence of lines of `events.jsonl`; a line that does
not parse is `Torn`; `terminated` says whether the file ends in a newline. An
event's `payload` stands for its normalized payload and for the hash of it,
`stream` for producer, producer contract and event class, which the code only
ever compares together, `clean` for the outcome of normalization, validation
and redaction, `rows` for the learning rows (`Absent` when the projection
raises, which the code turns into a limitation of the answer).

Processes. A *writer* is whoever runs the service: the ingress, a CLI command,
the bootstrap. `job[w]` holds the local variables of the delivery `w` is on and
the step it is at; a crash, an `OSError` or a lost response (`Interrupt`)
forgets it. `outbox` holds the events whose producer waits for an answer.

| Code | Actions |
| --- | --- |
| `IngestionService.ingest`: clock, `next_sequence`, screening | `Deliver` |
| `read_record`, duplicate or `fingerprint_collision` | `ReadRecord` |
| `write_record`: `_write_once`, then the index | `WriteRecord`, `ReplaceRecord`, `ReadIndex`, `ReplaceIndex` |
| `_project_learning` | `ProjectLearning`, `WriteObservations`, `ReplaceObservations` |
| `_quarantine` | `WriteQuarantine`, `ReplaceQuarantine` |
| `append_ledger` | `AppendLedger` |
| `ingest_or_correct`: records listed, corrections listed, `record_correction` for each | `FindClaims`, `FindPredecessors`, `WriteCorrection`, `ReplaceCorrection`, `CorrectionsDone` |
| the result, the HTTP status | `Reply` |
| `StorageError`, which no caller handles | `Collide`, in the `Write...` actions |
| `OSError` (503), a crash, a lost response | `Interrupt` |
| `utc_now` | `Tick` |

The contract (`.l9/ingestion-contract.yaml`) lists `append_ledger` before
`persist_record_or_quarantine`; the code persists first, and the model follows
the code.

Builders. `Snapshots` extends `Ingestion`: a step is one of the service, which
the builders do not see, or one of a builder, which leaves the store alone.
`build[b]` holds what builder `b` has read so far. Partitions, Parquet files
and the manifest are a function of the records read and of the supersession
read. A snapshot's identity is the identity document (records, record hashes and
learning rows) rather than a digest of it; `snapshots[id]` is what a directory
holds beyond that, which is the supersession.

| Code | Actions |
| --- | --- |
| `verify_store` | `VerifyStore` |
| `derived_superseded_by`: records, then corrections | `ListClaims`, `ReadCorrections` |
| `load_verified_records`: file names, then each record and its rows | `ListRecords`, `ReadRecordAndRows` |
| `destination.exists()`, the hash of an existing manifest | `CheckDestination` |
| `os.replace` of the temporary directory | `ReplaceDirectory` |
| a crash, an `OSError`, `finally: rmtree` | `AbandonBuild` |

`answered` and `calm` in a build, and `reports`, are history: no action's guard
reads them.

The bootstrap. `world` is the pull request at the provider: its commits in
order, the timeline events that matter (and whether it is to be squashed), and
the attempts of each workflow run, running or ended with the jobs' results.
`Shape` gives each commit its parents, its files (with what `_is_test`,
`_is_env`, `_is_lock` and `_weakening` look for) and whether a secret is in it.
`boot` holds the command's local variables: the step, the harvest `h` so far,
the episodes, the events still to be admitted and the answers. One request for
a list is one step, with its retries and pages inside: nothing else acts on what
a half-read list holds, and the provider is read at one instant per list.
`records` and `live` are the corpus as `CorpusPromise` has it: admitting an
event with its correction is one step here, and nine in `Ingestion`.

| Code | Actions |
| --- | --- |
| pull request and timeline | `FetchTimeline` |
| list of commits and each commit document | `FetchCommits` |
| runs of a revision, earlier attempts one by one | `FetchRuns` |
| jobs of each run | `FetchJobs` |
| `_raise_status`, page bound reached, retries used up | `FailHarvest` |
| `CheckpointStore.write` | `WriteCheckpoint` |
| `screen_observations`, `normalize_observations`, `reconstruct_episodes` | `Reconstruct` |
| `write_episode` for each | `StoreEpisodes` |
| `HistoricalEventProjector.project` for each, a `ValueError` ends the bootstrap | `Project` |
| `ingest_or_correct` | `Ingest` |
| the result; a crash or an exception | `Finish`, `Crash` |
| the pull request | `Push`, `ForcePush`, `Trigger`, `Complete` |

`derived` is what `write_episode` leaves; the observations and normalized
documents it stores beside are functions of the harvest and never read back, as
is the checkpoint. `hash` orders the observation identities, which are digests:
the code breaks ties by them, and the model leaves the order open.

Packs and outcomes. Compilations, packs and manifests lie in directories or
files of their own that nothing overwrites, so each kind is a set of what they
hold: a compilation is the corpus it was compiled from, a pack a version and a
compilation. Candidates are computed from the corpus by the operators of
`RuleCompilation` (`Catalog`), with scores in millionths as integers; the code
rounds halves to even where the model rounds them up, which no score of the
instances meets. `keyFiles` are the two key files, each with the
number of the key it holds, `None` or `Damaged`. A channel has one index file.
An outcome file is a record with its identity and its content, `Damaged` while it
is half written.

| Code | Actions |
| --- | --- |
| snapshot, analytics and compilation commands | `Compile` |
| `assemble_pack` | `Assemble` |
| `generate_keypair`: public write, private write and chmod, removal of both | `StartKeygen`, `WritePublicKey`, `FailPublicKey`, `WritePrivateKey`, `FailPrivateKey`, `CrashKeygen` |
| `sign_publication` | `Sign` |
| `verify_publication` | `Verifies` (a predicate) |
| `update_channel`: index read, index replaced | `ReadIndex`, `ReplaceIndex`, `CrashUpdate` |
| `retire_pack` | `Retire` |
| `OutcomeStore.ingest`: exists and same bytes, `O_EXCL`, write, ledger line | `CheckRecord`, `CreateRecord`, `WriteRecord`, `JournalOutcome`, `StopIngest` |
| `OutcomeStore.load`: file names, then each file; `build_effectiveness_report` | `ListOutcomes`, `BuildReport`, `RefuseReport` |

`activations`, `overlapped`, `keygens` past its generation, `answered` and
`reports` are history.

Operators called *fault* in a comment (`DeliverUnscreened`, `ReadRecordByIndex`,
...) are plausible mistakes in the code. They are no part of the specification:
each stands next to the action it would replace and shows which property
notices it.

## 3. Runs

"Claims" are two reconstructions of one historical event (same event and run
identity, other payload) and an event the screening refuses; "bundles" are one
finding bundle under two event identities and a third event whose digest
collides with it; `snapshot_race` takes a chain of three reconstructions of one event.

| Run | Instance | Shows |
| --- | --- | --- |
| `recovery_claims` | claims, 1 writer, both entry points, 2 interruptions, 1 redelivery, clock 0..1 | `TypeOK`, `StoreVerifies`, `AcceptedOnce`, `AnswersJournalled`, `ClaimSurvives`, `QuarantineKeepsOut`, `NothingOverwritten`, `JournalMatchesCorpus` (until the first interruption), that the service implements `CorpusPromise` (`KeepsPromise`) and, under fairness, `CleanEventsAdmitted` |
| `recovery_bundles` | bundles, same bounds, `ingest` | `AnswersStored`, `OnlyQuarantineCollides`, and the invariant `SoloInv` of the proofs |
| `two_writers` | claims, 2 writers, no interruption | what a second writer cannot break: `ReferencesHold`, `AnswersStored`, `AnswersJournalled`, `QuarantineKeepsOut`, and `OneLiveClaim`: two claims of an event are never both live in the end |
| `quarantine_redelivery` | violation | `QuarantineIdempotent`: the contract calls repeated quarantine observations idempotent; a later one raises `StorageError` |
| `interrupted_replacement` | violation | `OneLiveClaim`: a replacement interrupted before its correction is never completed, as its retry is a duplicate |
| `snapshots` | the two claims, 1 writer, 1 interruption, torn appends, 2 builders, 2 builds | `SnapshotsImmutable`, `BuildsTruthful`, `AnsweredIncluded`, `SupersessionClosed`, `CalmSupersession`, and `SnapshotInv` of the proofs |
| `snapshot_correction` | violation | `CorrectionsMakeSnapshots`: a correction changes a snapshot's content and not its identity, so a build after it ends in `SnapshotCollisionError` if there is one from before it |
| `snapshot_race` | violation | `SupersessionResolves`: a third claim admitted between the two listings of a build makes the first two supersede each other, in a snapshot nothing can replace |
| `flaky_credit` | violation | `FlakesUncredited`: a failure whose attempt was still running when it was listed is credited to a repair although it passed on its own revision |
| `borrowed_evidence` | violation | `UnknownEarnsNothing`: a failure attributed to no rule is published although nothing was found about any of its repairs, on what was found about another failure |
| `history` | eleven pull requests of up to three commits, of which one workflow has up to two runs each, one change while they are harvested, 2 bootstraps, 1 crash, pages of 3, at most 3, two ways the hashes may fall | `CreditEarned`, `HashIrrelevant`, `HarvestComplete`, `ParentsAdmitted`, `WholeEpisodes`, `DoneIsInForce`, `BootstrapTypeOK` |
| `governance` | four batches of events, three failures of which one has a rule, two versions, 2 operators, 2 ingesters, six budgets of operations | `PromotionEarned`, `KeyPairWhole`, `ActiveCanRollBack`, `IndexTellsActivations`, `LedgerTruthful`, `ReportsCountAnswered`, `RecommendationsEarned`, `GovernanceTypeOK` |

What the last two are about. `CreditEarned` says, in terms of the harvest and
not of the algorithm, when a verification event may teach a confirmed true
positive: the failing job succeeded at a later revision, on a single line of
commits with nothing weakened or hidden, at the first run of it there, with the
same steps run, nothing else failing, and the failure never passed on its own
revision. `Between` gives the commits of that line by closure under children and
parents, without trails. Three exceptions are written out because the code has
them: a failure whose attempt was listed before it ended is not compared with the
passes of its revision (`flaky_credit`); of steps of one name only the last one
counts (`equivalence.py`, `_named_conclusions`); and a job without steps is
compared with nothing (`equivalence.py:52`). `HashIrrelevant` says where observation hashes decide, and that they do nowhere else:
an episode may depend on them if two attempts of equal number of two runs on the
failing revision, or two equally near later attempts, come next after a failure
(`reconstruction.py:462`, `:470`), if two jobs of an attempt have one display name
(`:199`, `:402`), or if two runs on a revision fail alike in attempts of one number, of
which the episode of one identity stays (`:353`). All three are ordinary: a pull
request that is opened again runs its workflows again on the same head. Each of the
three exceptions is met in the run, and without any one of them the property is
violated there. `DoneIsInForce` says that a finished bootstrap leaves what it had
accepted in force, whatever an earlier one was stopped at. `PromotionEarned`
recounts a corpus and asks of each published rule nine occurrences in four
scopes, two thirds of its validated repairs passed and a confirmed true
positive, which is what the weights of `scoring.py` amount to when effort is not
known; it excludes that an unknown ratio scores. Whose repairs these are it takes
from the code: those attributed to the failure's rule if all of its rows name one,
and else those of all rows that name none, whichever failure they are of
(`candidates.py:72`), superseded claims among them. ADR-INTEL-016, -005 and -030 say
otherwise. For the first, `UnknownEarnsNothing` asks that one finding of the
published failure itself, or of its rule, was classified, and `borrowed_evidence`
shows that the code does not: ten repairs reported by the resolver, never classified,
are published on the true positive of an import error. The second is in section 7; a
superseded claim looks like any other to the projection, and so to the models.
Ratios are rounded to millionths
before they are weighed, so that above 400 000 outcomes one may be missing from a
margin (`Lost`); below, the margins are exact. `ReportsCountAnswered` covers
the outcomes whose first ingestion stopped before its ledger line: they are
journalled as duplicates and counted from their files.

Bounds. Two claims of an event are enough for every relation between two claims
(duplicate, predecessor, corrected, live); the third in a chain makes a claim
with two predecessors, which is what supersession must choose among (`snapshot_race`;
that it chooses a live one when nothing interferes, and that one claim of a chain is
left, `CalmAlwaysCurrent` and `OneClaimStaysLive` prove of chains of any length). Two
builds
are one before and one after a correction, or two at once. Two interruptions
reach an interruption of a retry. One redelivery reaches every duplicate, of a
first, a replaced or a refused event.
Two clock values tell "same time" from "later", and the code compares times only
through the bytes of a document. The runs stay near a million states; the proofs
remove the bounds for everything but liveness.

The worlds of `history` each start where one judgement is about to be made: two
failures before a run under way, a rerun, a rerun of a pass, a failure that also passed, two runs
equally near, a merge, a commit with a secret, a run whose jobs fill the
pages but for one attempt, a second run on a revision that may fail like the first,
one whose attempts come next together with the first's, and a validation with two
jobs of the failed one's name. `RunIds` gives a workflow two runs on a revision, `Jobs`
an attempt up to three jobs with two names (`JobName`), and `MaxAttempts` bounds the
attempts of a run, one more than the page bound of 3 pages of 3 objects can list the
jobs of. One change puts each on either side of it, and two
bootstraps see it before and after. `governance` chooses one of six budgets, each
for one part: keys with failures, compilations of a growing corpus, channels with
crashes and overlapping updates, retirement, outcomes with a crash, and outcomes
without. Its corpora sit on a threshold: eight credited repairs in four
repositories are not enough, and one more in a fifth is, of import errors, which have
no rule, as of type errors, which have one by an identity reported as canonical, as
`tests/ingestion/test_historical_learning_projection.py` does. Minimum samples are 2 and
3 instead of 20 and 100; the ratios are those of the code.

Symmetry. `two_writers` takes permutations of the two writers; they are model
values and no action, property or constant tells them apart, and the run checks
invariants only. `snapshots` does the same with its builders; its action property
treats them alike. `governance` takes permutations of the two operators, of the
two ingesters and of the two versions, which are never compared but for equality, and
checks invariants only.

Deadlock is not checked: deliveries are finitely many (a settled outbox and no
redelivery left), and bootstraps and operations are bounded, so every run ends in
states where nothing is left to do.

## 4. Fairness

`FairSpec` assumes weak fairness of each writer's `Progress`, which is a process
that runs a straight line of code to its end, and strong fairness of the
delivery of each event that waits in the outbox. The latter is the producer's
outbox, which retries on 503 and on a missing answer (`http_ingress.py:168-170`),
while the single-request server takes one delivery at a time and so is free
infinitely often, not continuously. Nothing fair makes the clock tick or an
interruption happen. An interruption ends the delivery, and `MaxInterrupts`
bounds them, which stands for storage that is in the end available.

`history` and `governance` check safety only, without fairness: a bootstrap or a
command is run by an operator, and nothing in the code runs it again.

`CleanEventsAdmitted` says nothing of refused events: one whose first delivery
was interrupted after its quarantine document was written collides with it for
ever, which is the finding of `quarantine_redelivery`.

## 5. What is proved

Theorems hold for every set of events, every digest, every set of writers,
operators, ingesters and builders, every pull request and corpus, and every bound.
The assumptions are those the modules declare, and TLC evaluates each of them:

* `Absent`, `Torn`, `Idle`, `None` and `Damaged` are no documents, lines, jobs,
  builds, packs, manifests, indexes, keys or outcomes; bounds are natural numbers;
* `SnapshotAssumption`: every nonempty set of record identities has a greatest one;
* `WorldAssumption`: a pull request has each commit once, workflows, run
  identities and jobs are finitely many, a run has no more than `MaxAttempts` attempts, and the steps of a job are a sequence;
* `ShapeAssumption`: commits are finitely many, each has a sequence of parents, and
  none is its own ancestor; `NoneAssumption` and `LearnedAssumption`: `None` is no
  conclusion, no trail of commits and no learning outcome;
* `ContentsAssumption`: a batch is finitely many events with finitely many rows;
* `SampleAssumption`: minimum samples are at least one.

| Theorem | States | For |
| --- | --- | --- |
| `TypeCorrect` | `[]TypeOK` | any number of writers |
| `ReferencesAlwaysHold` | `[]ReferencesHold` | any number of writers, torn appends |
| `QuarantineAlwaysKeepsOut` | `[]QuarantineKeepsOut` | any number of writers, torn appends |
| `WritersAnswerForTheStore` | `[]AnswersStored` | any number of writers, torn appends; no two events collide (`DigestsDiffer`) |
| `AnswersAlwaysJournalled` | `[]AnswersJournalled` | any number of writers, whole appends |
| `SoloInvariant` | `[]SoloInv` | one writer, whole appends (`Solo`) |
| `StoreAlwaysVerifies`, `AcceptedAtMostOnce`, `AnswersAlwaysStored`, `ClaimAlwaysSurvives`, `QuarantineAloneCollides` | the invariants of the recovery runs | `Solo` |
| `NothingEverOverwritten` | `NothingOverwritten` | `Solo` |
| `JournalAlwaysMatches`, `OneClaimStaysLive` | `[]JournalMatchesCorpus`, and `OneLiveClaim` as long as `interrupts = MaxInterrupts` | `Solo`; for the second, `ingest_or_correct` only |
| `ServiceKeepsPromise` | `Spec => KeepsPromise` | `Solo` |
| `SnapshotsNeverChange` | `SnapshotsImmutable` | any number of writers and builders |
| `SnapshotInvariant`, `SnapshotTyped`, `BuildsAlwaysTruthful`, `AnsweredAlwaysIncluded`, `SupersessionAlwaysClosed` | `[]SnapshotInv` and its parts | `Solo`, any number of builders |
| `CalmAlwaysCurrent` | `[]CalmSupersession` | `Solo`, any number of builders |
| `HistoryInvariant`, `BootstrapTyped`, `HarvestAlwaysComplete`, `ParentsAlwaysAdmitted`, `EpisodesAlwaysWhole`, `DoneAlwaysInForce` | `[]HistoryInv` and its parts | any pull request, changes, crashes and bootstraps |
| `JudgedInvariant`, `CreditAlwaysEarned`, `HashDecidesTiesOnly` | `[]JudgedInv`, `[]CreditEarned`, `[]HashIrrelevant` | any graph of commits, attempts, jobs and steps |
| `PackInvariant`, `KeyPairAlwaysWhole`, `ActiveAlwaysRollsBack`, `IndexAlwaysTells`, `PromotionAlwaysEarned` | `[]PackInv` and what follows from it | any number of operators and operations |
| `GovernanceInvariant`, `GovernanceTyped`, `LedgerAlwaysTruthful`, `AnsweredAlwaysCounted`, `RecommendationsAlwaysEarned` | `[]GovernanceInv` and what follows from it | any number of ingesters |

The ingestion service. Six layers.

1. `TypeInv` (`IngestionProofs`) is `TypeOK` with what a job must hold at the
   steps that write from it, and the fact that an unterminated ledger is not
   empty, which `Extend` needs.
2. `OwnInv` (the same module) adds, for each job, that a delivery past its
   record write finds the record stored, that only clean events get that far,
   and that the claims it corrects are stored. None of this is disturbed by
   another writer, since records only appear. References hold because every
   step that names a record comes after the step that stores it.
3. `FiledInv` and `JournalInv` (the same module) say what a delivery has left behind
   it when only its ledger entry, or only its answer, is left to do. That stays
   whoever else is at work: files are replaced and never removed, and lines of the
   ledger stay if appends are whole. That the file of a record holds the payload of
   every event answered for follows from `QuarantineKeepsOut` if no two digests
   collide; with a collision the last of two racing writers decides it, so for any
   number of writers `DigestsDiffer` cannot go. `AnswersAlwaysStored` does without it
   for one writer, which sees the collision and quarantines.
4. `SoloInv` (`SoloProofs`) adds to `OwnInv` what only a single writer may count on: that
   the number it read is still the next one, that no accepted line of its
   record is there yet, that the files it found missing are still missing, and
   that the claims it found live are still live. The safety properties are not
   inductive without it: `AcceptedOnce` needs that a record without a file has
   no ledger line, `ClaimSurvives` that the claim a correction names is itself
   uncorrected when the correction is written.
   `Solo` is needed: a torn append (section 7) is the counterexample without its
   second half, and two writers that read one ledger length number two lines alike.
   `UninterruptedInv` adds what holds until something is interrupted: a record
   without a ledger line or an index entry belongs to the delivery under way, and
   of two claims of an event one is corrected or about to be. The hypothesis
   `interrupts = MaxInterrupts` cannot go: `interrupted_replacement` is the
   counterexample to `OneLiveClaim` after an interruption. Nor can, for
   `OneLiveClaim`, the one about `ingest`, which corrects nothing.
5. `RefinementProofs` maps each file operation `CorpusPromise` speaks of to its
   action (record file: `Admit`; ledger line: `Journal`; correction file:
   `Retire`; reply: `Answer`) and every other step to a stutter.
6. `SnapshotProofs` shows that `SnapshotSpec` implies `Spec`, so that every
   theorem of the service holds while snapshots are built, and that what a build
   has read stays true until it is published (`SnapshotInv`), because the
   service only adds to the store. `AnsweredIncluded` rests on `AnswersStored`,
   and `SupersessionClosed` on `CorrectedAsItself`: a record is corrected under
   its own event identity only. `CalmInv` says that a build during which no step
   of the service was taken knows the store as it is, step by step.

The bootstrap. `HarvestComplete` speaks of a finished harvest; to be inductive it
is said of every moment of one (`HarvestInv`): which attempts have been listed
(`Unread`, `Unlisted`), that an attempt at hand is one the world has, that an ended
attempt never changes, and that attempts and jobs are finite, which the arithmetic
of pages needs. `WholeEpisodes` and `DoneIsInForce` need what is left of
`boot.events` to be whole episodes in order, but for the first, and `HalfwayOK`:
of an episode half admitted, either all its claims were admitted before or exactly
those up to the next event are in force.

What is credited. `CreditEarned` says of the commits between a failure and its
validation what the code finds out by walking trails, so the proof has to connect the
two. `Trails` is a function on lengths, and `TrailsAre` shows by a least
counterexample (`WFMin` again) that it has exactly the chained sequences of each
length; as no commit is its own ancestor, no trail comes to a commit twice
(`StopsApart`) and none is longer than there are commits (`TrailsShort`), so `Path`
is the only trail if there is just one (`PathIs`). A trail can be cut and joined
(`Cut`, `Joined`), so a second way from or to any commit of a single trail would make
a second trail: the commits `Between` are those of the trail, and each has one parent
among them (`BetweenIs`). `NextRunNearest` then excludes a run at any of them before
the validation. From the verdict back: `CreditedPassed` and `NotWithheld` say which
branch of `assess_attribution` a credited episode came through, `AssessedClean` what
had to hold there, `StepsCompared` and `NoFlake` what that means for steps and
attempts. All this is about a harvest `h` with `Judgeable(h)`; `JudgedInv`, which is
inductive together with `HistoryInv`, makes every harvest such a one at the moment its
episodes are there: in particular a failed job found beside an ended attempt is a job
of a failed attempt, although the two were read at different times. The proof attempt
is what turned up the finding of `flaky_credit`: the lemma is false for an attempt
listed before it ended. `HashDecidesTiesOnly` starts from the three things that may be there
twice: without a tie `NextRun` has one attempt to choose from under any hashes, since
distances are lengths of sequences (`NextRunIs`, `FollowsApart`); without a second job
of a name `Named` has one (`NamedOnce`); and without like failures on a revision no two
episodes share an identity, so that all are kept (`AllKept`). It is no theorem without
them, and `history` has a harvest of each kind.

Publication. Per key generation: which files carry its number at each step, and
that at most one is under way. `ManifestsInv` says that the rollback of a manifest is
a pack that was signed; `IndexSound` and `Tells` say of an index, and of what an
update has read of it, that its packs were signed for the channel and that, unless
updates overlapped, its history is the one of `activations`.

The outcome store. `IngestAt` says for each ingestion what it may count on (the file
it created is the one it writes, whoever else comes meanwhile), and `FilesInv` that a
whole file holds an outcome of its identity. `LedgerTruthful` follows because the
accepted line of a record is written by the one who created its file.

`PromotionAlwaysEarned` and `RecommendationsAlwaysEarned` are about sums and ratios
over sets of any size. The first adds up what each summand of a score can contribute
at most (`ScoreEarned`) and turns each missing point into a count; the proof showed
that the rounding of the ratios costs one outcome in 400 000, which no instance of
TLC's would have. The second rests on `TotalUnique`, that a sum over a finite set of
rows does not depend on the order of its summands, and on `RowReaches` and `Blame`,
that a row of a report reaches a threshold exactly when the outcomes of its rule do.
`TotalUnique` is proved by a least counterexample among finite sets (`WFMin`), since
the induction theorems of the library are out of the provers' reach.

Only model-checked: `CleanEventsAdmitted` (liveness under fairness is out of
the prover's reach).

## 6. What is left out

Of the modelled components: temporary files, `fsync` and the durability of a
rename (a replacement is atomic and lasts; the code never syncs a directory, so
a power failure might lose a file whose ledger line is there); `has_record`,
which nothing calls; the order in which corrections are written (any order is
allowed); malformed JSON in a stored file; an event `normalize_event` fails on
with another exception than the ones `ingest` catches. `two_writers` bounds
interruptions to none, and a digest collision between two writers that race is
outside `AnswersStored`. Corrections recorded by hand (`record_correction`
outside `ingest_or_correct`), lifecycle states that keep a record out of a
snapshot (nothing sets one), the digest of a snapshot identity, a destination
directory without a manifest, `verify_snapshot` and the DuckDB projection.

Of the miner: times, logs, check runs and refs, which decide nothing; the pages
of one commit's files, all of them read in one step; waiting between retries; the
limitations and completeness a report words differently; a lifecycle in which two
bootstraps run at once (each event would then be admitted by two writers, which is
`two_writers` of the service). A harvest where an attempt has no number
(the provider client fills it in, `provider.py:152`). The outcome
`partial_resolution` and the collision branch of the screening are never reached.

Of publication and effectiveness: the text of emitted rules, the archive's bytes,
the compatibility matrix, Ed25519, the verification commands of directories
(`compilation/verify.py`, `analytics/verify.py`, `effectiveness/verify.py`), the
comparison of two reports (`drift.py`), co-occurrence and effort, a torn line of
the outcome ledger (nothing reads it). A manifest is one of a set: signing twice for
one path and overwriting it is left to the operator.

Not modelled at all, with the reason in `PROJECT.json`: event screening (text
patterns over a single event; a field of the event in every model), producer
adapters (field by field and without state), the command line (one call each), and
the request checks of the ingress. Parquet and DuckDB and the GitHub API stay
external.

## 7. What the code does and a document says otherwise

Shown by a violation run and listed under `findings`: `quarantine_redelivery`,
`interrupted_replacement`, `snapshot_correction`, `snapshot_race`, `flaky_credit`, `borrowed_evidence`.

Met while modelling and reproduced by the models as the code has it, without a run
of its own:

* `append_ledger` (`ingestion/storage.py:138`) appends to whatever the file ends in:
  after an append cut short, the next delivery is answered and its line is glued to
  the torn one (against ADR-INTEL-006, "Repeated observations of the same logical
  record append ledger entries"). With `TornAppends = TRUE` in
  `Ingestion_recovery_claims.cfg` TLC finds `AnswersJournalled` violated.
* `equivalence.py:112` keeps the last conclusion of a step name: of two steps with the
  same name, the first may have become skipped without an objection.
* `equivalence.py:52` compares names of steps only if both jobs have some: a failed job
  without steps is validated by a job of any steps, at 15 points of completeness.
* `analytics/projection.py:30` never looks at `superseded_by`: superseded claims
  count towards recurrence and success (against ADR-INTEL-005 and ADR-INTEL-030).
* No producer reports effort or a confirmed false positive, and findings of the SDK
  have no outcome, so a finding attributed to a rule cannot be promoted; a historical
  failure with a canonical identity can (`learning.py:360`), but the miner calls none
  of its own canonical (`normalization.py:242`), so what it mines is promoted on the
  evidence of all unattributed rows.
* `historical/equivalence.py:59`: a validation whose steps are unknown is
  `equivalent` with less completeness (ADR-INTEL-029 asks for equivalent validation).
* `historical/provider.py:361`: a list of exactly `max_pages` full pages raises
  although it is complete.
* `historical/provider.py:104` and `:122`: a force push between timeline and commit
  list is not seen as a confounder.
* `ingestion/service.py:147`: an episode reconstructed as it once was, after another
  version replaced it, is a duplicate; the version in between stays in force.
* `historical/reconstruction.py:448`: a nearer validation that arrives between two
  bootstraps makes another episode of the same failure; both sets of claims stay.
* `publication/channels.py:41`: updating a channel again to the pack that is active
  makes it its own previous pack; two updates at once lose one from the history.
* `publication/retirement.py:14`: nothing reads retirements, and `sign_publication`
  takes any manifest as the one to return to, also a retired one or its own.
* `publication/crypto.py:102`: the first write goes over an existing public key and is
  outside the `try`, so its failure may leave a public key, damaged or whole, that
  does not fit the private one.
* `effectiveness/storage.py:57`: a half-written outcome file is a collision for every
  retry and stops the reports of every pack.
* `effectiveness/recommendations.py:9`: outcomes that say nothing of a rule count
  towards its sample, so a sample of them alone is `retain` for the rule.

## 8. Plan

Done: every component with state of its own, the algorithms between them, and a
theorem for each safety property a run checks, as general as the code keeps it. What
only one writer keeps is proved for one writer, with the counterexamples of section 5;
liveness stays with TLC.
