------------------------ MODULE HistoricalBootstrap -------------------------
(***************************************************************************)
(* The historical bootstrap: harvesting one pull request from its provider *)
(* request by request, screening and reconstructing what was harvested,    *)
(* storing the episodes and admitting their events to the corpus           *)
(* (historical/bootstrap.py, provider.py, acquisition.py, safety.py,       *)
(* storage.py, admission.py), while the pull request goes on.              *)
(*                                                                         *)
(* The corpus is seen as CorpusPromise sees it: admitting one event is one *)
(* step here, and the module Ingestion takes it apart.                     *)
(***************************************************************************)
EXTENDS Reconstruction

CONSTANTS
  Running,        \* an attempt that has not ended
  RunIds,         \* the runs a workflow may have on one revision
  Jobs,           \* the jobs an attempt may have
  JobName,        \* JobName[j]: the display name of job j
  Results,        \* what an attempt can end with: from its jobs to results
  Lineages,       \* closed-loop lineages an operator may pass
  Hashes,         \* ways the hashes of observations may fall
  InitialWorlds,  \* pull requests to start from
  PageSize, MaxPages, MaxRetries,   \* of the provider client
  MaxAttempts,    \* bound on the attempts of a run
  MaxChanges,     \* bound on what happens to the pull request
  MaxBootstraps,  \* bound on bootstraps
  MaxCrashes      \* bound on crashes of a bootstrap

VARIABLES
  world,       \* the pull request: commits, signals and attempts of runs
  hash,        \* the way the hashes fall, fixed at the start
  boot,        \* the bootstrap running, with what it has read so far
  checkpoint,  \* the runs of the last complete harvest
  derived,     \* the derived store's episodes
  records,     \* admitted events, each an identity and a payload
  live,        \* those that no correction superseded
  bounds       \* changes, bootstraps and crashes so far

vars == <<world, hash, boot, checkpoint, derived, records, live, bounds>>

Learning == INSTANCE LearningProjection

\* A pull request opened again runs a workflow again on the same revision.
Runs == Revisions \X Workflows \X RunIds

Attempts == Runs \X (1..MaxAttempts)

\* What has a hash: attempts, their jobs and the failures of those.
Observed ==
  Attempts \cup {<<a[1], a[2], id>> : a \in Attempts, id \in Jobs}
    \cup {<<a[1], a[2], id, "failure">> : a \in Attempts, id \in Jobs}

Idle == [step |-> "idle"]

At(step) == boot.step = step

\* No value is no learning outcome and no disposition either.
ASSUME LearnedAssumption ==
  None \notin Learning!ValidationOutcomes \cup {"confirmed_true_positive"}

ASSUME BoundsAssumption ==
  /\ {PageSize, MaxPages} \subseteq Nat \ {0}
  /\ {MaxAttempts, MaxRetries, MaxChanges, MaxBootstraps, MaxCrashes} \subseteq Nat

\* Hashes of different observations differ.
ASSUME HashesAssumption ==
  \A way \in DOMAIN Hashes :
    Hashes[way] \in [Observed -> Nat] /\ IsInjective(Hashes[way])

\* A pull request has each commit once, and an attempt a finite number of jobs,
\* each of some steps in a row.
ASSUME WorldAssumption ==
  /\ IsFiniteSet(Workflows) /\ IsFiniteSet(RunIds) /\ IsFiniteSet(Jobs)
  /\ \A result \in Results :
       /\ DOMAIN result \subseteq Jobs
       /\ \A id \in DOMAIN result :
            result[id].steps \in Seq(ToSet(result[id].steps))
  /\ \A w \in InitialWorlds :
       /\ w = [commits |-> w.commits, signals |-> w.signals, attempts |-> w.attempts]
       /\ w.commits \in Seq(Revisions) /\ IsInjective(w.commits)
       /\ w.signals \subseteq Signals
       /\ w.attempts \in [Runs -> Seq(Results \cup {Running})]
       /\ \A run \in Runs : Len(w.attempts[run]) <= MaxAttempts

Init ==
  /\ world \in InitialWorlds
  /\ hash \in DOMAIN Hashes
  /\ boot = Idle
  /\ checkpoint = None
  /\ derived = {}
  /\ records = {}
  /\ live = {}
  /\ bounds = [changes |-> 0, bootstraps |-> 0, crashes |-> 0]

-----------------------------------------------------------------------------
(***************************************************************************)
(* The pull request.                                                       *)
(***************************************************************************)
Change ==
  /\ bounds.changes < MaxChanges
  /\ bounds' = [bounds EXCEPT !.changes = @ + 1]
  /\ UNCHANGED <<hash, boot, checkpoint, derived, records, live>>

Push(r) ==
  /\ r \notin ToSet(world.commits)
  /\ Change
  /\ world' = [world EXCEPT !.commits = Append(@, r)]

ForcePush ==
  /\ world.commits # <<>>
  /\ Change
  /\ world' = [world EXCEPT !.commits = Front(@),
                            !.signals = @ \cup {"head_ref_force_pushed"}]

\* A first attempt, or one more once the last has ended.
Trigger(run) ==
  /\ run[1] \in ToSet(world.commits)
  /\ world.attempts[run] # <<>> => Last(world.attempts[run]) # Running
  /\ Len(world.attempts[run]) < MaxAttempts
  /\ Change
  /\ world' = [world EXCEPT !.attempts[run] = Append(@, Running)]

Complete(run, result) ==
  /\ world.attempts[run] # <<>>
  /\ Last(world.attempts[run]) = Running
  /\ Change
  /\ world' = [world EXCEPT !.attempts[run] = Append(Front(@), result)]

\* The conclusion of an attempt, None while it runs.
Conclusion(result) ==
  LET concluded == {result[id].conclusion : id \in DOMAIN result}
  IN IF result = Running THEN None
     ELSE IF "failure" \in concluded THEN "failure"
     ELSE IF "cancelled" \in concluded THEN "cancelled"
     ELSE "success"

-----------------------------------------------------------------------------
(***************************************************************************)
(* The provider client.                                                    *)
(***************************************************************************)
Statuses == {"ok", "transient", "gone", "refused"}

\* _raw_request: the first answer that is not transient, or the last one.
RawRequest(statuses) ==
  IF \E i \in DOMAIN statuses : statuses[i] # "transient"
    THEN statuses[CHOOSE i \in DOMAIN statuses :
                    /\ statuses[i] # "transient"
                    /\ \A k \in 1..(i - 1) : statuses[k] = "transient"]
    ELSE "transient"

Answers == {RawRequest(statuses) : statuses \in [1..(MaxRetries + 1) -> Statuses]}

\* The objects on page k of a list of n.
PageLength(n, k) ==
  IF n <= (k - 1) * PageSize THEN 0 ELSE Least(PageSize, n - (k - 1) * PageSize)

\* Fault: what was read when the page bound is reached passes for the list.
CollectedUpToBound(objects) ==
  CHOOSE part \in SUBSET objects :
    Cardinality(part) = Least(Cardinality(objects), MaxPages * PageSize)

\* _get_list, _get_collection: pages are read until a short one; None when
\* there is none within the bound.
Collected(objects) ==
  IF \E k \in 1..MaxPages : PageLength(Cardinality(objects), k) < PageSize
    THEN objects ELSE None

Goto(step) == boot' = [boot EXCEPT !.step = step]

Quit == boot' = Idle

Fetching(step) ==
  /\ At(step)
  /\ UNCHANGED <<world, hash, checkpoint, derived, records, live, bounds>>

Start(lineage) ==
  /\ boot = Idle \/ At("done")
  /\ bounds.bootstraps < MaxBootstraps
  /\ bounds' = [bounds EXCEPT !.bootstraps = @ + 1]
  /\ boot' = [step |-> "timeline", todo |-> <<>>, events |-> <<>>, answers |-> {},
              episodes |-> {},
              h |-> [signals |-> {}, commits |-> {}, attempts |-> {}, jobs |-> {},
                     lineage |-> lineage]]
  /\ UNCHANGED <<world, hash, checkpoint, derived, records, live>>

\* The pull request and its timeline.
FetchTimeline ==
  /\ Fetching("timeline")
  /\ boot' = [boot EXCEPT !.step = "commits", !.h.signals = world.signals]

\* The list of the commits, which may have been rewritten since, and each.
FetchCommits ==
  /\ Fetching("commits")
  /\ Collected(ToSet(world.commits)) # None
  /\ boot' = [boot EXCEPT !.step = "runs", !.todo = world.commits,
                          !.h.commits = ToSet(world.commits)]

\* The attempts of one run: the latest comes with the run, each earlier one
\* is asked for and may be gone.
AttemptsOf(run, gone) ==
  {[run |-> run, number |-> n, missing |-> gone # {},
    conclusion |-> Conclusion(world.attempts[run][n])] :
     n \in DOMAIN world.attempts[run] \ gone}

\* The runs of a revision, of whichever workflow, as the provider lists them.
RunsOf(revision) ==
  {run \in Runs : run[1] = revision /\ world.attempts[run] # <<>>}

FetchRuns ==
  /\ Fetching("runs")
  /\ boot.todo # <<>>
  /\ Collected(RunsOf(Head(boot.todo))) # None
  /\ LET listed == RunsOf(Head(boot.todo))
         Earlier(run) == 1..(Len(world.attempts[run]) - 1)
     IN \E gone \in [listed -> SUBSET UNION {Earlier(run) : run \in listed}] :
          /\ \A run \in listed :
               /\ gone[run] \subseteq Earlier(run)
               /\ gone[run] # {} => "gone" \in Answers
          /\ boot' = [boot EXCEPT !.step = "jobs",
               !.h.attempts = @ \cup
                 UNION {AttemptsOf(run, gone[run]) : run \in listed}]

\* The jobs of every attempt of a run, as the provider lists them; those of a
\* running attempt have no conclusion yet.
ListedJobs(run) ==
  LET Job(n, id, conclusion, steps) ==
        [run |-> run, number |-> n, id |-> id, name |-> JobName[id],
         conclusion |-> conclusion, steps |-> steps]
      Of(n) ==
        LET result == world.attempts[run][n]
        IN IF result = Running THEN {Job(n, id, None, <<>>) : id \in Jobs}
           ELSE {Job(n, id, result[id].conclusion, result[id].steps) :
                   id \in DOMAIN result}
  IN UNION {Of(n) : n \in DOMAIN world.attempts[run]}

\* The runs whose jobs are asked for are those the run list held.
RunsToAsk == {a.run : a \in {b \in boot.h.attempts : b.run[1] = Head(boot.todo)}}

FetchJobs ==
  /\ Fetching("jobs")
  /\ \A run \in RunsToAsk : Collected(ListedJobs(run)) # None
  /\ boot' = [boot EXCEPT !.step = "runs", !.todo = Tail(@),
       !.h.jobs = @ \cup UNION {Collected(ListedJobs(run)) : run \in RunsToAsk}]

\* A request refused, gone or still failing when the retries are used up, and
\* a list longer than the page bound, raise: nothing of the harvest is kept.
Overlong ==
  \/ At("commits") /\ Collected(ToSet(world.commits)) = None
  \/ At("runs") /\ boot.todo # <<>> /\ Collected(RunsOf(Head(boot.todo))) = None
  \/ At("jobs") /\ \E run \in RunsToAsk : Collected(ListedJobs(run)) = None

FailHarvest ==
  /\ boot.step \in {"timeline", "commits", "runs", "jobs"}
  /\ Answers \ {"ok"} # {} \/ Overlong
  /\ Quit
  /\ UNCHANGED <<world, hash, checkpoint, derived, records, live, bounds>>

\* The checkpoint of the pull request is replaced; nothing reads it back.
WriteCheckpoint ==
  /\ At("runs")
  /\ boot.todo = <<>>
  /\ checkpoint' = {<<a.run, a.number>> : a \in boot.h.attempts}
  /\ Goto("screen")
  /\ UNCHANGED <<world, hash, derived, records, live, bounds>>

-----------------------------------------------------------------------------
(***************************************************************************)
(* From the harvest to the corpus.                                         *)
(***************************************************************************)

\* screen_observations: a commit document with a secret goes to quarantine.
Screened(h) == [h EXCEPT !.commits = {r \in @ : ~Shape[r].secret}]

Reconstruct ==
  /\ At("screen")
  /\ LET h == Screened(boot.h)
     IN boot' = [boot EXCEPT !.step = "store", !.h = h,
                             !.episodes = Episodes(h, Hashes[hash])]
  /\ UNCHANGED <<world, hash, checkpoint, derived, records, live, bounds>>

\* write_episode for each: an episode replaces what its identity named.
StoreEpisodes ==
  /\ At("store")
  /\ derived' = {d \in derived : \A e \in boot.episodes : d.id # e.id} \cup boot.episodes
  /\ Goto("project")
  /\ UNCHANGED <<world, hash, checkpoint, records, live, bounds>>

EventKinds ==
  <<"CI_failure_classification", "repair_attempt", "verification_outcome">>

\* Fault: the repair event is named for the failure alone.
EventOfFailure(episode, i) ==
  [id |-> IF i = 2 THEN <<<<episode.id[1]>>, EventKinds[i]>>
          ELSE <<episode.id, EventKinds[i]>>,
   parent |-> IF i = 1 THEN None ELSE EventKinds[i - 1], payload |-> episode]

\* The i-th native event of an episode; the kind names its parent.
Event(episode, i) ==
  [id |-> <<episode.id, EventKinds[i]>>,
   parent |-> IF i = 1 THEN None ELSE EventKinds[i - 1],
   payload |-> episode]

\* Fault: the events of an episode are projected effect before cause.
EventsOfBackwards(episode) ==
  [i \in DOMAIN EventKinds |-> Event(episode, Len(EventKinds) + 1 - i)]

EventsOf(episode) == [i \in DOMAIN EventKinds |-> Event(episode, i)]

\* The events of all episodes, one episode after another.
Projected(episodes) ==
  LET order == SetToSeq(episodes)
      n == Len(EventKinds)
  IN [k \in 1..(n * Len(order)) |->
        EventsOf(order[((k - 1) \div n) + 1])[((k - 1) % n) + 1]]

\* Every episode is projected before the first event is admitted; a success
\* without equivalent validation refuses the whole bootstrap.
Projectable(episode) ==
  episode.verdict.outcome = "clean_verified" => episode.verdict.equivalent

Project ==
  /\ At("project")
  /\ IF \A e \in boot.episodes : Projectable(e)
       THEN boot' = [boot EXCEPT !.step = "ingest", !.events = Projected(boot.episodes)]
       ELSE Quit
  /\ UNCHANGED <<world, hash, checkpoint, derived, records, live, bounds>>

Record(event) == [id |-> event.id, payload |-> event.payload]

\* Fault: the claim an accepted one replaces is left uncorrected.
SupersedeNot(event) == live' = live \cup {Record(event)}

\* Fault: the correction is filed the wrong way round.
SupersedeByOlder(event) ==
  live' = IF \E c \in live : c.id = event.id THEN live ELSE live \cup {Record(event)}

\* An accepted claim is corrected into the place of the one it replaces; a
\* duplicate changes nothing.
Supersede(event) ==
  live' = IF Record(event) \in records THEN live
          ELSE {c \in live : c.id # event.id} \cup {Record(event)}

\* ingest_or_correct of the next event.
Ingest ==
  /\ At("ingest")
  /\ boot.events # <<>>
  /\ LET event == Head(boot.events)
         status == IF Record(event) \in records THEN "duplicate" ELSE "accepted"
     IN /\ records' = records \cup {Record(event)}
        /\ Supersede(event)
        /\ boot' = [boot EXCEPT !.events = Tail(@),
                                !.answers = @ \cup {<<Record(event), status>>}]
  /\ UNCHANGED <<world, hash, checkpoint, derived, bounds>>

Finish ==
  /\ At("ingest")
  /\ boot.events = <<>>
  /\ Goto("done")
  /\ UNCHANGED <<world, hash, checkpoint, derived, records, live, bounds>>

\* The process ends between two steps, or ingress raises: all files stay.
Crash ==
  /\ boot.step \in {"store", "project", "ingest"}
  /\ bounds.crashes < MaxCrashes
  /\ bounds' = [bounds EXCEPT !.crashes = @ + 1]
  /\ Quit
  /\ UNCHANGED <<world, hash, checkpoint, derived, records, live>>

Next ==
  \/ \E r \in Revisions : Push(r)
  \/ ForcePush
  \/ \E run \in Runs : Trigger(run)
  \/ \E run \in Runs, result \in Results : Complete(run, result)
  \/ \E lineage \in Lineages : Start(lineage)
  \/ FetchTimeline
  \/ FetchCommits
  \/ FetchRuns
  \/ FetchJobs
  \/ FailHarvest
  \/ WriteCheckpoint
  \/ Reconstruct
  \/ StoreEpisodes
  \/ Project
  \/ Ingest
  \/ Finish
  \/ Crash

Spec == Init /\ [][Next]_vars

-----------------------------------------------------------------------------
(***************************************************************************)
(* Properties.                                                             *)
(***************************************************************************)

\* Types.  In particular the claims in force have distinct event identities
\* and were all admitted.
BootstrapTypeOK ==
  /\ ToSet(world.commits) \subseteq Revisions
  /\ world.attempts \in [Runs -> Seq(Results \cup {Running})]
  /\ hash \in DOMAIN Hashes
  /\ boot.step \in {"idle", "timeline", "commits", "runs", "jobs", "screen", "store",
                    "project", "ingest", "done"}
  /\ \A d, e \in derived : d.id = e.id => d = e
  /\ live \subseteq records
  /\ \A c, d \in live : c.id = d.id => c = d

\* The native event of an episode as learning.py sees it.
Learned(record) ==
  LET kind == record.id[2]
      verdict == record.payload.verdict
  IN Learning!Rows(
       [record |-> record.id, contract |-> "historical", class |-> kind,
        scope |-> "repository", failure |-> record.payload.id[1],
        authority |-> IF kind = EventKinds[1] THEN "historical_noncanonical" ELSE None,
        remediation |-> None,
        outcome |-> IF kind = EventKinds[3] THEN verdict.outcome ELSE None,
        flake |-> verdict.flake])[1]

\* The verification event of an episode teaches that its repair worked.
Credited(episode) ==
  Learned([id |-> <<episode.id, EventKinds[3]>>, payload |-> episode]).disposition
    = "confirmed_true_positive"

\* The commits of h on any way from one revision to another: what is in every
\* set that has the first and, of a commit it has, the children, and in every
\* set that has the last and, of a commit it has, the parents.
Between(before, after, h) ==
  LET known == h.commits \cup {before, after}
      HasChildren(S) == \A c \in h.commits : ToSet(Shape[c].parents) \cap S # {} => c \in S
      HasParents(S) == \A c \in S \cap h.commits : ToSet(Shape[c].parents) \cap known \subseteq S
  IN {r \in h.commits \ {before} :
        \A S \in SUBSET known :
          /\ before \in S /\ HasChildren(S) => r \in S
          /\ after \in S /\ HasParents(S) => r \in S}

\* What ADR-INTEL-029 asks of a repair that is to be credited, said of the
\* harvest h without the algorithm's own notions.
Earned(episode, h) ==
  LET before == episode.id[2]
      after == episode.id[3]
      between == Between(before, after, h)
      failing == {j \in h.jobs : Ref(j) = episode.failure /\ j.conclusion = "failure"}
      validating == {j \in h.jobs : Ref(j) = episode.id[4]}
      \* The last step of the name had one of the conclusions.
      Ended(job, name, conclusions) ==
        \E i \in DOMAIN job.steps :
          /\ job.steps[i].name = name /\ job.steps[i].conclusion \in conclusions
          /\ \A k \in DOMAIN job.steps : job.steps[k].name = name => k <= i
      concluded == \E a \in h.attempts : Ref(a) = episode.failure /\ a.conclusion # None
  IN /\ after \in between
     /\ \A r \in between :
          /\ ~Shape[r].secret
          /\ Cardinality(ToSet(Shape[r].parents) \cap (between \cup {before})) = 1
          /\ Shape[r].files # {}
          /\ \A f \in Shape[r].files :
               /\ ~f.skips
               /\ f.areas \cap {"workflow", "environment"} = {}
               /\ f.removed => "test" \notin f.areas
     /\ \A j \in validating : j.conclusion # "failure"
     /\ \E f \in failing, j \in validating :
          /\ Identity(f) = episode.id[1]
          /\ j.name = f.name
          /\ j.conclusion = "success"
          /\ \A i \in DOMAIN f.steps :
               ~(Ended(f, f.steps[i].name, Ran) /\ Ended(j, f.steps[i].name, {"skipped"}))
          /\ f.steps # <<>> /\ j.steps # <<>> =>
               /\ DOMAIN f.steps = DOMAIN j.steps
               /\ \A i \in DOMAIN f.steps : f.steps[i].name = j.steps[i].name
     /\ \A a \in h.attempts :
          /\ a.run[1] = before /\ a.run[2] = episode.failure[1][2] =>
               /\ a.number <= episode.failure[2]
               /\ concluded => a.conclusion # "success"
          /\ ~(a.run[2] = episode.failure[1][2] /\ a.run[1] \in between \ {after})

\* No false repair credit: an episode whose verification event teaches a
\* confirmed true positive is a failure that never passed on its own revision
\* (as long as its attempt had ended when it was listed), followed at the
\* nearest later revision with a run by an equivalent, wholly observed
\* validation in which nothing failed; and grade B means a single intervening
\* commit of a branch nobody rewrote (attribution.py, reconstruction.py,
\* learning.py).
CreditEarned ==
  At("store") =>
    \A episode \in boot.episodes :
      Credited(episode) =>
        /\ Earned(episode, boot.h)
        /\ episode.verdict.grade = "B" =>
             /\ ToSet(Shape[episode.id[3]].parents) = {episode.id[2]}
             /\ boot.h.signals = {}

\* A failure that also passed on its own revision gets no repair credit
\* ("verified flaky failure cannot receive repair credit",
\* reconstruction.py:259).
FlakesUncredited ==
  At("store") =>
    \A episode \in boot.episodes :
      Credited(episode) =>
        \A a \in boot.h.attempts :
          /\ a.run[1] = episode.failure[1][1]
          /\ a.run[2] = episode.failure[1][2]
          => a.conclusion # "success"

\* Two attempts of a workflow come next after a failure: the same number of two
\* runs on its revision, or attempts as near to it as one another.
Tied(h) ==
  \E j \in Failures(h), a, b \in h.attempts :
    /\ a # b
    /\ a.run[2] = j.run[2] /\ b.run[2] = j.run[2]
    /\ \/ /\ Alike(a, j) /\ Alike(b, j)
          /\ a.number = b.number /\ a.number > j.number
       \/ /\ \A x \in {a, b} : Proper(Path(j.run[1], x.run[1], Parents(h)))
          /\ Len(Path(j.run[1], a.run[1], Parents(h)))
               = Len(Path(j.run[1], b.run[1], Parents(h)))

\* Two jobs of one attempt have the same name.
SameName(h) ==
  \E j, k \in h.jobs : j # k /\ Ref(j) = Ref(k) /\ j.name = k.name

\* The same failure in attempts of the same number of two runs on a revision.
Twins(h) ==
  \E j, k \in Failures(h) :
    j # k /\ Alike(j, k) /\ j.number = k.number /\ Identity(j) = Identity(k)

\* The hashes of its observations decide what a harvest is taken for where
\* something is there twice, and nowhere else: of two attempts that come next
\* after a failure the hash picks the validation (reconstruction.py:462, 470),
\* of two jobs of a name the one compared (:199, :402), and of two runs on a
\* revision failing alike the failure whose episode is kept (:353).
HashIrrelevant ==
  At("store") /\ ~Tied(boot.h) /\ ~SameName(boot.h) /\ ~Twins(boot.h) =>
    \A other \in DOMAIN Hashes : Episodes(boot.h, Hashes[other]) = boot.episodes

\* A harvest that came to its end cut no list short: every attempt it knows
\* has all of its jobs, and the attempts of a run are all there unless the
\* run is marked as missing some (provider.py:332-378).
HarvestComplete ==
  At("screen") =>
    \A a \in boot.h.attempts :
      /\ a.conclusion # None =>
           {j.id : j \in JobsOf(a, boot.h)} = DOMAIN world.attempts[a.run][a.number]
      /\ a.missing \/ \A n \in 1..(a.number - 1) :
           \E b \in boot.h.attempts : Ref(b) = <<a.run, n>>

\* No effect without its cause: the event an admitted event names as parent
\* was admitted before it, whenever a bootstrap stops (bootstrap.py:104).
ParentsAdmitted ==
  \A c \in records :
    c.id[2] # EventKinds[1] =>
      \E d \in records : d.payload = c.payload /\ d.id[2] =
        (IF c.id[2] = EventKinds[2] THEN EventKinds[1] ELSE EventKinds[2])

\* As long as no bootstrap was stopped in the middle, the three claims in
\* force of an episode come from one reconstruction of it.
WholeEpisodes ==
  bounds.crashes = 0 /\ boot.step # "ingest" =>
    \A c \in live : \A i \in DOMAIN EventKinds :
      Record(Event(c.payload, i)) \in live

\* When a bootstrap is done, each claim it had accepted is in force and each
\* claim it found admitted already is in the corpus, in force or replaced
\* (service.py:147); and every event of every episode was answered, whatever
\* an earlier bootstrap was stopped at.
DoneIsInForce ==
  At("done") =>
    /\ \A answer \in boot.answers :
         answer[1] \in IF answer[2] = "accepted" THEN live ELSE records
    /\ \A e \in boot.episodes : \A i \in DOMAIN EventKinds :
         \E answer \in boot.answers : answer[1] = Record(Event(e, i))
=============================================================================
