--------------------------- MODULE Reconstruction ---------------------------
(***************************************************************************)
(* What the historical miner makes of one pull request: the normalized     *)
(* evidence (historical/normalization.py) and the resolution episodes      *)
(* reconstructed from it (reconstruction.py, equivalence.py,               *)
(* attribution.py, flakiness.py).                                          *)
(*                                                                         *)
(* A harvest is a record                                                   *)
(*   signals   timeline events of the pull request, and squash if it is    *)
(*             to be merged so                                             *)
(*   commits   the revisions whose commit document is at hand              *)
(*   attempts  attempts of workflow runs, each [run, number, conclusion,   *)
(*             missing]; run is a revision, a workflow and which of its    *)
(*             runs on that revision it is, and missing says that some     *)
(*             attempt of the run is gone                                  *)
(*   jobs      [run, number, id, name, conclusion, steps]                  *)
(*   lineage   the closed-loop lineage the operator passed                 *)
(* Every observation has an identity, a hash: observations are sorted by   *)
(* it, so what comes first of several is as the hashes fall.  Logs, check  *)
(* runs, refs and times decide nothing and are left out.                   *)
(***************************************************************************)
EXTENDS Naturals, Sequences, FiniteSets, SequencesExt

CONSTANTS
  Revisions,   \* the commits a pull request may have
  Base,        \* the revision it is opened against
  Workflows,   \* identities of CI workflows
  Shape,       \* Shape[r]: the parents, files and secret of commit r
  None         \* no value

\* A step of a job and a file of a commit, as far as they are looked at.
Areas == {"test", "workflow", "environment", "lockfile"}

\* What a timeline is looked through for, and the hint that it is to be squashed.
Signals == {"base_ref_changed", "head_ref_force_pushed", "squash"}

\* What a job, a step of it and an attempt can end with.
Conclusions == {"success", "failure", "cancelled", "timed_out", "skipped"}

\* No value is none of these.
ASSUME NoneAssumption == None \notin Conclusions /\ None \notin Seq(Revisions)

\* A commit is not among its own ancestors: in any set of commits there is one
\* without a parent in it.
ASSUME ShapeAssumption ==
  /\ Base \notin Revisions /\ IsFiniteSet(Revisions)
  /\ \A r \in Revisions :
       /\ Shape[r].parents \in Seq(Revisions \cup {Base})
       /\ \A f \in Shape[r].files : f.areas \subseteq Areas
  /\ \A S \in (SUBSET Revisions) \ {{}} :
       \E r \in S : ToSet(Shape[r].parents) \cap S = {}

-----------------------------------------------------------------------------
(***************************************************************************)
(* Normalization.                                                          *)
(***************************************************************************)
Ref(x) == <<x.run, x.number>>

\* The observations of a job and of its failure have hashes of their own.
JobRef(job) == <<job.run, job.number, job.id>>

FailureRef(job) == <<job.run, job.number, job.id, "failure">>

\* Runs of one workflow on one revision, or attempts of one of them.
Alike(x, y) == x.run[1] = y.run[1] /\ x.run[2] = y.run[2]

FailedSteps(job) == SelectSeq(job.steps, LAMBDA s : s.conclusion = "failure")

\* The surrogate identity of a failure: job name and names of failed steps.
Identity(job) ==
  <<job.name, [i \in DOMAIN FailedSteps(job) |-> FailedSteps(job)[i].name]>>

Failures(h) == {j \in h.jobs : j.conclusion = "failure"}

\* The name is listed when the condition holds.
If(condition, name) == IF condition THEN {name} ELSE {}

Touches(r, area) == \E f \in Shape[r].files : area \in f.areas

Weakening(r) ==
  If(\E f \in Shape[r].files : f.removed /\ f.areas \cap {"test", "workflow"} # {},
     "validation_file_removed")
  \cup If(\E f \in Shape[r].files : f.skips, "validation_skip_added")

IsMerge(r) == Len(Shape[r].parents) > 1

\* A commit document without parents yields no change.
Changes(h) == {r \in h.commits : Shape[r].parents # <<>>}

Parents(h) ==
  [r \in h.commits \cup {Base} |-> IF r = Base THEN <<>> ELSE Shape[r].parents]

\* build_temporal_graph: what refers to what, whatever came of it.
TemporalGraph(h) ==
  (UNION {{<<"revision_parent", p, r>> : p \in ToSet(Shape[r].parents)} :
            r \in h.commits})
  \cup {<<"execution", a.run, a.number>> : a \in h.attempts}
  \cup {<<"job", JobRef(j)>> : j \in h.jobs}
  \cup {<<"failure", FailureRef(j)>> : j \in Failures(h)}

-----------------------------------------------------------------------------
(***************************************************************************)
(* Finding the run that validates.                                         *)
(***************************************************************************)

\* Where a trail of parents from before ends.
End(trail, before) == IF trail = <<>> THEN before ELSE Last(trail)

\* The trails from before of each length.
Trails(before, parents) ==
  LET Of[n \in 0..Cardinality(DOMAIN parents)] ==
        IF n = 0 THEN {<<>>}
        ELSE {Append(x[1], x[2]) :
                x \in {y \in Of[n - 1] \X DOMAIN parents :
                         End(y[1], before) \in ToSet(parents[y[2]])}}
  IN Of

\* _path: the revisions from before to after when just one trail of parents
\* joins them, None when none or several do.
Path(before, after, parents) ==
  LET trails == Trails(before, parents)
      joining == {t \in UNION {trails[n] : n \in DOMAIN trails} : End(t, before) = after}
  IN IF Cardinality(joining) = 1 THEN CHOOSE t \in joining : TRUE ELSE None

Proper(path) == path # None /\ path # <<>>

\* Fault: of the attempts of later revisions any one may validate.
NextRunByHash(before, h, hash) ==
  LET comparable == {a \in h.attempts : a.run[2] = before.run[2] /\ a # before}
      same == {a \in comparable : Alike(a, before) /\ a.number > before.number}
      later == {a \in comparable : Proper(Path(before.run[1], a.run[1], Parents(h)))}
      nearest == IF same # {} THEN {a \in same : \A b \in same : a.number <= b.number}
                 ELSE later
      first == {a \in nearest : \A b \in nearest \ {a} : hash[Ref(a)] <= hash[Ref(b)]}
  IN IF first = {} THEN None ELSE CHOOSE a \in first : TRUE

\* _next_run: the next attempt on the same revision, of whichever run, or else
\* an attempt on a nearest later revision; the hashes decide which of several.
NextRun(before, h, hash) ==
  LET comparable == {a \in h.attempts : a.run[2] = before.run[2] /\ a # before}
      same == {a \in comparable : Alike(a, before) /\ a.number > before.number}
      Distance(a) == Len(Path(before.run[1], a.run[1], Parents(h)))
      later == {a \in comparable :
                  /\ a.run[1] # before.run[1]
                  /\ Proper(Path(before.run[1], a.run[1], Parents(h)))}
      nearest == IF same # {}
                   THEN {a \in same : \A b \in same : a.number <= b.number}
                   ELSE {a \in later : \A b \in later : Distance(a) <= Distance(b)}
      first == {a \in nearest : \A b \in nearest \ {a} : hash[Ref(a)] <= hash[Ref(b)]}
  IN IF first = {} THEN None ELSE CHOOSE a \in first : TRUE

JobsOf(attempt, h) == {j \in h.jobs : Ref(j) = Ref(attempt)}

\* _find by name: of several jobs of the name the one the hashes put first.
Named(name, jobs, hash) ==
  LET named == {j \in jobs : j.name = name}
      first == {j \in named :
                  \A k \in named \ {j} : hash[JobRef(j)] <= hash[JobRef(k)]}
  IN IF first = {} THEN None ELSE CHOOSE j \in first : TRUE

-----------------------------------------------------------------------------
(***************************************************************************)
(* Whether the validation compares with the failure.                       *)
(***************************************************************************)
StepNames(job) == [i \in DOMAIN job.steps |-> job.steps[i].name]

Ran == {"success", "failure", "cancelled", "timed_out"}

\* The conclusion of a name is the one of its last step.
RanStepBecameSkipped(before, after) ==
  LET Concluded(job, name) ==
        LET own == {i \in DOMAIN job.steps : job.steps[i].name = name}
        IN IF own = {} THEN None
           ELSE job.steps[CHOOSE i \in own : \A k \in own : k <= i].conclusion
  IN \E name \in ToSet(StepNames(after)) :
       /\ Concluded(after, name) = "skipped"
       /\ Concluded(before, name) \in Ran

\* The reasons against equivalence.
Objections(beforeJob, afterJob, path) ==
  If(afterJob = None, "job_removed")
  \cup If(\E r \in path : Touches(r, "workflow"), "workflow_definition_changed")
  \cup If(\E r \in path : Touches(r, "environment"),
          "material_environment_change_unaccounted")
  \cup (UNION {Weakening(r) : r \in path})
  \cup If(/\ afterJob # None
          /\ \/ /\ beforeJob.steps # <<>> /\ afterJob.steps # <<>>
                /\ StepNames(beforeJob) # StepNames(afterJob)
             \/ RanStepBecameSkipped(beforeJob, afterJob),
          "validation_contract_changed")

\* Steps that cannot be compared only cost completeness.
Completeness(beforeJob, afterJob, objections) ==
  LET uncompared ==
        /\ afterJob # None
        /\ "validation_contract_changed" \notin objections
        /\ beforeJob.steps = <<>> \/ afterJob.steps = <<>>
      known == IF uncompared THEN 85 ELSE 100
  IN IF objections # {} THEN known - 35 ELSE known

-----------------------------------------------------------------------------
(***************************************************************************)
(* Whether the failure is a flake, by the attempts of its own revision.    *)
(***************************************************************************)

\* Several changes between the two make it verified rather than suspected, a
\* word no decision rests on.
Flaky(before, h) ==
  {"failure", "success"} \subseteq {a.conclusion : a \in {b \in h.attempts : Alike(b, before)}}

-----------------------------------------------------------------------------
(***************************************************************************)
(* What the transition proves.                                             *)
(***************************************************************************)
Material ==
  {"multiple_commits_between_failure_and_success",
   "multiple_failure_fingerprints", "dependency_lockfile_change",
   "workflow_definition_change", "environment_change", "test_change",
   "base_branch_update", "merge_commit", "squash_merge",
   "force_updated_pr_branch", "concurrency_cancellation",
   "provider_missing_attempt_history"}

Confounders(before, after, changes, complete, h) ==
  LET Some(area) == \E r \in changes : Touches(r, area)
      fingerprints == {Identity(j) : j \in Failures(h) \cap JobsOf(before, h)}
  IN If("base_ref_changed" \in h.signals, "base_branch_update")
     \cup If("head_ref_force_pushed" \in h.signals, "force_updated_pr_branch")
     \cup If("squash" \in h.signals, "squash_merge")
     \cup If(~complete, "intervention_evidence_missing")
     \cup If(Cardinality(changes) > 1, "multiple_commits_between_failure_and_success")
     \cup If(Cardinality(fingerprints) > 1, "multiple_failure_fingerprints")
     \cup If(before.run[1] = after.run[1], "rerun_without_code_change")
     \cup If(Some("lockfile"), "dependency_lockfile_change")
     \cup If(Some("workflow"), "workflow_definition_change")
     \cup If(Some("environment"), "environment_change")
     \cup If(Some("test"), "test_change")
     \cup If(\E r \in changes : IsMerge(r), "merge_commit")
     \cup If(before.missing \/ after.missing, "provider_missing_attempt_history")
     \cup If("cancelled" \in {before.conclusion, after.conclusion},
             "concurrency_cancellation")

\* What became of the failure in the validating run.
Outcome(identity, afterJob, afterJobs) ==
  LET found == {Identity(j) : j \in {k \in afterJobs : k.conclusion = "failure"}}
  IN IF identity \in found THEN "repeated_failure"
     ELSE IF found # {} THEN "new_failure"
     ELSE IF afterJob.conclusion = "success" THEN "clean_verified"
     ELSE "outcome_unknown"

Least(m, n) == IF m <= n THEN m ELSE n

\* assess_attribution: the cases in the order the code tries them.
Assess(before, after, beforeJob, afterJob, path, h) ==
  LET changes == ToSet(path) \cap Changes(h)
      complete == ToSet(path) \subseteq changes
      objections == Objections(beforeJob, afterJob, changes)
      completeness == Completeness(beforeJob, afterJob, objections)
      noted == Confounders(before, after, changes, complete, h)
      sameRevision == before.run[1] = after.run[1]
      conclusion == IF afterJob = None THEN None ELSE afterJob.conclusion
      outcome == Outcome(Identity(beforeJob), afterJob, JobsOf(after, h))
      Verdict(grade, confounders, cap, out, flake) ==
        [grade |-> grade, confounders |-> confounders, outcome |-> out,
         completeness |-> Least(completeness, cap), flake |-> flake,
         equivalent |-> objections = {}]
  IN IF sameRevision /\ conclusion = "success"
       THEN Verdict("C", noted \cup {"flaky_failure_pattern"}, 70,
                    "outcome_unknown", TRUE)
     ELSE IF objections # {}
       THEN Verdict("U", noted, 50, "outcome_unknown", FALSE)
     ELSE IF \/ ~complete
             \/ /\ ~sameRevision
                /\ changes = {} \/ \E r \in changes : Shape[r].files = {}
       THEN Verdict("U", noted \cup {"intervention_evidence_missing"}, 50,
                    "outcome_unknown", FALSE)
     ELSE IF conclusion \in {None, "cancelled", "timed_out", "skipped"}
       THEN Verdict("U", noted, 60, "unresolved", FALSE)
     ELSE IF sameRevision
       THEN Verdict("C", noted, 75, outcome, FALSE)
     ELSE IF noted \cap Material # {}
       THEN Verdict("C", noted, 85, outcome, FALSE)
     ELSE Verdict("B", noted, 100, outcome, FALSE)

\* Fault: a flaky failure keeps the credit its validation earned.
WithholdCreditNever(verdict, flaky) == verdict

\* A failure that also passed on its own revision gets no repair credit.
WithholdCredit(verdict, flaky) ==
  IF flaky /\ verdict.outcome = "clean_verified"
    THEN [verdict EXCEPT !.grade = "U", !.outcome = "outcome_unknown",
                         !.flake = TRUE,
                         !.confounders = @ \cup {"verified_flaky_failure"},
                         !.completeness = Least(@, 50)]
    ELSE verdict

\* The observation identities of an episode: everything its own digests.
EpisodeId(beforeJob, before, after) ==
  <<Identity(beforeJob), before.run[1], after.run[1], Ref(after)>>

\* The episode of a failed job.
Episode(beforeJob, before, after, h, hash) ==
  LET path == Path(before.run[1], after.run[1], Parents(h))
      afterJob == Named(beforeJob.name, JobsOf(after, h), hash)
      verdict == Assess(before, after, beforeJob, afterJob, path, h)
  IN [id |-> EpisodeId(beforeJob, before, after),
      failure |-> Ref(before),
      verdict |-> WithholdCredit(verdict, Flaky(before, h)),
      graph |-> TemporalGraph(h),
      lineage |-> h.lineage]

\* reconstruct_episodes: one for every failure of an attempt at hand that has
\* a next run; of several episodes of one identity the last failure's stays.
Episodes(h, hash) ==
  LET judged == {x \in Failures(h) \X h.attempts :
                   Ref(x[1]) = Ref(x[2]) /\ NextRun(x[2], h, hash) # None}
      Id(x) == EpisodeId(x[1], x[2], NextRun(x[2], h, hash))
      kept == {x \in judged : \A y \in judged :
                 Id(y) = Id(x) => hash[FailureRef(y[1])] <= hash[FailureRef(x[1])]}
  IN {Episode(x[1], x[2], NextRun(x[2], h, hash), h, hash) : x \in kept}
=============================================================================
