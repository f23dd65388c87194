---------------------------- MODULE Effectiveness -----------------------------
(***************************************************************************)
(* What becomes of published packs: outcomes observed in use, the store    *)
(* they are ingested into, the reports built from it and what these        *)
(* recommend (effectiveness/), while packs go on being published.          *)
(*                                                                         *)
(* An outcome is [event, pack, rule, surface, class, latency]; the event   *)
(* stands for its producer, contract and scope too.  A torn line of the    *)
(* ledger is left out: nothing reads the ledger.                           *)
(***************************************************************************)
EXTENDS DefensePacks

CONSTANTS
  Sightings,          \* what may be observed of a rule: outcomes but pack, rule
  Ingesters,          \* those who ingest outcomes, perhaps at once
  MinimumRuleSample,  \* 20 in recommendations.py
  MinimumPackSample   \* 100 in recommendations.py

ASSUME SampleAssumption == {MinimumRuleSample, MinimumPackSample} \subseteq Nat \ {0}

VARIABLES
  files,      \* record files: [id, content]
  ledger,     \* the lines of the outcome ledger
  ingests,    \* ingestions under way
  answered,   \* outcomes answered, as accepted or as duplicates
  report,     \* the report being built
  reports     \* the reports built

outcomeVars == <<files, ledger, ingests, answered, report, reports>>

vars == <<packVars, outcomeVars, budget>>

OutcomeInit ==
  /\ files = {}
  /\ ledger = <<>>
  /\ ingests = [i \in Ingesters |-> None]
  /\ answered = {}
  /\ report = None
  /\ reports = {}

-----------------------------------------------------------------------------
(***************************************************************************)
(* Ingestion.                                                              *)
(***************************************************************************)
SurfaceOutcomes ==
  [CI |-> {"prevented_before_merge", "detected_in_CI", "escaped_detection",
           "rule_not_evaluated", "evaluation_incomplete"},
   LSP |-> {"diagnostic_shown", "diagnostic_accepted", "diagnostic_dismissed",
            "confirmed_false_positive", "quick_fix_applied", "quick_fix_reverted",
            "rule_not_evaluated", "evaluation_incomplete"},
   repair |-> {"repair_succeeded", "repair_failed", "repair_partial",
               "repair_rolled_back", "outcome_unknown"}]

\* The packs consumers may have installed.
Installable ==
  UNION {{m.pack : m \in indexes[channel].history} :
           channel \in {c \in Channels : indexes[c] # None}}

\* What consumers of these packs may observe.
Observable(installed) ==
  UNION {{[event |-> s.event, surface |-> s.surface, class |-> s.class,
           latency |-> s.latency, pack |-> pack, rule |-> <<rule.fingerprint, rule.class>>] :
            s \in Sightings, rule \in RulesOf(pack)} : pack \in installed}

Observed == Observable(Installable)

ASSUME DamagedAssumption == Damaged \notin Observable(Packs)

Identity(outcome) == <<outcome.event, outcome.pack, outcome.rule>>

File(id) == {f \in files : f.id = id}

Ingesting(i, outcome, step, status) ==
  ingests' = [ingests EXCEPT ![i] = [outcome |-> outcome, step |-> step, status |-> status]]

\* Whether the record is there already; another one under its identity, or a
\* half-written one, raises.
CheckRecord(i, outcome) ==
  LET held == File(Identity(outcome))
  IN /\ Spend("ingest")
     /\ ingests[i] = None
     /\ outcome.class \in SurfaceOutcomes[outcome.surface]
     /\ \/ /\ held = {}
           /\ Ingesting(i, outcome, "create", "accepted")
        \/ /\ held = {[id |-> Identity(outcome), content |-> outcome]}
           /\ Ingesting(i, outcome, "journal", "duplicate")
     /\ UNCHANGED <<files, ledger, answered, report, reports>>

\* Fault: the file is opened for writing, be it new or not.
CreateRecordOver(i) ==
  LET id == Identity(ingests[i].outcome)
  IN /\ ingests[i] # None /\ ingests[i].step = "create"
     /\ files' = (files \ File(id)) \cup {[id |-> id, content |-> Damaged]}
     /\ Ingesting(i, ingests[i].outcome, "write", "accepted")
     /\ UNCHANGED <<ledger, answered, report, reports, budget>>

\* O_EXCL: if another has created the file since, this ingestion raises.
CreateRecord(i) ==
  LET id == Identity(ingests[i].outcome)
  IN /\ ingests[i] # None /\ ingests[i].step = "create"
     /\ \/ /\ File(id) = {}
           /\ files' = files \cup {[id |-> id, content |-> Damaged]}
           /\ Ingesting(i, ingests[i].outcome, "write", "accepted")
        \/ /\ File(id) # {}
           /\ ingests' = [ingests EXCEPT ![i] = None]
           /\ UNCHANGED files
     /\ UNCHANGED <<ledger, answered, report, reports, budget>>

\* Fault: what is written comes beside what is there.
WriteRecordBeside(i) ==
  LET outcome == ingests[i].outcome
  IN /\ ingests[i] # None /\ ingests[i].step = "write"
     /\ files' = files \cup {[id |-> Identity(outcome), content |-> outcome]}
     /\ Ingesting(i, outcome, "journal", "accepted")
     /\ UNCHANGED <<ledger, answered, report, reports, budget>>

WriteRecord(i) ==
  LET outcome == ingests[i].outcome
      id == Identity(outcome)
  IN /\ ingests[i] # None /\ ingests[i].step = "write"
     /\ files' = (files \ File(id)) \cup {[id |-> id, content |-> outcome]}
     /\ Ingesting(i, outcome, "journal", "accepted")
     /\ UNCHANGED <<ledger, answered, report, reports, budget>>

JournalOutcome(i) ==
  LET outcome == ingests[i].outcome
  IN /\ ingests[i] # None /\ ingests[i].step = "journal"
     /\ ledger' = Append(ledger, [id |-> Identity(outcome), document |-> outcome,
                                  status |-> ingests[i].status])
     /\ answered' = answered \cup {outcome}
     /\ ingests' = [ingests EXCEPT ![i] = None]
     /\ UNCHANGED <<files, report, reports, budget>>

\* The process ends, or a write fails: whatever it left stays.
StopIngest(i) ==
  /\ Spend("crash")
  /\ ingests[i] # None
  /\ ingests' = [ingests EXCEPT ![i] = None]
  /\ UNCHANGED <<files, ledger, answered, report, reports>>

-----------------------------------------------------------------------------
(***************************************************************************)
(* Metrics and recommendations.                                            *)
(***************************************************************************)
Classes(outcomes, classes) == Cardinality({o \in outcomes : o.class \in classes})

UnknownOutcomes == {"rule_not_evaluated", "evaluation_incomplete", "outcome_unknown"}

\* The greatest of 95 in 100.
P95(latencies) ==
  IF latencies = <<>> THEN None
  ELSE SortSeq(latencies, <)[(95 * Len(latencies) + 99) \div 100]

\* The measured latencies of some outcomes, in any order.
Latencies(group) ==
  LET measured == SetToSeq({o \in group : o.latency # None})
  IN [i \in DOMAIN measured |-> measured[i].latency]

RuleMetric(rule, group) ==
  [rule |-> rule, evaluations |-> Cardinality(group),
   unknown |-> Classes(group, UnknownOutcomes),
   falsePositives |-> Classes(group, {"confirmed_false_positive"}),
   diagnostics |-> Classes(group, {"diagnostic_accepted", "diagnostic_dismissed",
                                   "confirmed_false_positive"}),
   escapes |-> Classes(group, {"escaped_detection"}),
   preventable |-> Classes(group,
     {"prevented_before_merge", "diagnostic_accepted", "detected_in_CI",
      "diagnostic_shown", "escaped_detection"}),
   reverted |-> Classes(group, {"quick_fix_reverted"}),
   fixes |-> Classes(group, {"quick_fix_applied", "quick_fix_reverted"}),
   latency |-> P95(Latencies(group))]

RuleMetrics(outcomes) ==
  {RuleMetric(rule, {o \in outcomes : o.rule = rule}) : rule \in {o.rule : o \in outcomes}}

\* What the rows of a pack have in a field, together.
Total(rows, field) == FoldSet(LAMBDA row, sum : sum + row[field], 0, rows)

\* A ratio that is known and reaches a threshold.
Reaches(numerator, denominator, percent) ==
  denominator > 0 /\ 100 * numerator >= percent * denominator

\* Fault: a rule needs no sample.
RuleRecommendationUnsampled(row) ==
  LET FalsePositive(percent) == Reaches(row.falsePositives, row.diagnostics, percent)
  IN CASE FalsePositive(20) -> "retirement_recommended"
       [] ~FalsePositive(20) /\ (FalsePositive(10) \/ Reaches(row.escapes, row.preventable, 20)
                                 \/ Reaches(row.reverted, row.fixes, 25)) ->
            "rollback_recommended"
       [] OTHER -> IF row.evaluations < MinimumRuleSample THEN "insufficient_evidence"
                   ELSE "retain"

\* Outcomes that are unknown count towards the sample.
RuleRecommendation(row) ==
  LET FalsePositive(percent) == Reaches(row.falsePositives, row.diagnostics, percent)
      Escape(percent) == Reaches(row.escapes, row.preventable, percent)
      Revert(percent) == Reaches(row.reverted, row.fixes, percent)
      rollback == FalsePositive(10) \/ Escape(20) \/ Revert(25)
      doubtful == \/ FalsePositive(5) \/ Escape(10) \/ Revert(10)
                  \/ row.latency # None /\ row.latency > 200
  IN IF row.evaluations < MinimumRuleSample THEN "insufficient_evidence"
     ELSE IF FalsePositive(20) THEN "retirement_recommended"
     ELSE IF rollback THEN "rollback_recommended"
     ELSE IF doubtful THEN "investigate" ELSE "retain"

\* A pack is judged by its observed rules, once it was evaluated often enough.
PackRecommendation(rows) ==
  LET evaluations == Total(rows, "evaluations")
      states == {RuleRecommendation(row) : row \in rows}
  IN IF evaluations < MinimumPackSample THEN "insufficient_evidence"
     ELSE IF states \cap {"retirement_recommended", "rollback_recommended"} # {}
       THEN "rollback_recommended"
     ELSE IF "investigate" \in states
             \/ Reaches(Total(rows, "unknown"), evaluations, 25)
       THEN "investigate" ELSE "retain"

-----------------------------------------------------------------------------
(***************************************************************************)
(* Reports.                                                                *)
(***************************************************************************)

\* Fault: the outcomes are those the ledger has as accepted.
ListOutcomesAccepted(pack) ==
  /\ Spend("report")
  /\ report = None
  /\ pack \in packs
  /\ report' = [pack |-> pack, answered |-> answered,
                listed |-> {l.id : l \in {x \in ToSet(ledger) : x.status = "accepted"}}]
  /\ UNCHANGED <<files, ledger, ingests, answered, reports>>

\* The record files there are, of whichever pack.
ListOutcomes(pack) ==
  /\ Spend("report")
  /\ report = None
  /\ pack \in packs
  /\ report' = [pack |-> pack, answered |-> answered, listed |-> {f.id : f \in files}]
  /\ UNCHANGED <<files, ledger, ingests, answered, reports>>

Listed == {f \in files : f.id \in report.listed}

\* All of them are read, and those of the pack are counted.
BuildReport ==
  /\ report # None
  /\ \A f \in Listed : f.content # Damaged
  /\ LET outcomes == {o \in {f.content : f \in Listed} : o.pack = report.pack}
         rows == RuleMetrics(outcomes)
     IN reports' = reports \cup
          {[pack |-> report.pack, answered |-> report.answered, outcomes |-> outcomes,
            rules |-> {<<row.rule, RuleRecommendation(row)>> : row \in rows},
            recommendation |-> PackRecommendation(rows)]}
  /\ report' = None
  /\ UNCHANGED <<files, ledger, ingests, answered, budget>>

\* One half-written record, of whichever pack, and there is no report.
RefuseReport ==
  /\ report # None
  /\ \E f \in Listed : f.content = Damaged
  /\ report' = None
  /\ UNCHANGED <<files, ledger, ingests, answered, reports, budget>>

OutcomeNext ==
  \/ \E i \in Ingesters :
       \/ \E outcome \in Observed : CheckRecord(i, outcome)
       \/ CreateRecord(i)
       \/ WriteRecord(i)
       \/ JournalOutcome(i)
       \/ StopIngest(i)
  \/ \E pack \in packs : ListOutcomes(pack)
  \/ BuildReport
  \/ RefuseReport

Init == PackInit /\ OutcomeInit /\ budget \in Budgets

Next ==
  \/ PackNext /\ UNCHANGED outcomeVars
  \/ OutcomeNext /\ UNCHANGED packVars

Spec == Init /\ [][Next]_vars

-----------------------------------------------------------------------------
(***************************************************************************)
(* Properties.                                                             *)
(***************************************************************************)

\* Types.  In particular a record file is the only one of its identity, and
\* holds an outcome of that identity unless it is half written.
GovernanceTypeOK ==
  /\ corpus \in SUBSET Batches
  /\ compilations \subseteq SUBSET Batches
  /\ \A pack \in packs : pack.version \in Versions /\ pack.compilation \in compilations
  /\ \A half \in Halves : keyFiles[half] \in {None, Damaged} \cup DOMAIN keygens
  /\ Cardinality(Generating) <= 1
  /\ \A m \in manifests : m.pack \in packs /\ m.channel \in Channels
  /\ ToSet(retired) \subseteq packs
  /\ \A f, g \in files : f.id = g.id => f = g
  /\ \A f \in files : f.content # Damaged => Identity(f.content) = f.id

\* There is one canonical observation of an outcome, however often and by
\* however many it is delivered: the ledger has it accepted once at most, and
\* the record of every line stands in its file to stay
\* (effectiveness-contract.yaml:79).
LedgerTruthful ==
  /\ \A i, k \in DOMAIN ledger :
       /\ ledger[i].id = ledger[k].id
       /\ ledger[i].status = "accepted" /\ ledger[k].status = "accepted"
       => i = k
  /\ \A line \in ToSet(ledger) : [id |-> line.id, content |-> line.document] \in files

\* A report counts every outcome of its pack that had been answered when it
\* began, those included whose first ingestion was interrupted, and counts none
\* twice.
ReportsCountAnswered ==
  \A r \in reports :
    /\ {o \in r.answered : o.pack = r.pack} \subseteq r.outcomes
    /\ \A o, p \in r.outcomes : Identity(o) = Identity(p) => o = p

\* Small samples escalate nothing and unknown outcomes excuse nothing: a pack
\* is to be rolled back only for a rule with a sample of its own that does
\* badly among what is known of it, and is to be retained only if no such rule
\* is in doubt and less than a quarter is unknown (ADR-INTEL-025).
RecommendationsEarned ==
  \A r \in reports :
    LET Of(rule, classes) ==
          Cardinality({o \in r.outcomes : o.rule = rule /\ o.class \in classes})
        sampled == {rule \in {o.rule : o \in r.outcomes} :
                      Cardinality({o \in r.outcomes : o.rule = rule}) >= MinimumRuleSample}
        Blamed(rule, percent, escapes, reverts) ==
          LET wrong == Of(rule, {"confirmed_false_positive"})
              right == Of(rule, {"diagnostic_accepted", "diagnostic_dismissed"})
              escaped == Of(rule, {"escaped_detection"})
              caught == Of(rule, {"prevented_before_merge", "detected_in_CI",
                                  "diagnostic_shown", "diagnostic_accepted"})
              undone == Of(rule, {"quick_fix_reverted"})
              kept == Of(rule, {"quick_fix_applied"})
          IN \/ wrong > 0 /\ wrong * (100 - percent) >= right * percent
             \/ escaped > 0 /\ escaped * (100 - escapes) >= caught * escapes
             \/ undone > 0 /\ undone * (100 - reverts) >= kept * reverts
        unknown == {o \in r.outcomes : o.class \in UnknownOutcomes}
    IN /\ r.recommendation # "insufficient_evidence" <=>
            Cardinality(r.outcomes) >= MinimumPackSample
       /\ r.recommendation = "rollback_recommended" =>
            \E rule \in sampled : Blamed(rule, 10, 20, 25)
       /\ r.recommendation = "retain" =>
            /\ 4 * Cardinality(unknown) < Cardinality(r.outcomes)
            /\ \A rule \in sampled : ~Blamed(rule, 5, 10, 10)
=============================================================================
