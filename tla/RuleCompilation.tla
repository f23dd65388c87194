--------------------------- MODULE RuleCompilation ---------------------------
(***************************************************************************)
(* From a corpus snapshot to candidate rules: the learning observations,   *)
(* the recurrence and effectiveness reports (analytics/), the score and    *)
(* the state of a candidate and its regression fixtures (compilation/).    *)
(* Scores are integers, in millionths, as the code rounds them.            *)
(*                                                                         *)
(* A corpus is a set of events as LearningProjection has them.  Claims a   *)
(* correction superseded are among them: the projection never looks at     *)
(* superseded_by.  Reports no candidate is computed from (co-occurrence)   *)
(* are left out; and no producer reports effort in minutes, so the effort  *)
(* report knows no mean for any class.                                     *)
(***************************************************************************)
EXTENDS LearningProjection, Integers, FiniteSets, SequencesExt

-----------------------------------------------------------------------------
(***************************************************************************)
(* Analytics.                                                              *)
(***************************************************************************)

\* load_observations: all rows of all records, each with its place in its
\* record, for rows may be alike.
Observations(events) ==
  UNION {{[place |-> i, of |-> Rows(event)[i]] : i \in DOMAIN Rows(event)} :
           event \in events}

\* A group is attributed to a rule only if all of it is.
RecurrenceRows(observations) ==
  LET Group(key) == {o \in observations : <<o.of.fingerprint, o.of.class>> = key}
      RulesIn(members) == {o.of.rule : o \in members}
  IN {[fingerprint |-> key[1], class |-> key[2],
       rule |-> IF Cardinality(RulesIn(Group(key))) = 1
                  THEN CHOOSE rule \in RulesIn(Group(key)) : TRUE ELSE None,
       occurrences |-> Cardinality(Group(key)),
       scopes |-> Cardinality({o.of.scope : o \in Group(key)})] :
        key \in {<<o.of.fingerprint, o.of.class>> : o \in observations}}

\* What is known of the repairs and findings attributed to a rule; those
\* attributed to none share one row, of which None is the rule.
Effectiveness(observations, rule) ==
  LET members == {o \in observations : o.of.rule = rule}
      Outcome(values) == Cardinality({o \in members : o.of.outcome \in values})
      Found(values) == Cardinality({o \in members : o.of.disposition \in values})
  IN [passed |-> Outcome({"passed"}),
      validated |-> Outcome({"passed", "failed", "partial"}),
      falsePositives |-> Found({"confirmed_false_positive"}),
      classified |-> Found({"confirmed_false_positive", "confirmed_true_positive"})]

-----------------------------------------------------------------------------
(***************************************************************************)
(* Scores.                                                                 *)
(***************************************************************************)
Millionths == 1000000

Rounded(numerator, denominator) == (2 * numerator + denominator) \div (2 * denominator)

CappedRatio(value, target) ==
  IF value = None THEN 0
  ELSE Rounded(Min({value, target}) * 5 * Millionths, target)

\* A part of a whole in fives; of no whole, nothing.
Share(part, whole) ==
  IF whole = 0 THEN 0 ELSE Rounded(part * 5 * Millionths, whole)

\* Fault: a rule none of whose findings were classified has no false positives.
CalculateScoreTrusting(row, effort, evidence) ==
  Rounded(30 * CappedRatio(row.occurrences, 10) + 20 * CappedRatio(row.scopes, 5)
          + 15 * CappedRatio(effort, 120)
          + 15 * Share(evidence.passed, evidence.validated)
          + 20 * (IF evidence.classified = 0 THEN 5 * Millionths
                  ELSE Share(evidence.classified - evidence.falsePositives,
                             evidence.classified)), 100)

\* What is not known scores nothing.
CalculateScore(row, effort, evidence) ==
  Rounded(30 * CappedRatio(row.occurrences, 10) + 20 * CappedRatio(row.scopes, 5)
          + 15 * CappedRatio(effort, 120)
          + 15 * Share(evidence.passed, evidence.validated)
          + 20 * Share(evidence.classified - evidence.falsePositives,
                       evidence.classified), 100)

CandidateState(score) ==
  CASE score >= 4 * Millionths -> "promotion_eligible"
    [] score >= 3 * Millionths /\ score < 4 * Millionths -> "compiled_candidate"
    [] OTHER -> "deferred"

-----------------------------------------------------------------------------
(***************************************************************************)
(* Compilation.                                                            *)
(***************************************************************************)

\* extract_candidates: one for every recurrence row, whatever its score.
Candidates(events) ==
  LET observations == Observations(events)
      Candidate(row) ==
        LET score == CalculateScore(row, None, Effectiveness(observations, row.rule))
        IN [fingerprint |-> row.fingerprint, class |-> row.class,
            kind |-> IF row.class \in {"gate_outcome", "CI_failure_classification"}
                       THEN "sdk_architecture_contract" ELSE "ast_grep",
            score |-> score, state |-> CandidateState(score)]
  IN {Candidate(row) : row \in RecurrenceRows(observations)}

\* The two fixtures of a candidate, and what they are to show.
Fixtures(candidate) ==
  {[class |-> candidate.class, fingerprint |-> candidate.fingerprint, match |-> TRUE],
   [class |-> "unrelated_event", fingerprint |-> <<"zeros">>, match |-> FALSE]}

FixturePasses(candidate, fixture) ==
  LET observed == /\ fixture.class = candidate.class
                  /\ fixture.fingerprint = candidate.fingerprint
  IN observed = fixture.match

\* A compilation with a failed fixture is not kept.
Compiles(candidates) ==
  \A c \in {d \in candidates : d.state # "deferred"} :
    \A fixture \in Fixtures(c) : FixturePasses(c, fixture)

Eligible(candidates) == {c \in candidates : c.state = "promotion_eligible"}
=============================================================================
