------------------------- MODULE LearningProjection -------------------------
(***************************************************************************)
(* The learning observations one corpus event carries                      *)
(* (ingestion/learning.py).  An event is a record of                       *)
(*   record, contract, class                                               *)
(*   scope        the repository pseudonym, None if it carries none        *)
(* and, by contract,                                                       *)
(*   sdk          findings, a sequence of [rule, instance]                 *)
(*   resolver     failure, remediation, result                             *)
(*   historical   failure, authority, remediation, outcome, flake          *)
(* A field the producer left out is None.  Producers never report effort   *)
(* in minutes.  Locations, limitations and pack versions are left out.     *)
(***************************************************************************)
EXTENDS Sequences

CONSTANT None

ValidationOutcomes == {"passed", "failed", "partial", "unknown"}

HistoricalOutcome ==
  [clean_verified |-> "passed", target_failure_resolved |-> "passed",
   repeated_failure |-> "failed", new_failure |-> "failed",
   outcome_unknown |-> "unknown", unresolved |-> "unknown"]

Or(value, fallback) == IF value # None THEN value ELSE fallback

\* The scope of an event without a pseudonym is its own record.
Scope(event) == Or(event.scope, <<"record", event.record>>)

\* A recurrence key or, without one, a key no other record has.
Fingerprint(namespace, key, record) ==
  IF key # None THEN <<namespace, key>> ELSE <<"record", record>>

\* What an observation holds unless its projector knows better.
Plain(event) ==
  [record |-> event.record, class |-> event.class, scope |-> Scope(event),
   fingerprint |-> <<"record", event.record>>, rule |-> None,
   remediation |-> None, effort |-> None, outcome |-> None,
   disposition |-> None]

\* One observation for each finding, keyed by its rule rather than by the
\* finding's own fingerprint.
FindingRows(event) ==
  [i \in DOMAIN event.findings |->
     LET finding == event.findings[i]
     IN [Plain(event) EXCEPT
           !.rule = finding.rule,
           !.fingerprint =
             IF finding.rule # None THEN <<"rule", finding.rule>>
             ELSE <<"instance", Or(finding.instance, event.record)>>]]

ResolverRows(event) ==
  <<[Plain(event) EXCEPT
       !.fingerprint = Fingerprint("failure", event.failure, event.record),
       !.remediation = event.remediation,
       !.outcome = IF event.result \in ValidationOutcomes \cup {None}
                     THEN event.result ELSE "unknown"]>>

\* The learning outcome of a historical event, None when it validates nothing.
Validated(event) ==
  IF event.outcome = None THEN None
  ELSE IF event.outcome \in DOMAIN HistoricalOutcome
    THEN HistoricalOutcome[event.outcome] ELSE "unknown"

\* Only a validated repair of a failure that is no flake is a true positive.
Disposition(event) ==
  IF event.flake THEN "inconclusive"
  ELSE IF Validated(event) = "passed" THEN "confirmed_true_positive" ELSE None

HistoricalRows(event) ==
  <<[Plain(event) EXCEPT
       !.fingerprint = Fingerprint("failure", event.failure, event.record),
       !.rule = IF event.authority = "canonical" THEN event.failure ELSE None,
       !.remediation = event.remediation,
       !.outcome = Validated(event),
       !.disposition = Disposition(event)]>>

\* An event of a contract without projector is one observation that recurs
\* nowhere.
Rows(event) ==
  CASE event.contract = "sdk" -> FindingRows(event)
    [] event.contract = "resolver" -> ResolverRows(event)
    [] event.contract = "historical" -> HistoricalRows(event)
    [] OTHER -> <<Plain(event)>>
=============================================================================
