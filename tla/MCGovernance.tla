---------------------------- MODULE MCGovernance ------------------------------
(***************************************************************************)
(* Instances of Effectiveness for TLC: a failure that recurs just often    *)
(* enough to be promoted once its repairs are credited, one that has a     *)
(* rule of its own, and others.                                            *)
(***************************************************************************)
EXTENDS GovernanceInvariants, TLC

CONSTANTS repaired, oneMore, mixed, unclassified

\* The verification of the n-th episode of a failure in a repository.
Verification(failure, n, repository, outcome, flake) ==
  [record |-> <<failure, n>>, contract |-> "historical", class |-> "verification_outcome",
   scope |-> repository, failure |-> failure, authority |-> None, remediation |-> None,
   outcome |-> outcome, flake |-> flake]

\* The n-th repair of a failure with a canonical identity, which is a rule; the
\* miner itself reports none (normalization.py:242).
Attributed(failure, n, repository) ==
  [Verification(failure, n, repository, "clean_verified", FALSE) EXCEPT
     !.authority = "canonical"]

Feedback(failure, n, repository, result) ==
  [record |-> <<failure, n>>, contract |-> "resolver", class |-> "repair_attempt",
   scope |-> repository, failure |-> failure, remediation |-> "fix", result |-> result]

Repositories == <<"r1", "r2", "r3", "r4", "r5">>

\* Eight repairs of import errors in four repositories, all of them credited.
Repaired ==
  {Verification("import", n, Repositories[(n % 4) + 1], "clean_verified", FALSE) : n \in 1 .. 8}

\* One more repair in a fifth repository, just enough, and one of type errors.
OneMore ==
  {Verification("import", 9, "r5", "clean_verified", FALSE), Attributed("types", 9, "r5")}

\* Four repairs of import errors that failed, one of them a flake, and one
\* without an outcome; and eight of type errors, which have a rule.
Mixed ==
  {Verification("import", n, "r1", "repeated_failure", n = 10) : n \in 10 .. 13}
  \cup {Verification("import", 14, "r2", "unresolved", FALSE)}
  \cup {Attributed("types", n, Repositories[(n % 4) + 1]) : n \in 1 .. 8}

\* Ten repairs nothing was found about, as the resolver reports them.
Unclassified == {Feedback("lint", n, Repositories[(n % 5) + 1], "passed") : n \in 1 .. 10}

MCBatches == {repaired, oneMore, mixed, unclassified}

MCContents ==
  [batch \in MCBatches |->
     CASE batch = repaired -> Repaired [] batch = oneMore -> OneMore
       [] batch = mixed -> Mixed [] batch = unclassified -> Unclassified]

Sighting(event, surface, class, latency) ==
  [event |-> event, surface |-> surface, class |-> class, latency |-> latency]

MCSightings ==
  {Sighting("e1", "LSP", "confirmed_false_positive", 90),
   Sighting("e1", "LSP", "diagnostic_accepted", 90),
   Sighting("e2", "LSP", "diagnostic_accepted", 300),
   Sighting("e3", "CI", "escaped_detection", None),
   Sighting("e4", "CI", "rule_not_evaluated", None)}

Nothing ==
  [op \in {"admit", "compile", "assemble", "keygen", "fail", "crash", "sign",
           "update", "retire", "ingest", "report"} |-> 0]

\* Keys generated again with failures; compilations of a corpus that grows;
\* packs of one channel after another, and retired; outcomes of one pack, with
\* a crash, and of a pack of several rules.
MCBudgets ==
  {[Nothing EXCEPT !.keygen = 3, !.fail = 1, !.crash = 1],
   [Nothing EXCEPT !.admit = 4, !.compile = 3, !.assemble = 3],
   [Nothing EXCEPT !.admit = 2, !.compile = 1, !.assemble = 2, !.keygen = 1, !.crash = 1,
                   !.sign = 3, !.update = 3],
   [Nothing EXCEPT !.admit = 2, !.compile = 1, !.assemble = 1, !.keygen = 1,
                   !.sign = 2, !.update = 2, !.retire = 1],
   [Nothing EXCEPT !.admit = 2, !.compile = 1, !.assemble = 1, !.keygen = 1, !.crash = 1,
                   !.sign = 1, !.update = 1, !.ingest = 3, !.report = 1],
   [Nothing EXCEPT !.admit = 3, !.compile = 1, !.assemble = 1, !.keygen = 1,
                   !.sign = 1, !.update = 1, !.ingest = 3, !.report = 1]}

\* Corpora of two batches, compiled and published.
MCBorrowedBudgets == {[Nothing EXCEPT !.admit = 2, !.compile = 1, !.assemble = 1]}

MCSymmetry ==
  Permutations(Operators) \cup Permutations(Ingesters) \cup Permutations(Versions)
=============================================================================
