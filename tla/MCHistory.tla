----------------------------- MODULE MCHistory ------------------------------
(***************************************************************************)
(* Pull requests of a few commits for HistoricalBootstrap.                 *)
(***************************************************************************)
EXTENDS HistoryInvariants

File(areas) == [areas |-> areas, removed |-> FALSE, skips |-> FALSE]

Commit(parents, file) == [parents |-> parents, files |-> {file}, secret |-> FALSE]

MCRevisions == {"a", "b", "skip", "merge", "secret"}

\* b fixes what a broke; skip, on a as well, skips a test instead; merge joins
\* the two; the commit document of secret, on b, holds a secret.
MCShape ==
  [a |-> Commit(<<"base">>, File({})),
   b |-> Commit(<<"a">>, File({})),
   skip |-> Commit(<<"a">>, [File({"test"}) EXCEPT !.skips = TRUE]),
   merge |-> Commit(<<"b", "skip">>, File({"lockfile"})),
   secret |-> [Commit(<<"b">>, File({"test"})) EXCEPT !.secret = TRUE]]

Steps(build, test) ==
  <<[name |-> "build", conclusion |-> build], [name |-> "test", conclusion |-> test]>>

Passing == [conclusion |-> "success", steps |-> Steps("success", "success")]
Failing == [conclusion |-> "failure", steps |-> Steps("success", "failure")]
Broken == [conclusion |-> "failure", steps |-> Steps("failure", "skipped")]
Hollow == [conclusion |-> "success", steps |-> Steps("success", "skipped")]
Shorter == [conclusion |-> "success", steps |-> SubSeq(Passing.steps, 1, 1)]
Cancelled == [conclusion |-> "cancelled", steps |-> <<>>]

\* Two of the jobs go by one name.
MCJobName == [unit |-> "unit", unit2 |-> "unit", lint |-> "lint"]

Ending(unit, lint) == [unit |-> unit, lint |-> lint]

Green == Ending(Passing, Passing)
Red == Ending(Failing, Passing)
BothRed == Ending(Failing, Broken)
TwoUnits == [unit |-> Passing, unit2 |-> Cancelled, lint |-> Passing]

MCResults ==
  {Green, Red, BothRed, TwoUnits} \cup
  {Ending(unit, Passing) : unit \in {Hollow, Shorter, Cancelled}}

\* A pull request of these commits with these attempts of the first runs of a,
\* of the commit after it and of the one after that.
World(commits, attempts) ==
  [commits |-> commits, signals |-> {},
   attempts |-> [run \in Runs |->
     IF run[3] = 1 /\ \E i \in DOMAIN attempts : commits[i] = run[1]
       THEN attempts[CHOOSE i \in DOMAIN attempts : commits[i] = run[1]]
       ELSE <<>>]]

\* It was opened again, and a has a second run.
Again(w, attempts) == [w EXCEPT !.attempts[<<"a", "ci", 2>>] = attempts]

\* A pull request whose failure may come after a pass: the rerun is under way.
MCRerunWorlds == {World(<<"a", "b">>, <<<<Green, Running>>, <<Green>>>>)}

\* What is there twice: runs of a revision that fail alike or do not, runs of
\* which two come next after a failure, jobs of one name.
MCTwiceWorlds ==
  {Again(World(<<"a", "b">>, <<<<Red>>, <<Green>>>>), <<Running>>),
   Again(World(<<"a">>, <<<<Red, Red>>>>), <<Ending(Cancelled, Passing), Green>>),
   World(<<"a", "b">>, <<<<Red>>, <<TwoUnits>>>>)}

\* That one; two failures before a run that is under way, of a branch to be
\* squashed; a failure rerun; one that passed on its own revision; one whose
\* later runs are equally near; one followed by a merge, one by a secret; and a
\* run with more jobs than the page bound holds.  The run of three attempts has
\* just as many when it gets a fourth.
MCWorlds ==
  MCRerunWorlds \cup MCTwiceWorlds \cup
  {[World(<<"a", "b">>, <<<<BothRed>>, <<Running>>>>) EXCEPT !.signals = {"squash"}],
   World(<<"a", "b">>, <<<<Red, Running>>, <<Green>>>>),
   World(<<"a", "b">>, <<<<Green, Red>>, <<Green>>>>),
   World(<<"a", "b", "skip">>, <<<<Red>>, <<Green>>, <<Green>>>>),
   World(<<"a", "b", "merge">>, <<<<Red>>, <<Red>>, <<Green>>>>),
   World(<<"b", "secret">>, <<<<Red>>, <<Green>>>>),
   World(<<"a">>, <<<<Red, Green, Red, Red, Running>>>>)}

Number == [a |-> 1, b |-> 2, skip |-> 3, merge |-> 4, secret |-> 5]

Rank(seen) ==
  1000 * Number[seen[1][1]] + 100 * seen[1][3] + 10 * seen[2]
    + (IF Len(seen) = 2 THEN 0 ELSE [unit |-> 1, unit2 |-> 2, lint |-> 3][seen[3]])
    + (IF Len(seen) = 4 THEN 3 ELSE 0)

\* Hashes that put what is later last, or first.
MCHashes ==
  <<[seen \in Observed |-> Rank(seen)], [seen \in Observed |-> 10000 - Rank(seen)]>>
=============================================================================
